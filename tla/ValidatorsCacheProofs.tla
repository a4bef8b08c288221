------------------------ MODULE ValidatorsCacheProofs ------------------------
(***************************************************************************)
(* Proofs about PerEpochCache, for any number of epochs and failures, and  *)
(* about ValidatorsCache, for any validators, epochs and window: it only   *)
(* takes steps of PerEpochCache, so that the theorems of the one hold for  *)
(* the other, and what it adds is proved on top of them.  The ranks of     *)
(* ValidatorsList are proved right for lists of any length.                *)
(***************************************************************************)
EXTENDS ValidatorsCache, WellFoundedInduction, FiniteSetTheorems, SequenceTheorems, TLAPS

(* What the ETL sees to. *)
OtherTablesFirst == EpochsLast => \A t \in Tables : bigquery["epochs"] <= bigquery[t]

AsOfItsEpoch(c) ==
    /\ c.unique_delegators >= c.epoch
    /\ c.take_rates.stakes >= c.epoch
    /\ c.take_rates.rewards >= c.epoch

(* Only the warmer writes the cache, so that its copy is what is cached.   *)
CopyIsCached == warm.step # "start" => warm.cached = cache.per_epoch

(* What has been loaded so far is as new as its epoch.                     *)
LoadedIsNew ==
    /\ warm.refreshed.epoch <= bigquery["epochs"]
    /\ warm.step \in {"start", "last_epoch"} => warm.refreshed = None
    /\ EpochsLast /\ warm.step = "take_rates" /\ ~warm.failed
       => warm.refreshed.unique_delegators >= warm.refreshed.epoch
    /\ EpochsLast /\ warm.step \in {"validators", "write"} => AsOfItsEpoch(warm.refreshed)

CacheIsNew == EpochsLast => AsOfItsEpoch(cache.per_epoch)

IInv ==
    /\ TypeOK
    /\ OtherTablesFirst
    /\ CopyIsCached
    /\ LoadedIsNew
    /\ CacheIsNew
    /\ ValidatorsMatchCached

-----------------------------------------------------------------------------
LEMMA BoundsTyped == MaxEpoch \in Nat /\ MaxFailures \in Nat /\ EpochsLast \in BOOLEAN
BY PerEpochCacheAssumption DEF PerEpochCacheAssumption

LEMMA NoneTyped == None \in Cached /\ None.epoch = 0 /\ AsOfItsEpoch(None)
BY BoundsTyped DEF None, Cached, Epoch, AsOfItsEpoch

LEMMA StartTyped == /\ Start \in Warm /\ Start.step = "start" /\ Start.refreshed = None
                    /\ Start.cached = None /\ Start.failed = FALSE
BY NoneTyped DEF Start, Warm

LEMMA InitIInv == Init => IInv
<1> SUFFICES ASSUME Init PROVE IInv
  OBVIOUS
<1>1. TypeOK
  BY BoundsTyped, NoneTyped, StartTyped DEF Init, TypeOK, Epoch, Tables
<1>2. OtherTablesFirst /\ CopyIsCached /\ LoadedIsNew /\ CacheIsNew /\ ValidatorsMatchCached
  BY NoneTyped, StartTyped DEF Init, OtherTablesFirst, CopyIsCached, LoadedIsNew, CacheIsNew,
     ValidatorsMatchCached, Tables
<1> QED
  BY <1>1, <1>2 DEF IInv

(* New epochs in BigQuery only make what was loaded older than need be.    *)
LEMMA LandIInv == ASSUME IInv, NEW t \in Tables, Land(t) PROVE IInv'
<1> USE DEF IInv
<1>1. /\ \A u \in Tables : bigquery[u] \in Nat /\ bigquery'[u] \in Nat
      /\ \A u \in Tables : bigquery'[u] = IF u = t THEN bigquery[u] + 1 ELSE bigquery[u]
      /\ "epochs" \in Tables
  BY BoundsTyped DEF Land, TypeOK, Epoch, Tables
<1>2. warm \in Warm /\ cache.per_epoch \in Cached
  BY DEF TypeOK
<1>3. warm.refreshed.epoch \in Nat /\ cache.per_epoch.epoch \in Nat
  BY <1>2 DEF Warm, Cached, Epoch
<1>4. TypeOK'
  BY <1>1, <1>3, BoundsTyped DEF Land, TypeOK, Epoch
<1>5. OtherTablesFirst'
  BY <1>1 DEF Land, OtherTablesFirst
<1>6. LoadedIsNew'
  BY <1>1, <1>3 DEF Land, LoadedIsNew
<1>7. CopyIsCached' /\ CacheIsNew' /\ ValidatorsMatchCached'
  BY DEF Land, CopyIsCached, CacheIsNew, ValidatorsMatchCached
<1> QED
  BY <1>4, <1>5, <1>6, <1>7

(* A step of the warmer that does not write the cache.                     *)
LEMMA WarmerMovesOn ==
    ASSUME IInv, UNCHANGED <<bigquery, cache>>, failures' \in 0..MaxFailures,
           warm' \in Warm, CopyIsCached', LoadedIsNew'
    PROVE  IInv'
BY DEF IInv, TypeOK, OtherTablesFirst, CacheIsNew, ValidatorsMatchCached

(* The warmer begins a round again.                                        *)
LEMMA BackToStart ==
    ASSUME IInv, UNCHANGED <<bigquery, cache>>, failures' \in 0..MaxFailures, warm' = Start
    PROVE  IInv'
<1>1. bigquery["epochs"] \in Nat
  BY BoundsTyped DEF IInv, TypeOK, Epoch, Tables
<1>2. CopyIsCached' /\ LoadedIsNew'
  BY <1>1, StartTyped, NoneTyped DEF CopyIsCached, LoadedIsNew
<1> QED
  BY <1>2, StartTyped, WarmerMovesOn

LEMMA CloneCachedIInv == IInv /\ CloneCached => IInv'
<1> SUFFICES ASSUME IInv, CloneCached PROVE IInv'
  OBVIOUS
<1>1. warm' = [Start EXCEPT !.step = "last_epoch", !.cached = cache.per_epoch]
      /\ cache.per_epoch \in Cached /\ bigquery["epochs"] \in Nat /\ failures \in 0..MaxFailures
  BY BoundsTyped DEF CloneCached, IInv, TypeOK, Epoch, Tables
<1>2. /\ warm'.step = "last_epoch" /\ warm'.cached = cache.per_epoch
      /\ warm'.refreshed = None /\ warm' \in Warm
  BY <1>1, StartTyped DEF Start, Warm
<1>3. CopyIsCached' /\ LoadedIsNew'
  BY <1>1, <1>2, NoneTyped DEF CloneCached, CopyIsCached, LoadedIsNew
<1> QED
  BY <1>1, <1>2, <1>3, WarmerMovesOn DEF CloneCached

LEMMA LoadLastEpochIInv == IInv /\ LoadLastEpoch => IInv'
<1> SUFFICES ASSUME IInv, LoadLastEpoch PROVE IInv'
  OBVIOUS
<1>1. /\ warm \in Warm /\ warm.step = "last_epoch" /\ warm.refreshed = None
      /\ warm.cached = cache.per_epoch /\ failures \in 0..MaxFailures
      /\ bigquery["epochs"] \in Epoch /\ bigquery["epochs"] \in Nat
  BY BoundsTyped DEF LoadLastEpoch, IInv, TypeOK, LoadedIsNew, CopyIsCached, Tables, Epoch
<1>2. CASE warm' = [warm EXCEPT !.step = "validators"]
  <2>1. warm' \in Warm /\ warm'.step = "validators" /\ warm'.refreshed = None
        /\ warm'.cached = warm.cached
    BY <1>1, <1>2 DEF Warm
  <2>2. CopyIsCached' /\ LoadedIsNew'
    BY <1>1, <2>1, NoneTyped DEF LoadLastEpoch, CopyIsCached, LoadedIsNew
  <2> QED
    BY <1>1, <2>1, <2>2, WarmerMovesOn DEF LoadLastEpoch
<1>3. CASE warm' = [warm EXCEPT !.step = "delegators", !.refreshed.epoch = LastBigqueryEpoch]
  <2>1. warm' \in Warm /\ warm'.step = "delegators" /\ warm'.cached = warm.cached
        /\ warm'.refreshed.epoch = bigquery["epochs"]
    BY <1>1, <1>3 DEF Warm, Cached, LastBigqueryEpoch
  <2>2. CopyIsCached' /\ LoadedIsNew'
    BY <1>1, <2>1 DEF LoadLastEpoch, CopyIsCached, LoadedIsNew
  <2> QED
    BY <1>1, <2>1, <2>2, WarmerMovesOn DEF LoadLastEpoch
<1> QED
  BY <1>2, <1>3 DEF LoadLastEpoch

LEMMA LoadDelegatorsIInv == IInv /\ LoadDelegators => IInv'
<1> SUFFICES ASSUME IInv, LoadDelegators PROVE IInv'
  OBVIOUS
<1>1. /\ warm \in Warm /\ warm.step = "delegators" /\ failures \in 0..MaxFailures
      /\ warm.cached = cache.per_epoch /\ warm.refreshed.epoch <= bigquery["epochs"]
      /\ warm.refreshed.epoch \in Nat
      /\ bigquery["stakes"] \in Epoch /\ bigquery["stakes"] \in Nat /\ bigquery["epochs"] \in Nat
      /\ EpochsLast => bigquery["epochs"] <= bigquery["stakes"]
  BY BoundsTyped DEF LoadDelegators, IInv, TypeOK, LoadedIsNew, CopyIsCached, OtherTablesFirst,
     Tables, Epoch, Warm, Cached
<1>2. /\ warm' \in Warm /\ warm'.step = "take_rates" /\ warm'.cached = warm.cached
      /\ warm'.refreshed.epoch = warm.refreshed.epoch
      /\ warm'.refreshed.unique_delegators = bigquery["stakes"]
  BY <1>1 DEF LoadDelegators, Warm, Cached
<1>3. CopyIsCached' /\ LoadedIsNew'
  BY <1>1, <1>2 DEF LoadDelegators, CopyIsCached, LoadedIsNew
<1> QED
  BY <1>1, <1>2, <1>3, WarmerMovesOn DEF LoadDelegators

LEMMA LoadTakeRatesIInv == IInv /\ LoadTakeRates => IInv'
<1> SUFFICES ASSUME IInv, LoadTakeRates PROVE IInv'
  OBVIOUS
<1>1. /\ warm \in Warm /\ warm.step = "take_rates" /\ failures \in 0..MaxFailures
      /\ warm.cached = cache.per_epoch /\ warm.refreshed.epoch <= bigquery["epochs"]
      /\ warm.refreshed.epoch \in Nat
      /\ \A t \in Tables : bigquery[t] \in Epoch /\ bigquery[t] \in Nat
      /\ EpochsLast => /\ bigquery["epochs"] <= bigquery["stakes"]
                       /\ bigquery["epochs"] <= bigquery["rewards"]
      /\ EpochsLast /\ ~warm.failed => warm.refreshed.unique_delegators >= warm.refreshed.epoch
  BY BoundsTyped DEF LoadTakeRates, IInv, TypeOK, LoadedIsNew, CopyIsCached, OtherTablesFirst,
     Tables, Epoch, Warm, Cached
<1>2. bigquery["epochs"] \in Nat /\ bigquery["stakes"] \in Epoch /\ bigquery["rewards"] \in Epoch
      /\ bigquery["stakes"] \in Nat /\ bigquery["rewards"] \in Nat
  BY <1>1 DEF Tables
<1> DEFINE loaded == [warm.refreshed EXCEPT !.take_rates =
                         [stakes |-> bigquery["stakes"], rewards |-> bigquery["rewards"]]]
<1>3. /\ loaded \in Cached /\ loaded.epoch = warm.refreshed.epoch
      /\ loaded.unique_delegators = warm.refreshed.unique_delegators
      /\ loaded.take_rates.stakes = bigquery["stakes"]
      /\ loaded.take_rates.rewards = bigquery["rewards"]
  BY <1>1, <1>2 DEF Warm, Cached
<1>4. EpochsLast /\ ~warm.failed => AsOfItsEpoch(loaded)
  BY <1>1, <1>2, <1>3 DEF AsOfItsEpoch
<1>5. /\ warm'.step = "validators" /\ warm'.cached = warm.cached
      /\ warm'.refreshed = IF warm.failed THEN None ELSE loaded
      /\ warm' = [warm EXCEPT !.step = "validators",
                              !.refreshed = IF warm.failed THEN None ELSE loaded]
  BY <1>1 DEF LoadTakeRates, Warm
<1> HIDE DEF loaded
<1>6. warm' \in Warm
  BY <1>1, <1>3, <1>5, NoneTyped DEF Warm
<1>7. CopyIsCached' /\ LoadedIsNew'
  BY <1>1, <1>2, <1>3, <1>4, <1>5, NoneTyped DEF LoadTakeRates, CopyIsCached, LoadedIsNew
<1> QED
  BY <1>1, <1>6, <1>7, WarmerMovesOn DEF LoadTakeRates

LEMMA RequestFailsIInv == IInv /\ RequestFails => IInv'
<1> SUFFICES ASSUME IInv, RequestFails PROVE IInv'
  OBVIOUS
<1>1. /\ warm \in Warm /\ warm.step \in {"last_epoch", "delegators", "take_rates"}
      /\ failures' \in 0..MaxFailures /\ warm.cached = cache.per_epoch
      /\ warm.refreshed.epoch <= bigquery["epochs"] /\ bigquery["epochs"] \in Nat
  BY BoundsTyped DEF RequestFails, IInv, TypeOK, LoadedIsNew, CopyIsCached, Tables, Epoch
<1>2. CASE warm.step = "delegators"
  <2>1. /\ warm' \in Warm /\ warm'.step = "take_rates" /\ warm'.failed
        /\ warm'.cached = warm.cached /\ warm'.refreshed = warm.refreshed
    BY <1>1, <1>2 DEF RequestFails, Warm
  <2>2. CopyIsCached' /\ LoadedIsNew'
    BY <1>1, <2>1 DEF RequestFails, CopyIsCached, LoadedIsNew
  <2> QED
    BY <1>1, <2>1, <2>2, WarmerMovesOn DEF RequestFails
<1>3. CASE warm.step # "delegators"
  <2>1. /\ warm' \in Warm /\ warm'.step = "validators"
        /\ warm'.cached = warm.cached /\ warm'.refreshed = None
    BY <1>1, <1>3, NoneTyped DEF RequestFails, Warm
  <2>2. CopyIsCached' /\ LoadedIsNew'
    BY <1>1, <2>1, NoneTyped DEF RequestFails, CopyIsCached, LoadedIsNew
  <2> QED
    BY <1>1, <2>1, <2>2, WarmerMovesOn DEF RequestFails
<1> QED
  BY <1>2, <1>3

LEMMA LoadValidatorsIInv == IInv /\ LoadValidators => IInv'
<1> SUFFICES ASSUME IInv, LoadValidators PROVE IInv'
  OBVIOUS
<1>1. warm \in Warm /\ warm.step = "validators" /\ failures \in 0..MaxFailures
  BY DEF LoadValidators, IInv, TypeOK
<1>2. /\ warm' \in Warm /\ warm'.step = "write"
      /\ warm'.cached = warm.cached /\ warm'.refreshed = warm.refreshed
  BY <1>1 DEF LoadValidators, Warm
<1>3. CopyIsCached' /\ LoadedIsNew'
  BY <1>1, <1>2 DEF LoadValidators, IInv, CopyIsCached, LoadedIsNew
<1> QED
  BY <1>1, <1>2, <1>3, WarmerMovesOn DEF LoadValidators

(* The one write of the cache takes both parts from the same source.       *)
LEMMA WriteCacheIInv == IInv /\ WriteCache => IInv'
<1> SUFFICES ASSUME IInv, WriteCache PROVE IInv'
  OBVIOUS
<1>1. /\ warm \in Warm /\ warm.step = "write" /\ warm.cached = cache.per_epoch
      /\ warm.refreshed.epoch <= bigquery["epochs"] /\ cache.per_epoch.epoch <= bigquery["epochs"]
      /\ EpochsLast => AsOfItsEpoch(warm.refreshed) /\ AsOfItsEpoch(cache.per_epoch)
      /\ warm.refreshed \in Cached /\ cache.per_epoch \in Cached /\ bigquery["epochs"] \in Nat
  BY BoundsTyped DEF WriteCache, IInv, TypeOK, LoadedIsNew, CopyIsCached, CacheIsNew, Warm,
     Tables, Epoch
<1>2. /\ cache' = [per_epoch |-> Source, validators |-> Source]
      /\ Source = warm.refreshed \/ Source = cache.per_epoch
      /\ warm' = Start /\ UNCHANGED <<bigquery, failures>>
  BY <1>1 DEF WriteCache, Source
<1>3. TypeOK'
  BY <1>1, <1>2, StartTyped DEF IInv, TypeOK
<1>4. CacheIsNew' /\ ValidatorsMatchCached'
  BY <1>1, <1>2 DEF CacheIsNew, ValidatorsMatchCached
<1>5. OtherTablesFirst' /\ CopyIsCached' /\ LoadedIsNew'
  BY <1>1, <1>2, StartTyped, NoneTyped DEF IInv, OtherTablesFirst, CopyIsCached, LoadedIsNew
<1> QED
  BY <1>3, <1>4, <1>5 DEF IInv

LEMMA RestartIInv == IInv /\ Restart => IInv'
<1> SUFFICES ASSUME IInv, Restart PROVE IInv'
  OBVIOUS
<1>1. /\ cache' = [per_epoch |-> None, validators |-> None]
      /\ warm' = Start /\ UNCHANGED bigquery /\ failures' \in 0..MaxFailures
      /\ bigquery["epochs"] \in Nat
  BY BoundsTyped DEF Restart, IInv, TypeOK, Tables, Epoch
<1>2. TypeOK'
  BY <1>1, StartTyped, NoneTyped DEF IInv, TypeOK
<1>3. OtherTablesFirst' /\ CopyIsCached' /\ LoadedIsNew' /\ CacheIsNew' /\ ValidatorsMatchCached'
  BY <1>1, StartTyped, NoneTyped DEF IInv, OtherTablesFirst, CopyIsCached, LoadedIsNew,
     CacheIsNew, ValidatorsMatchCached
<1> QED
  BY <1>2, <1>3 DEF IInv

LEMMA NextIInv == IInv /\ [Next]_vars => IInv'
<1> SUFFICES ASSUME IInv, [Next]_vars PROVE IInv'
  OBVIOUS
<1>1. ASSUME NEW t \in Tables, Land(t) PROVE IInv'
  BY <1>1, LandIInv
<1>2. CASE WarmerStep
  BY <1>2, CloneCachedIInv, LoadLastEpochIInv, LoadDelegatorsIInv, LoadTakeRatesIInv,
     LoadValidatorsIInv, WriteCacheIInv DEF WarmerStep
<1>3. CASE RequestFails
  BY <1>3, RequestFailsIInv
<1>4. CASE LoadValidatorsFails
  <2>1. UNCHANGED <<bigquery, cache>> /\ warm' = Start /\ failures' \in 0..MaxFailures
    BY <1>4, BoundsTyped DEF LoadValidatorsFails, IInv, TypeOK
  <2> QED
    BY <2>1, BackToStart
<1>5. CASE Restart
  BY <1>5, RestartIInv
<1>6. CASE UNCHANGED vars
  BY <1>6 DEF vars, IInv, TypeOK, OtherTablesFirst, CopyIsCached, LoadedIsNew, CacheIsNew,
     ValidatorsMatchCached
<1> QED
  BY <1>1, <1>2, <1>3, <1>4, <1>5, <1>6 DEF Next

-----------------------------------------------------------------------------
(* The cache and the warmer are of the kind TypeOK says, and the cache is  *)
(* never ahead of BigQuery.                                                *)
THEOREM PerEpochTypeCorrect == Spec => []TypeOK
<1>1. IInv => TypeOK
  BY DEF IInv
<1> QED
  BY InitIInv, NextIInv, <1>1, PTL DEF Spec

(* The cached validators are always built from the cached BigQuery data.   *)
THEOREM ValidatorsAreOfTheCache == Spec => []ValidatorsMatchCached
<1>1. IInv => ValidatorsMatchCached
  BY DEF IInv
<1> QED
  BY InitIInv, NextIInv, <1>1, PTL DEF Spec

(* If the ETL adds epochs last, data cached for an epoch is as new as it.  *)
THEOREM CacheIsAsOfItsEpoch == ASSUME EpochsLast PROVE Spec => []CachedAsOfItsEpoch
<1>1. IInv => CachedAsOfItsEpoch
  BY DEF IInv, CacheIsNew, AsOfItsEpoch, CachedAsOfItsEpoch
<1> QED
  BY InitIInv, NextIInv, <1>1, PTL DEF Spec

-----------------------------------------------------------------------------
(* ValidatorsCache does what PerEpochCache does                            *)

(* A step of the composition is one of PerEpochCache or leaves it alone.   *)
LEMMA CacheStepIsPerEpochStep == [CacheNext]_allVars => [Next]_vars
<1> SUFFICES ASSUME [CacheNext]_allVars
             PROVE  [Next]_vars
  OBVIOUS
<1>1. ASSUME UNCHANGED bigqueryVars PROVE UNCHANGED vars
  BY <1>1 DEF bigqueryVars, vars
<1>2. CASE \/ NextSnapshot \/ (\E v \in Validators : StoreValidator(v)) \/ StoreClusterInfo
           \/ GetLastEpoch \/ QueryValidators \/ UNCHANGED allVars
  <2>1. UNCHANGED bigqueryVars
    BY <1>2 DEF NextSnapshot, StoreValidator, StoreClusterInfo, GetLastEpoch,
       QueryValidators, LoadStep, allVars
  <2> QED
    BY <1>1, <2>1
<1>3. CASE LandInBigQuery
  BY <1>3 DEF LandInBigQuery, Next
<1>4. CASE WarmPerEpoch
  BY <1>4 DEF WarmPerEpoch, Next, WarmerStep
<1>5. CASE LoadIncidents \/ WriteValidators
  BY <1>5 DEF LoadIncidents, WriteValidators, Next, WarmerStep
<1>6. CASE LoadQueryFails \/ RestartApi
  BY <1>6 DEF LoadQueryFails, RestartApi, Next
<1> QED
  BY <1>2, <1>3, <1>4, <1>5, <1>6 DEF CacheNext, LoadValidatorsStep

LEMMA CacheKeepsPerEpoch == CacheSpec => []IInv
<1>1. CacheInit => IInv
  BY InitIInv DEF CacheInit
<1>2. IInv /\ [CacheNext]_allVars => IInv'
  BY CacheStepIsPerEpochStep, NextIInv
<1> QED
  BY <1>1, <1>2, PTL DEF CacheSpec

-----------------------------------------------------------------------------
(* The last epoch of a set of rows                                         *)

(* A nonempty set of natural numbers has a least element.                  *)
LEMMA LeastOfNaturals ==
    ASSUME NEW S \in SUBSET Nat, S # {}
    PROVE  \E x \in S : \A y \in S : x <= y
<1> DEFINE R == OpToRel(<, Nat)
<1>1. IsWellFoundedOn(R, Nat)
  BY NatLessThanWellFounded
<1>2. \A x, y \in Nat : <<y, x>> \in R <=> y < x
  BY DEF OpToRel
<1> HIDE DEF R
<1>3. PICK x \in S : \A y \in S : ~ (<<y, x>> \in R)
  BY <1>1, WFMin
<1>4. ASSUME NEW y \in S PROVE x <= y
  <2>1. x \in Nat /\ y \in Nat /\ ~ (y < x)
    BY <1>2, <1>3
  <2> QED
    BY <2>1
<1> QED
  BY <1>4

(* The last of the epochs up to n, by their distances from n.              *)
LEMMA MaxOfBounded ==
    ASSUME NEW n \in Nat, NEW S \in SUBSET (0..n), S # {}
    PROVE  Max(S) \in S /\ \A x \in S : x <= Max(S)
<1> DEFINE T == {n - x : x \in S}
<1>1. \A x \in S : x \in Nat /\ n - x \in T /\ n - x \in Nat
  OBVIOUS
<1>2. T \subseteq Nat /\ T # {}
  BY <1>1
<1>3. PICK t \in T : \A y \in T : t <= y
  BY <1>2, LeastOfNaturals
<1>4. PICK x \in S : t = n - x
  OBVIOUS
<1> HIDE DEF T
<1>5. ASSUME NEW y \in S PROVE y <= x
  <2>1. n - x <= n - y
    BY <1>1, <1>3, <1>4
  <2> QED
    BY <1>1, <2>1
<1> QED
  BY <1>1, <1>5 DEF Max

LEMMA LastOfRows ==
    ASSUME NEW rows \in SUBSET Row
    PROVE  /\ MaxEpochOf(rows) \in 0..MaxStored
           /\ \A row \in rows : row[2] \in 1..MaxStored /\ row[2] <= MaxEpochOf(rows)
           /\ rows # {} => \E row \in rows : row[2] = MaxEpochOf(rows)
           /\ MaxEpochOf(rows) \in EpochsOf(rows) \cup {0}
<1>1. MaxStored \in Nat
  BY ValidatorsCacheAssumption
<1>2. \A row \in rows : row[2] \in 1..MaxStored /\ row[2] \in EpochsOf(rows)
  BY DEF Row, EpochsOf
<1>3. EpochsOf(rows) \cup {0} \in SUBSET (0..MaxStored)
  BY <1>1, <1>2 DEF EpochsOf
<1>4. /\ MaxEpochOf(rows) \in EpochsOf(rows) \cup {0}
      /\ \A e \in EpochsOf(rows) \cup {0} : e <= MaxEpochOf(rows)
  BY <1>1, <1>3, MaxOfBounded DEF MaxEpochOf
<1>5. rows # {} => \E row \in rows : row[2] = MaxEpochOf(rows)
  <2> SUFFICES ASSUME rows # {}
               PROVE  \E row \in rows : row[2] = MaxEpochOf(rows)
    OBVIOUS
  <2>1. PICK row \in rows : TRUE
    OBVIOUS
  <2>2. row[2] > 0 /\ row[2] <= MaxEpochOf(rows) /\ row[2] \in Nat
    BY <1>1, <1>2, <1>4
  <2>3. MaxEpochOf(rows) # 0
    BY <2>2
  <2>4. MaxEpochOf(rows) \in EpochsOf(rows)
    BY <1>4, <2>3
  <2> QED
    BY <2>4 DEF EpochsOf
<1> QED
  BY <1>2, <1>3, <1>4, <1>5

(* More rows, a later last epoch; by one row, at most its epoch.           *)
LEMMA LastOfMoreRows ==
    ASSUME NEW rows \in SUBSET Row, NEW row \in Row
    PROVE  /\ MaxEpochOf(rows) <= MaxEpochOf(rows \cup {row})
           /\ row[2] <= MaxEpochOf(rows \cup {row})
           /\ MaxEpochOf(rows \cup {row}) \in {MaxEpochOf(rows), row[2]}
<1> DEFINE more == rows \cup {row}
<1>1. more \in SUBSET Row /\ MaxStored \in Nat
  BY ValidatorsCacheAssumption
<1>2. /\ MaxEpochOf(more) \in 0..MaxStored /\ MaxEpochOf(rows) \in 0..MaxStored
      /\ \A r \in more : r[2] \in 1..MaxStored /\ r[2] <= MaxEpochOf(more)
      /\ \A r \in rows : r[2] <= MaxEpochOf(rows)
      /\ MaxEpochOf(more) \in EpochsOf(more) \cup {0}
      /\ MaxEpochOf(rows) \in EpochsOf(rows) \cup {0}
  BY <1>1, LastOfRows
<1>3. MaxEpochOf(rows) <= MaxEpochOf(more)
  BY <1>1, <1>2 DEF EpochsOf
<1>4. row[2] <= MaxEpochOf(more) /\ row[2] \in Nat
  BY <1>1, <1>2
<1>5. MaxEpochOf(more) = row[2] \/ MaxEpochOf(more) \in EpochsOf(rows) \cup {0}
  BY <1>2 DEF EpochsOf
<1>6. MaxEpochOf(more) \in EpochsOf(rows) \cup {0} => MaxEpochOf(more) <= MaxEpochOf(rows)
  BY <1>1, <1>2 DEF EpochsOf
<1>7. MaxEpochOf(more) \in Nat /\ MaxEpochOf(rows) \in Nat
  BY <1>1, <1>2
<1> HIDE DEF more
<1>8. MaxEpochOf(more) \in {MaxEpochOf(rows), row[2]}
  BY <1>3, <1>5, <1>6, <1>7
<1> QED
  BY <1>3, <1>4, <1>8 DEF more

-----------------------------------------------------------------------------
(* The tables, the load and the cache: the inductive invariant             *)

CacheTypes ==
    /\ validators \subseteq Row
    /\ cluster_info \in 0..MaxStored /\ storing \in 1..MaxStored
    /\ load \in Load
    /\ validators_cache \in Records /\ validators_cache.rows \subseteq validators

(* The tables follow each other, and neither skips an epoch.               *)
TablesInStep ==
    /\ validators # {}
    /\ \A row \in validators : row[2] <= storing
    /\ storing <= MaxEpochOf(validators) + 1
    /\ cluster_info \in 1..storing + 1

(* The last epoch that was looked up first is that of the rows, or the     *)
(* one before.                                                             *)
Recent(records) ==
    records.rows # {} =>
        MaxEpochOf(records.rows) \in {records.last_epoch, records.last_epoch + 1}

(* Of what is cached, nothing gets lost but the rows of early epochs.      *)
CoversCached(rows) ==
    /\ rows # {}
    /\ MaxEpochOf(validators_cache.rows) <= MaxEpochOf(rows)
    /\ \A row \in validators_cache.rows :
           row[2] > MaxEpochOf(rows) - (DisplayEpochs - 2) => row \in rows

(* The load keeps up with the tables, and is over when the cache is        *)
(* written.                                                                *)
LoadInStep ==
    /\ load.records.rows \subseteq validators
    /\ load.step = "records" =>
           /\ load.records.last_epoch <= MaxEpochOf(validators)
           /\ storing <= load.records.last_epoch + 1
    /\ load.step = "incidents" => Recent(load.records) /\ CoversCached(load.records.rows)
    /\ warm.step = "write" => load.step = "incidents"

CacheInv ==
    /\ CacheTypes
    /\ TablesInStep
    /\ LoadInStep
    /\ Recent(validators_cache)

-----------------------------------------------------------------------------
LEMMA StartOfLoadTyped ==
    /\ StartOfLoad \in Load /\ StartOfLoad.step = "last_epoch"
    /\ StartOfLoad.records = NoRecords
    /\ NoRecords \in Records /\ NoRecords.rows = {} /\ NoRecords.last_epoch = 0
BY ValidatorsCacheAssumption DEF StartOfLoad, Load, NoRecords, Records

LEMMA NothingCovered ==
    ASSUME NEW rows \in SUBSET Row, rows = {}
    PROVE  MaxEpochOf(rows) = 0
BY LastOfRows DEF EpochsOf

LEMMA InitCacheInv == CacheInit => CacheInv
<1> SUFFICES ASSUME CacheInit
             PROVE  CacheInv
  OBVIOUS
<1> USE ValidatorsCacheAssumption
<1>1. /\ validators = {row \in Row : row[2] <= StoredBefore /\ row[1] \in Voting[row[2]]}
      /\ cluster_info = StoredBefore /\ storing = StoredBefore
      /\ load = StartOfLoad /\ validators_cache = NoRecords /\ warm = Start
  BY DEF CacheInit, Init
<1>2. PICK v \in Validators : v \in Voting[StoredBefore]
  OBVIOUS
<1>3. <<v, StoredBefore>> \in validators
  BY <1>1, <1>2 DEF Row
<1>4. /\ validators \in SUBSET Row /\ MaxStored \in Nat /\ StoredBefore \in 1..MaxStored
      /\ \A row \in validators : row[2] <= StoredBefore
  BY <1>1
<1>5. MaxEpochOf(validators) \in Nat /\ StoredBefore <= MaxEpochOf(validators)
  BY <1>3, <1>4, LastOfRows
<1>6. CacheTypes
  BY <1>1, <1>4, StartOfLoadTyped DEF CacheTypes
<1>7. TablesInStep
  BY <1>1, <1>3, <1>4, <1>5 DEF TablesInStep
<1>8. warm.step # "write" /\ load.step = "last_epoch" /\ load.records.rows = {}
  BY <1>1, StartTyped, StartOfLoadTyped
<1>9. LoadInStep
  BY <1>8 DEF LoadInStep
<1>10. Recent(validators_cache)
  BY <1>1, StartOfLoadTyped DEF Recent
<1> QED
  BY <1>6, <1>7, <1>9, <1>10 DEF CacheInv

LEMMA NextSnapshotCacheInv == ASSUME CacheInv, NextSnapshot PROVE CacheInv'
<1>1. /\ storing < MaxStored /\ storing = MaxEpochOf(validators)
      /\ load.step = "records" => storing <= load.records.last_epoch
      /\ storing' = storing + 1
      /\ UNCHANGED <<warm, validators, cluster_info, load, validators_cache>>
  BY DEF NextSnapshot, bigqueryVars
<1>2. /\ storing \in Nat /\ MaxStored \in Nat /\ storing' \in 1..MaxStored
      /\ \A row \in validators : row[2] \in Nat
      /\ load.records.last_epoch \in Nat /\ cluster_info \in Nat
  BY <1>1, ValidatorsCacheAssumption, LastOfRows DEF CacheInv, CacheTypes, Load, Records
<1>3. CacheTypes'
  BY <1>1, <1>2 DEF CacheInv, CacheTypes
<1>4. TablesInStep'
  BY <1>1, <1>2 DEF CacheInv, TablesInStep
<1>5. LoadInStep'
  BY <1>1, <1>2 DEF CacheInv, LoadInStep, CoversCached
<1> QED
  BY <1>1, <1>3, <1>4, <1>5 DEF CacheInv

LEMMA StoreValidatorCacheInv ==
    ASSUME CacheInv, NEW v \in Validators, StoreValidator(v)
    PROVE  CacheInv'
<1> USE ValidatorsCacheAssumption
<1> DEFINE row == <<v, storing>>
<1>1. /\ validators' = validators \cup {row}
      /\ UNCHANGED <<warm, storing, cluster_info, load, validators_cache>>
  BY DEF StoreValidator, bigqueryVars
<1>2. /\ validators \in SUBSET Row /\ row \in Row /\ row[2] = storing
      /\ storing \in Nat /\ validators' \in SUBSET Row
  BY <1>1 DEF CacheInv, CacheTypes, Row
<1> HIDE DEF row
<1>3. /\ MaxEpochOf(validators) <= MaxEpochOf(validators')
      /\ MaxEpochOf(validators) \in Nat /\ MaxEpochOf(validators') \in Nat
  BY <1>1, <1>2, LastOfMoreRows, LastOfRows
<1>4. CacheTypes'
  BY <1>1, <1>2 DEF CacheInv, CacheTypes
<1>5. TablesInStep'
  BY <1>1, <1>2, <1>3 DEF CacheInv, TablesInStep
<1>6. load.records.last_epoch \in Nat
  BY DEF CacheInv, CacheTypes, Load, Records
<1>7. LoadInStep'
  BY <1>1, <1>3, <1>6 DEF CacheInv, LoadInStep, CoversCached
<1> QED
  BY <1>1, <1>4, <1>5, <1>7 DEF CacheInv

LEMMA StoreClusterInfoCacheInv == ASSUME CacheInv, StoreClusterInfo PROVE CacheInv'
<1>1. /\ cluster_info < MaxStored /\ cluster_info <= storing
      /\ cluster_info' = cluster_info + 1
      /\ UNCHANGED <<warm, validators, storing, load, validators_cache>>
  BY DEF StoreClusterInfo, bigqueryVars
<1>2. MaxStored \in Nat /\ storing \in Nat /\ cluster_info \in Nat
  BY ValidatorsCacheAssumption DEF CacheInv, CacheTypes
<1>3. CacheTypes'
  BY <1>1, <1>2 DEF CacheInv, CacheTypes
<1>4. TablesInStep'
  BY <1>1, <1>2 DEF CacheInv, TablesInStep
<1>5. LoadInStep'
  BY <1>1 DEF CacheInv, LoadInStep, CoversCached
<1> QED
  BY <1>1, <1>3, <1>4, <1>5 DEF CacheInv

LEMMA GetLastEpochCacheInv == ASSUME CacheInv, GetLastEpoch PROVE CacheInv'
<1>1. /\ warm.step = "validators"
      /\ load' = [step |-> "records",
                  records |-> [NoRecords EXCEPT !.last_epoch = MaxEpochOf(validators)]]
      /\ UNCHANGED <<warm, validators, storing, cluster_info, validators_cache>>
  BY DEF GetLastEpoch, AtStep, LoadStep, get_last_epoch, bigqueryVars, tables
<1>2. MaxEpochOf(validators) \in 0..MaxStored /\ MaxStored \in Nat
  BY ValidatorsCacheAssumption, LastOfRows DEF CacheInv, CacheTypes
<1>3. /\ load'.step = "records" /\ load'.records.rows = {}
      /\ load'.records.last_epoch = MaxEpochOf(validators)
      /\ load' \in Load
  BY <1>1, <1>2 DEF NoRecords, Load, Records
<1>4. CacheTypes' /\ TablesInStep'
  BY <1>1, <1>3 DEF CacheInv, CacheTypes, TablesInStep
<1>5. LoadInStep'
  BY <1>1, <1>2, <1>3 DEF CacheInv, TablesInStep, LoadInStep
<1> QED
  BY <1>1, <1>4, <1>5 DEF CacheInv

(* The window of the main query reaches back at least to what a page shows *)
(* of the cache, and ends with the last epoch in the table.                *)
LEMMA WindowCovers ==
    ASSUME CacheInv
    PROVE  /\ MaxEpochOf(Window) = MaxEpochOf(validators)
           /\ Window \subseteq validators
           /\ CoversCached(Window)
<1> USE ValidatorsCacheAssumption
<1>1. /\ validators \in SUBSET Row /\ Window \in SUBSET Row /\ Window \subseteq validators
      /\ validators_cache.rows \in SUBSET Row /\ validators_cache.rows \subseteq validators
      /\ cluster_info \in Nat /\ storing \in Nat /\ cluster_info > 0 /\ storing > 0
      /\ storing <= MaxEpochOf(validators) + 1 /\ cluster_info <= storing + 1
  BY DEF CacheInv, CacheTypes, TablesInStep, Window
<1> DEFINE last == MaxEpochOf(validators)
<1>2. /\ last \in Nat /\ MaxEpochOf(Window) \in Nat
      /\ MaxEpochOf(validators_cache.rows) \in Nat
      /\ \A row \in validators : row[2] \in Nat /\ row[2] <= last
      /\ \A row \in Window : row[2] <= MaxEpochOf(Window)
      /\ validators # {} => \E row \in validators : row[2] = last
      /\ Window # {} => \E row \in Window : row[2] = MaxEpochOf(Window)
      /\ validators_cache.rows # {} =>
             \E row \in validators_cache.rows : row[2] = MaxEpochOf(validators_cache.rows)
  BY <1>1, LastOfRows
<1>3. validators # {}
  BY DEF CacheInv, TablesInStep
<1> HIDE DEF last
<1>4. PICK newest \in validators : newest[2] = last
  BY <1>2, <1>3
<1>5. newest \in Window
  BY <1>1, <1>2, <1>4 DEF Window, last
<1>6. MaxEpochOf(Window) = last
  BY <1>1, <1>2, <1>4, <1>5
<1>7. MaxEpochOf(validators_cache.rows) <= last
  BY <1>1, <1>2, NothingCovered
<1>8. ASSUME NEW row \in validators_cache.rows, row[2] > last - (DisplayEpochs - 2)
      PROVE  row \in Window
  BY <1>1, <1>2, <1>8 DEF Window, last
<1> QED
  BY <1>1, <1>5, <1>6, <1>7, <1>8 DEF last, CoversCached

LEMMA QueryValidatorsCacheInv == ASSUME CacheInv, QueryValidators PROVE CacheInv'
<1>1. /\ warm.step = "validators" /\ load.step = "records"
      /\ load' = [step |-> "incidents", records |-> [load.records EXCEPT !.rows = Window]]
      /\ UNCHANGED <<warm, validators, storing, cluster_info, validators_cache>>
  BY DEF QueryValidators, AtStep, LoadStep, bigqueryVars, tables
<1>2. /\ MaxEpochOf(Window) = MaxEpochOf(validators)
      /\ Window \subseteq validators /\ CoversCached(Window)
  BY WindowCovers
<1>3. /\ load'.step = "incidents" /\ load'.records.rows = Window
      /\ load'.records.last_epoch = load.records.last_epoch
      /\ load' \in Load /\ load.records.last_epoch \in Nat
  BY <1>1, <1>2 DEF CacheInv, CacheTypes, Load, Records
<1>4. CacheTypes' /\ TablesInStep'
  BY <1>1, <1>3 DEF CacheInv, CacheTypes, TablesInStep
<1>5. MaxEpochOf(validators) \in {load.records.last_epoch, load.records.last_epoch + 1}
  <2>1. /\ load.records.last_epoch <= MaxEpochOf(validators)
        /\ storing <= load.records.last_epoch + 1 /\ storing \in Nat
        /\ validators \in SUBSET Row
    BY <1>1 DEF CacheInv, CacheTypes, LoadInStep
  <2>2. MaxEpochOf(validators) \in Nat /\ MaxEpochOf(validators) <= storing
    BY <2>1, LastOfRows, ValidatorsCacheAssumption DEF CacheInv, TablesInStep, EpochsOf
  <2> QED
    BY <1>3, <2>1, <2>2
<1>6. Recent(load.records)'
  BY <1>2, <1>3, <1>5 DEF Recent
<1>7. CoversCached(load.records.rows)'
  BY <1>1, <1>2, <1>3 DEF CoversCached
<1>8. LoadInStep'
  BY <1>1, <1>2, <1>3, <1>6, <1>7 DEF LoadInStep
<1> QED
  BY <1>1, <1>4, <1>8 DEF CacheInv

(* The steps of PerEpochCache that neither read nor write the records      *)
LEMMA OtherStepsCacheInv ==
    ASSUME CacheInv, IInv, LandInBigQuery \/ WarmPerEpoch \/ LoadIncidents
    PROVE  CacheInv'
<1>1. UNCHANGED <<validators, storing, cluster_info, load, validators_cache>>
  BY DEF LandInBigQuery, WarmPerEpoch, LoadIncidents, tables
<1>2. warm'.step = "write" => load.step = "incidents"
  <2>1. warm \in Warm
    BY DEF IInv, TypeOK
  <2>2. CASE LandInBigQuery
    BY <2>2 DEF LandInBigQuery, Land, CacheInv, LoadInStep
  <2>3. CASE LoadIncidents
    BY <2>3 DEF LoadIncidents, AtStep
  <2>4. CASE WarmPerEpoch
    <3>1. warm'.step # "write"
      BY <2>1, <2>4 DEF WarmPerEpoch, CloneCached, LoadLastEpoch, LoadDelegators,
         LoadTakeRates, RequestFails, Start, Warm
    <3> QED
      BY <3>1
  <2> QED
    BY <2>2, <2>3, <2>4
<1>3. CacheTypes' /\ TablesInStep'
  BY <1>1 DEF CacheInv, CacheTypes, TablesInStep
<1>4. LoadInStep'
  BY <1>1, <1>2 DEF CacheInv, LoadInStep, CoversCached
<1> QED
  BY <1>1, <1>3, <1>4 DEF CacheInv

(* The rest starts the load anew, with the records or nothing in the cache *)
LEMMA LoadStartsAnew ==
    ASSUME CacheInv, UNCHANGED <<validators, storing, cluster_info>>,
           load' = StartOfLoad, warm' = Start,
           validators_cache' \in {validators_cache, load.records, NoRecords},
           validators_cache' = load.records => Recent(load.records)
    PROVE  CacheInv'
<1>1. /\ load'.step = "last_epoch" /\ load'.records.rows = {} /\ load' \in Load
      /\ warm'.step = "start"
      /\ NoRecords \in Records /\ NoRecords.rows = {}
  BY StartOfLoadTyped, StartTyped
<1>2. load.records \in Records /\ load.records.rows \subseteq validators
  BY DEF CacheInv, CacheTypes, LoadInStep, Load
<1>3. CacheTypes' /\ TablesInStep'
  BY <1>1, <1>2 DEF CacheInv, CacheTypes, TablesInStep
<1>4. LoadInStep'
  BY <1>1 DEF LoadInStep
<1>5. Recent(validators_cache)'
  BY <1>1 DEF CacheInv, Recent
<1> QED
  BY <1>3, <1>4, <1>5 DEF CacheInv

LEMMA WriteValidatorsCacheInv == ASSUME CacheInv, WriteValidators PROVE CacheInv'
<1>1. /\ warm.step = "write" /\ warm' = Start /\ load' = StartOfLoad
      /\ validators_cache' = load.records
      /\ UNCHANGED <<validators, storing, cluster_info>>
  BY DEF WriteValidators, WriteCache, tables
<1>2. Recent(load.records)
  BY <1>1 DEF CacheInv, LoadInStep
<1> QED
  BY <1>1, <1>2, LoadStartsAnew

LEMMA CacheInvStep == IInv /\ CacheInv /\ [CacheNext]_allVars => CacheInv'
<1> SUFFICES ASSUME IInv, CacheInv, [CacheNext]_allVars
             PROVE  CacheInv'
  OBVIOUS
<1>1. ASSUME NEW v \in Validators, StoreValidator(v) PROVE CacheInv'
  BY <1>1, StoreValidatorCacheInv
<1>2. CASE NextSnapshot \/ StoreClusterInfo
  BY <1>2, NextSnapshotCacheInv, StoreClusterInfoCacheInv
<1>3. CASE GetLastEpoch \/ QueryValidators
  BY <1>3, GetLastEpochCacheInv, QueryValidatorsCacheInv
<1>4. CASE LandInBigQuery \/ WarmPerEpoch \/ LoadIncidents
  BY <1>4, OtherStepsCacheInv
<1>5. CASE WriteValidators
  BY <1>5, WriteValidatorsCacheInv
<1>6. CASE LoadQueryFails \/ RestartApi
  <2>1. /\ warm' = Start /\ load' = StartOfLoad
        /\ UNCHANGED <<validators, storing, cluster_info>>
        /\ validators_cache' \in {validators_cache, NoRecords}
    BY <1>6 DEF LoadQueryFails, RestartApi, LoadValidatorsFails, Restart, tables
  <2>2. validators_cache' = load.records => Recent(load.records)
    BY <2>1, StartOfLoadTyped DEF CacheInv, Recent
  <2> QED
    BY <2>1, <2>2, LoadStartsAnew
<1>7. CASE UNCHANGED allVars
  BY <1>7 DEF allVars, tables, bigqueryVars, CacheInv, CacheTypes, TablesInStep, LoadInStep,
     CoversCached
<1> QED
  BY <1>1, <1>2, <1>3, <1>4, <1>5, <1>6, <1>7 DEF CacheNext, LoadValidatorsStep

LEMMA CacheInvariance == CacheSpec => []CacheInv
BY InitCacheInv, CacheInvStep, CacheKeepsPerEpoch, PTL DEF CacheSpec

-----------------------------------------------------------------------------
(* The theorems of PerEpochCache hold for ValidatorsCache                  *)

(* The cached validators are built from the cached BigQuery data, also     *)
(* while the tables of the database fill.                                  *)
THEOREM CacheMatches == CacheSpec => []ValidatorsMatchCached
<1>1. IInv => ValidatorsMatchCached
  BY DEF IInv
<1> QED
  BY CacheKeepsPerEpoch, <1>1, PTL

(* If the ETL adds epochs last, data cached for an epoch is as new as it.  *)
THEOREM CacheOfItsEpoch == ASSUME EpochsLast PROVE CacheSpec => []CachedAsOfItsEpoch
<1>1. IInv => CachedAsOfItsEpoch
  BY DEF IInv, CacheIsNew, AsOfItsEpoch, CachedAsOfItsEpoch
<1> QED
  BY CacheKeepsPerEpoch, <1>1, PTL

-----------------------------------------------------------------------------
(* The tables, the load and the cache are of the kinds that CacheTypeOK    *)
(* says, and what is cached is not ahead of what it was loaded from.       *)
THEOREM CacheTypeCorrect == CacheSpec => []CacheTypeOK
<1>1. IInv /\ CacheInv => CacheTypeOK
  BY DEF IInv, CacheInv, CacheTypes, CacheTypeOK
<1> QED
  BY CacheKeepsPerEpoch, CacheInvariance, <1>1, PTL

(* A listed validator has a row in the epoch that the flag was set by,     *)
(* although that was looked up before the rows.                            *)
THEOREM ListedAreReported == CacheSpec => []ListedHaveLastStats
<1>1. CacheInv => ListedHaveLastStats
  <2> SUFFICES ASSUME CacheInv, NEW v \in Listed(validators_cache.rows)
               PROVE  <<v, validators_cache.last_epoch>> \in validators_cache.rows
    BY DEF ListedHaveLastStats
  <2> DEFINE last == MaxEpochOf(validators_cache.rows)
  <2>1. validators_cache.rows \in SUBSET Row /\ validators_cache.last_epoch \in Nat
    BY DEF CacheInv, CacheTypes, Records
  <2>2. last \in Nat
    BY <2>1, LastOfRows, ValidatorsCacheAssumption
  <2>3. \A e \in SaturatingSub(last, 1)..last : <<v, e>> \in validators_cache.rows
    BY DEF Listed, MIN_REQUIRED_EPOCHS_IN_THE_PAST
  <2> HIDE DEF last
  <2>4. last \in SaturatingSub(last, 1)..last
    BY <2>2 DEF SaturatingSub
  <2>5. last \in {validators_cache.last_epoch, validators_cache.last_epoch + 1}
    BY <2>3, <2>4 DEF CacheInv, Recent, last
  <2>6. validators_cache.last_epoch \in SaturatingSub(last, 1)..last
    BY <2>1, <2>2, <2>5 DEF SaturatingSub
  <2> QED
    BY <2>3, <2>6
<1> QED
  BY CacheInvariance, <1>1, PTL

-----------------------------------------------------------------------------
(* Pages                                                                   *)

(* Of the last epochs, aggregates are found by counting back.              *)
LEMMA AggregatesOfLast ==
    ASSUME NEW rows \in SUBSET Row, rows # {}, NEW epochs \in Nat, epochs > 0
    PROVE  /\ AggregatedEpochs(rows, epochs) # {}
           /\ Max(AggregatedEpochs(rows, epochs)) = MaxEpochOf(rows)
           /\ \A e \in EpochsOf(rows) :
                  e > MaxEpochOf(rows) - epochs => e \in AggregatedEpochs(rows, epochs)
<1> DEFINE last == MaxEpochOf(rows)
           later(e) == {f \in EpochsOf(rows) : f > e}
<1>1. /\ last \in Nat /\ last \in EpochsOf(rows)
      /\ \A e \in EpochsOf(rows) : e \in Nat /\ e <= last
  <2>1. /\ MaxStored \in Nat
        /\ last \in 0..MaxStored
        /\ \A row \in rows : row[2] \in 1..MaxStored /\ row[2] <= last
        /\ \E row \in rows : row[2] = last
    BY LastOfRows, ValidatorsCacheAssumption
  <2> HIDE DEF last
  <2>2. last \in EpochsOf(rows)
    BY <2>1 DEF EpochsOf
  <2>3. ASSUME NEW e \in EpochsOf(rows)
        PROVE  e \in Nat /\ e <= last
    <3>1. PICK row \in rows : row[2] = e
      BY DEF EpochsOf
    <3> QED
      BY <2>1, <3>1
  <2> QED
    BY <2>1, <2>2, <2>3
<1> HIDE DEF last
<1>2. ASSUME NEW e \in EpochsOf(rows), e > last - epochs
      PROVE  Cardinality(later(e)) < epochs
  <2>1. e \in Nat /\ e <= last /\ e + 1 \in Int /\ last \in Int
    BY <1>1, <1>2
  <2>2. /\ IsFiniteSet((e + 1)..last)
        /\ Cardinality((e + 1)..last) = IF e + 1 > last THEN 0 ELSE last - (e + 1) + 1
    BY <2>1, FS_Interval
  <2>3. later(e) \subseteq (e + 1)..last
    <3> SUFFICES ASSUME NEW f \in later(e)
                 PROVE  f \in (e + 1)..last
      OBVIOUS
    <3>1. f \in EpochsOf(rows) /\ f > e
      OBVIOUS
    <3>2. f \in Nat /\ f <= last
      BY <1>1, <3>1
    <3> HIDE DEF later
    <3> QED
      BY <2>1, <3>1, <3>2
  <2>4. Cardinality(later(e)) \in Nat /\ Cardinality(later(e)) <= Cardinality((e + 1)..last)
    <3> HIDE DEF later
    <3>1. IsFiniteSet(later(e)) /\ Cardinality(later(e)) <= Cardinality((e + 1)..last)
      BY <2>2, <2>3, FS_Subset
    <3> QED
      BY <3>1, FS_CardinalityType
  <2> HIDE DEF later
  <2> QED
    BY <1>1, <1>2, <2>1, <2>2, <2>4
<1>3. \A e \in EpochsOf(rows) : e > last - epochs => e \in AggregatedEpochs(rows, epochs)
  BY <1>2 DEF AggregatedEpochs
<1>4. last \in AggregatedEpochs(rows, epochs)
  BY <1>1, <1>3
<1>5. AggregatedEpochs(rows, epochs) \subseteq EpochsOf(rows)
  BY DEF AggregatedEpochs
<1>6. Max(AggregatedEpochs(rows, epochs)) = last
  <2>1. \A e \in AggregatedEpochs(rows, epochs) : e \in Nat /\ e <= last
    BY <1>1, <1>5
  <2>2. AggregatedEpochs(rows, epochs) \in SUBSET (0..last)
    BY <1>1, <2>1
  <2>3. /\ Max(AggregatedEpochs(rows, epochs)) \in AggregatedEpochs(rows, epochs)
        /\ \A e \in AggregatedEpochs(rows, epochs) :
               e <= Max(AggregatedEpochs(rows, epochs))
    BY <1>1, <1>4, <2>2, MaxOfBounded
  <2> DEFINE most == Max(AggregatedEpochs(rows, epochs))
  <2>4. most \in Nat /\ most <= last /\ last <= most
    BY <1>4, <2>1, <2>3
  <2> HIDE DEF most
  <2>5. most = last
    BY <1>1, <2>4
  <2> QED
    BY <2>5 DEF most
<1> QED
  BY <1>3, <1>4, <1>6 DEF last

(* The cache is written with records that cover it, or emptied.            *)
LEMMA CacheIsRenewed ==
    ASSUME CacheInv, [CacheNext]_allVars, validators_cache' \notin {validators_cache, NoRecords}
    PROVE  /\ CoversCached(validators_cache'.rows)
           /\ validators_cache.rows \in SUBSET Row /\ validators_cache'.rows \in SUBSET Row
<1>1. WriteValidators
  BY DEF CacheNext, NextSnapshot, StoreValidator, StoreClusterInfo, LandInBigQuery,
     WarmPerEpoch, LoadValidatorsStep, GetLastEpoch, QueryValidators, LoadStep, LoadIncidents,
     LoadQueryFails, RestartApi, allVars
<1>2. validators_cache' = load.records /\ warm.step = "write"
  BY <1>1 DEF WriteValidators, WriteCache
<1>3. CoversCached(load.records.rows)
  BY <1>2 DEF CacheInv, LoadInStep
<1> QED
  BY <1>2, <1>3 DEF CacheInv, CacheTypes, Load, Records

(* A page whose validators were read before a refresh, and its aggregates  *)
(* after it, has the aggregates of all epochs it shows.                    *)
LEMMA PageCovered ==
    ASSUME NEW first \in SUBSET Row, NEW rows \in SUBSET Row, rows # {},
           NEW epochs \in PageEpochs,
           MaxEpochOf(first) <= MaxEpochOf(rows),
           \A row \in first :
               row[2] > MaxEpochOf(rows) - (DisplayEpochs - 2) => row \in rows,
           ShownEpochs(first, epochs) # {}
    PROVE  LET shown == ShownEpochs(first, epochs)
               aggregated == AggregatedEpochs(rows, epochs)
           IN  /\ aggregated # {}
               /\ Max(aggregated) >= Max(shown)
               /\ \A e \in shown : e > Max(aggregated) - epochs => e \in aggregated
<1> DEFINE shown == ShownEpochs(first, epochs)
<1>1. /\ epochs \in Nat /\ epochs > 0 /\ epochs <= DisplayEpochs - 2
      /\ DisplayEpochs \in Nat /\ MaxStored \in Nat
  BY ValidatorsCacheAssumption
<1>2. /\ AggregatedEpochs(rows, epochs) # {}
      /\ Max(AggregatedEpochs(rows, epochs)) = MaxEpochOf(rows)
      /\ \A e \in EpochsOf(rows) :
             e > MaxEpochOf(rows) - epochs => e \in AggregatedEpochs(rows, epochs)
  BY <1>1, AggregatesOfLast
<1>3. ASSUME NEW e \in shown
      PROVE  \E row \in first : row[2] = e
  BY <1>3 DEF ShownEpochs, EpochsOf
<1>4. /\ MaxEpochOf(rows) \in Nat /\ MaxEpochOf(first) \in Nat
      /\ \A row \in first : /\ row[2] \in 0..MaxStored /\ row[2] \in Nat
                            /\ row[2] <= MaxEpochOf(first)
  BY <1>1, LastOfRows
<1> HIDE DEF shown
<1>5. Max(shown) \in shown
  <2>1. shown \in SUBSET (0..MaxStored) /\ shown # {}
    BY <1>3, <1>4 DEF shown
  <2> QED
    BY <1>1, <2>1, MaxOfBounded
<1>6. MaxEpochOf(rows) >= Max(shown)
  BY <1>3, <1>4, <1>5
<1>7. ASSUME NEW e \in shown, e > MaxEpochOf(rows) - epochs
      PROVE  e \in EpochsOf(rows)
  <2>1. PICK row \in first : row[2] = e
    BY <1>3
  <2>2. row[2] > MaxEpochOf(rows) - (DisplayEpochs - 2)
    BY <1>1, <1>4, <1>7, <2>1
  <2>3. row \in rows
    BY <2>2
  <2> QED
    BY <2>1, <2>3 DEF EpochsOf
<1> QED
  BY <1>2, <1>6, <1>7 DEF shown

(* No page lacks the aggregates of an epoch it shows, whether it read the  *)
(* validators before or after the cache was refreshed.                     *)
THEOREM PagesHaveAggregates == CacheSpec => PageEpochsAggregated
<1> DEFINE Renewal ==
      validators_cache' \notin {validators_cache, NoRecords} =>
          \A first \in {validators_cache.rows, validators_cache'.rows}, epochs \in PageEpochs :
              LET shown == ShownEpochs(first, epochs)
                  aggregated == AggregatedEpochs(validators_cache'.rows, epochs)
              IN shown # {} =>
                    /\ aggregated # {}
                    /\ Max(aggregated) >= Max(shown)
                    /\ \A e \in shown : e > Max(aggregated) - epochs => e \in aggregated
<1>1. CacheInv /\ [CacheNext]_allVars => Renewal
  <2> SUFFICES ASSUME CacheInv, [CacheNext]_allVars,
                      validators_cache' \notin {validators_cache, NoRecords},
                      NEW first \in {validators_cache.rows, validators_cache'.rows},
                      NEW epochs \in PageEpochs,
                      ShownEpochs(first, epochs) # {}
               PROVE  LET shown == ShownEpochs(first, epochs)
                          aggregated == AggregatedEpochs(validators_cache'.rows, epochs)
                      IN  /\ aggregated # {}
                          /\ Max(aggregated) >= Max(shown)
                          /\ \A e \in shown : e > Max(aggregated) - epochs => e \in aggregated
    BY DEF Renewal
  <2>1. PICK rows : rows = validators_cache'.rows
    OBVIOUS
  <2>2. /\ CoversCached(rows) /\ rows \in SUBSET Row /\ first \in SUBSET Row
    BY <2>1, CacheIsRenewed
  <2>3. /\ rows # {} /\ MaxEpochOf(first) <= MaxEpochOf(rows)
        /\ \A row \in first :
               row[2] > MaxEpochOf(rows) - (DisplayEpochs - 2) => row \in rows
    BY <2>1, <2>2, LastOfRows, ValidatorsCacheAssumption DEF CoversCached
  <2> QED
    BY <2>1, <2>2, <2>3, PageCovered
<1>2. CacheInv /\ [CacheNext]_allVars => [Renewal]_validators_cache
  BY <1>1
<1> HIDE DEF Renewal
<1>3. CacheSpec => [][Renewal]_validators_cache
  BY CacheInvariance, <1>2, PTL DEF CacheSpec
<1> QED
  BY <1>3 DEF Renewal, PageEpochsAggregated

-----------------------------------------------------------------------------
(* Ranks *)

(* The validators of V in the order of their values, from the least.       *)
Sorted(order, V, values, n) ==
    /\ order \in Bijection(1..n, V)
    /\ values \in [V -> Int]
    /\ \A i, j \in 1..n : i <= j => values[order[i]] <= values[order[j]]

(* The first index at which there is the same value as at `index`.         *)
EqualTo(order, values, index) ==
    {i \in 0..index : values[order[i + 1]] = values[order[index + 1]]}

FirstEqual(order, values, index) == Min(EqualTo(order, values, index))

LEMMA FirstIsLeast ==
    ASSUME NEW order, NEW values, NEW index \in Nat
    PROVE  /\ FirstEqual(order, values, index) \in 0..index
           /\ values[order[FirstEqual(order, values, index) + 1]] = values[order[index + 1]]
           /\ \A i \in 0..index : values[order[i + 1]] = values[order[index + 1]]
                  => FirstEqual(order, values, index) <= i
<1> DEFINE E == EqualTo(order, values, index)
<1>1. E \in SUBSET Nat /\ index \in E
  BY DEF EqualTo
<1> HIDE DEF E
<1>2. \E i \in E : \A j \in E : i <= j
  BY <1>1, LeastOfNaturals
<1>3. Min(E) \in E /\ \A i \in E : Min(E) <= i
  BY <1>2 DEF Min
<1> QED
  BY <1>3 DEF E, EqualTo, FirstEqual

(* The counter of the loop tells how far back that is.                     *)
LEMMA SameRanksCount ==
    ASSUME NEW n \in Nat, NEW V, NEW order, NEW values, Sorted(order, V, values, n),
           Len(order) = n
    PROVE  \A index \in 0..n - 1 :
               SameRanks(order, values)[index] = index - FirstEqual(order, values, index)
<1> DEFINE val(i) == values[order[i + 1]]
           first(i) == FirstEqual(order, values, i)
           F(it) == [index \in 0..n - 1 |->
                        IF index > 0 /\ values[order[index + 1]] = values[order[index]]
                        THEN it[index - 1] + 1 ELSE 0]
           back == [index \in 0..n - 1 |-> index - first(index)]
           same == SameRanks(order, values)
<1>1. same = CHOOSE it : it = F(it)
  BY DEF SameRanks
<1>2. \A i \in 0..n - 1 :
         /\ i + 1 \in 1..n /\ val(i) \in Int
         /\ i > 0 => i \in 1..n /\ i - 1 \in 0..n - 1
         /\ \A j \in 0..n - 1 : i <= j => val(i) <= val(j)
  <2>1. \A i \in 1..n : order[i] \in V
    BY DEF Sorted, Bijection, Injection
  <2> QED
    BY <2>1 DEF Sorted
<1>3. \A i \in 0..n - 1 :
         first(i) \in 0..i /\ val(first(i)) = val(i)
         /\ \A j \in 0..i : val(j) = val(i) => first(i) <= j
  <2> TAKE i \in 0..n - 1
  <2>1. i \in Nat
    OBVIOUS
  <2> QED
    BY <2>1, FirstIsLeast
<1> HIDE DEF first, val
<1>4. ASSUME NEW i \in 0..n - 1, i > 0, val(i) = val(i - 1)
      PROVE  first(i) = first(i - 1)
  <2>1. i - 1 \in 0..n - 1 /\ i - 1 \in 0..i
    BY <1>4
  <2>2. first(i) <= i - 1
    BY <1>3, <1>4, <2>1
  <2>3. first(i) \in 0..i - 1 /\ first(i - 1) \in 0..i
    BY <1>3, <1>4, <2>1, <2>2
  <2>4. first(i - 1) <= first(i)
    BY <1>3, <1>4, <2>1, <2>3
  <2>5. first(i) <= first(i - 1)
    BY <1>3, <1>4, <2>1, <2>3
  <2> QED
    BY <2>3, <2>4, <2>5
<1>5. ASSUME NEW i \in 0..n - 1, ~(i > 0 /\ val(i) = val(i - 1))
      PROVE  first(i) = i
  <2>1. CASE i = 0
    BY <1>3, <2>1
  <2>2. CASE i > 0
    <3> SUFFICES ASSUME first(i) # i PROVE FALSE
      OBVIOUS
    <3>1. first(i) \in 0..n - 1 /\ first(i) <= i - 1 /\ i - 1 \in 0..n - 1
      BY <1>3, <2>2
    <3>2. val(first(i)) <= val(i - 1) /\ val(i - 1) <= val(i)
      BY <1>2, <3>1
    <3> QED
      BY <1>2, <1>3, <1>5, <2>2, <3>1, <3>2
  <2> QED
    BY <2>1, <2>2
<1>6. \A i \in 0..n - 1 : i > 0 => val(i - 1) = values[order[i]]
  BY DEF val
<1>7. \A i \in 0..n - 1 : val(i) = values[order[i + 1]]
  BY DEF val
<1>8. \A i \in 0..n - 1 : back[i] = IF i > 0 /\ values[order[i + 1]] = values[order[i]]
                                    THEN back[i - 1] + 1 ELSE 0
  <2> SUFFICES ASSUME NEW i \in 0..n - 1
               PROVE  back[i] = IF i > 0 /\ values[order[i + 1]] = values[order[i]]
                                THEN back[i - 1] + 1 ELSE 0
    OBVIOUS
  <2>1. CASE i > 0 /\ val(i) = val(i - 1)
    <3>1. back[i] = i - first(i) /\ back[i - 1] = i - 1 - first(i - 1)
      BY <2>1
    <3>2. first(i) = first(i - 1) /\ first(i) \in Int
      BY <1>3, <1>4, <2>1
    <3> HIDE DEF back
    <3> QED
      BY <1>6, <1>7, <2>1, <3>1, <3>2
  <2>2. CASE ~(i > 0 /\ val(i) = val(i - 1))
    <3>1. back[i] = 0
      BY <1>5, <2>2
    <3> HIDE DEF back
    <3> QED
      BY <1>6, <1>7, <2>2, <3>1
  <2> QED
    BY <2>1, <2>2
<1>9. back = F(back)
  BY <1>8, Zenon
<1> HIDE DEF F
<1>10. same = F(same)
  BY <1>1, <1>9
<1> HIDE DEF same
<1>11. \A i \in 0..n - 1 : same[i] = IF i > 0 /\ values[order[i + 1]] = values[order[i]]
                                     THEN same[i - 1] + 1 ELSE 0
  BY <1>10 DEF F
<1> HIDE DEF back
<1> DEFINE Bad == {i \in 0..n - 1 : same[i] # back[i]}
<1>12. Bad = {}
  <2> SUFFICES ASSUME Bad # {} PROVE FALSE
    OBVIOUS
  <2>1. /\ Bad \in SUBSET Nat /\ \A i \in Bad : i \in 0..n - 1
        /\ \A i \in 0..n - 1 : i \in Bad <=> same[i] # back[i]
    OBVIOUS
  <2> HIDE DEF Bad
  <2>2. PICK i \in Bad : \A j \in Bad : i <= j
    BY <2>1, LeastOfNaturals
  <2>3. CASE i > 0
    <3>1. i - 1 \in 0..n - 1 /\ i - 1 \notin Bad
      BY <2>1, <2>2, <2>3
    <3> QED
      BY <1>8, <1>11, <2>1, <2>2, <2>3, <3>1
  <2>4. CASE i = 0
    BY <1>8, <1>11, <2>1, <2>2, <2>4
  <2> QED
    BY <2>1, <2>2, <2>3, <2>4
<1> QED
  BY <1>12 DEF back, first, same

(* So a rank tells how many have at least the same value, for any number   *)
(* of validators, any values and any order of those that are equal.        *)
THEOREM RankIsStanding ==
    ASSUME NEW n \in Nat, NEW V, NEW order, NEW values, Sorted(order, V, values, n),
           Len(order) = n, NEW index \in 0..n - 1
    PROVE  Rank(order, values, index) =
               Cardinality({v \in V : values[v] >= values[order[index + 1]]})
<1> DEFINE first == FirstEqual(order, values, index)
           above == {v \in V : values[v] >= values[order[index + 1]]}
           o == [i \in first + 1..n |-> order[i]]
<1>1. /\ first \in 0..index
      /\ values[order[first + 1]] = values[order[index + 1]]
      /\ \A i \in 0..index : values[order[i + 1]] = values[order[index + 1]] => first <= i
  BY FirstIsLeast
<1> HIDE DEF first
<1>2. /\ order \in [1..n -> V]
      /\ \A i, j \in 1..n : order[i] = order[j] => i = j
      /\ \A v \in V : \E i \in 1..n : order[i] = v
      /\ \A i \in 1..n : values[order[i]] \in Int
      /\ \A i, j \in 1..n : i <= j => values[order[i]] <= values[order[j]]
  BY DEF Sorted, Bijection, Injection, Surjection, IsInjective
<1>3. first + 1..n \subseteq 1..n /\ first + 1 \in 1..n /\ index + 1 \in 1..n
  BY <1>1
<1>4. \A i \in first + 1..n : order[i] \in above
  BY <1>1, <1>2, <1>3
<1>5. \A v \in above : \E i \in first + 1..n : order[i] = v
  <2> TAKE v \in above
  <2>1. PICK i \in 1..n : order[i] = v
    BY <1>2
  <2>2. ASSUME i <= first PROVE FALSE
    <3>1. values[order[i]] <= values[order[first + 1]]
      BY <1>1, <1>2, <1>3, <2>2
    <3>2. values[order[i]] >= values[order[index + 1]] /\ values[order[i]] \in Int
          /\ values[order[index + 1]] \in Int
      BY <1>2, <1>3, <2>1
    <3>3. values[order[i - 1 + 1]] = values[order[index + 1]] /\ i - 1 \in 0..index
      BY <1>1, <2>2, <3>1, <3>2
    <3>4. first <= i - 1
      BY <1>1, <3>3
    <3> QED
      BY <1>1, <2>2, <3>4
  <2> QED
    BY <1>1, <2>1, <2>2
<1>6. o \in Bijection(first + 1..n, above)
  <2>1. \A i, j \in first + 1..n : o[i] = o[j] => i = j
    BY <1>2, <1>3
  <2> QED
    BY <1>4, <1>5, <2>1 DEF Bijection, Injection, Surjection, IsInjective
<1>7. IsFiniteSet(first + 1..n) /\ Cardinality(first + 1..n) = n - first
  <2> DEFINE a == first + 1
  <2>1. a \in Int /\ (IF a > n THEN 0 ELSE n - a + 1) = n - first
    BY <1>1
  <2> HIDE DEF a
  <2>2. IsFiniteSet(a..n) /\ Cardinality(a..n) = IF a > n THEN 0 ELSE n - a + 1
    BY <2>1, FS_Interval
  <2> QED
    BY <2>1, <2>2 DEF a
<1> HIDE DEF above, o
<1>8. Cardinality(above) = n - first
  BY <1>6, <1>7, FS_Bijection DEF ExistsBijection
<1>9. SameRanks(order, values)[index] = index - first
  BY SameRanksCount DEF first
<1> QED
  BY <1>1, <1>8, <1>9 DEF Rank, above
(* The ranks of any four values are standings.                             *)
LEMMA FourRanks == RanksOfAnyValues
<1> SUFFICES ASSUME NEW values \in [1..4 -> 0..2], NEW order \in SetToSeqs(1..4),
                    \A i \in 1..3 : values[order[i]] <= values[order[i + 1]],
                    NEW index \in 0..3
             PROVE  Rank(order, values, index)
                        = Cardinality({v \in 1..4 : values[v] >= values[order[index + 1]]})
  BY DEF RanksOfAnyValues
<1>0. PICK n \in Nat : n = 4
  OBVIOUS
<1>1. IsFiniteSet(1..n) /\ Cardinality(1..n) = n
  <2>1. 1 \in Int /\ n \in Int /\ (IF 1 > n THEN 0 ELSE n - 1 + 1) = n
    BY <1>0
  <2>2. IsFiniteSet(1..n) /\ Cardinality(1..n) = IF 1 > n THEN 0 ELSE n - 1 + 1
    BY <2>1, FS_Interval, Zenon
  <2> QED
    BY <2>1, <2>2
<1>2. order \in [1..n -> 1..n] /\ \A i, j \in 1..n : i # j => order[i] # order[j]
  BY <1>0, <1>1 DEF SetToSeqs
<1>3. order \in Injection(1..n, 1..n)
  BY <1>2 DEF Injection, IsInjective
<1>4. order \in Bijection(1..n, 1..n)
  BY <1>1, <1>3, FS_Injection DEF Bijection
<1>5. Len(order) = n
  <2>1. order \in Seq(1..n)
    BY <1>2, IsASeq
  <2> QED
    BY <1>2, <2>1
<1>6. \A i, j \in 1..n : i <= j => values[order[i]] <= values[order[j]]
  <2>1. \A i \in 1..4 : values[order[i]] \in 0..2
    BY <1>0, <1>2
  <2>2. /\ values[order[1]] <= values[order[2]] /\ values[order[2]] <= values[order[3]]
        /\ values[order[3]] <= values[order[4]]
    <3>1. 1 \in 1..3 /\ 2 \in 1..3 /\ 3 \in 1..3 /\ 1 + 1 = 2 /\ 2 + 1 = 3 /\ 3 + 1 = 4
      OBVIOUS
    <3> QED
      BY <3>1
  <2>3. \A i \in 1..n : i = 1 \/ i = 2 \/ i = 3 \/ i = 4
    BY <1>0
  <2>4. 1 \in 1..4 /\ 2 \in 1..4 /\ 3 \in 1..4 /\ 4 \in 1..4
    OBVIOUS
  <2> QED
    BY <2>1, <2>2, <2>3, <2>4
<1>7. Sorted(order, 1..n, values, n)
  <2>1. values \in [1..n -> Int]
    BY <1>0
  <2> QED
    BY <1>4, <1>6, <2>1 DEF Sorted
<1>8. index \in 0..n - 1
  BY <1>0
<1>9. Rank(order, values, index)
          = Cardinality({v \in 1..n : values[v] >= values[order[index + 1]]})
  BY <1>5, <1>7, <1>8, RankIsStanding
<1> QED
  BY <1>0, <1>9

(* The ranks in the cache are standings, as those of any list are.         *)
THEOREM CachedRanksAreStandings == CacheSpec => []RanksAreStandings
<1>1. RanksAreStandings
  BY FourRanks DEF RanksAreStandings
<1> QED
  BY <1>1, PTL

=============================================================================
