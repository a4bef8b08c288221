-------------------------- MODULE CollectorProofs ---------------------------
(***************************************************************************)
(* Proofs about BlockRewards and Collector, for any rewards, accounts,     *)
(* epochs, pages and attempts.  The collector takes no step of the job of  *)
(* BlockRewards, so that the invariant of the job holds beside it.         *)
(* Sums of stakes are proved to be numbers of units of stake, and the loop *)
(* that looks for the superminority to end where its sums say.             *)
(***************************************************************************)
EXTENDS Collector, WellFoundedInduction, FiniteSetTheorems, SequenceTheorems, TLAPS

-----------------------------------------------------------------------------
(* Numbers *)

(* A nonempty set of natural numbers has a least element.                  *)
LEMMA LeastOfNaturals ==
    ASSUME NEW S \in SUBSET Nat, S # {}
    PROVE  \E x \in S : \A y \in S : x <= y
<1> DEFINE R == OpToRel(<, Nat)
<1>1. IsWellFoundedOn(R, Nat)
  BY NatLessThanWellFounded
<1>2. \A x, y \in Nat : <<y, x>> \in R <=> y < x
  BY DEF OpToRel
<1> HIDE DEF R
<1>3. PICK x \in S : \A y \in S : ~ (<<y, x>> \in R)
  BY <1>1, WFMin
<1>4. ASSUME NEW y \in S PROVE x <= y
  <2>1. x \in Nat /\ y \in Nat /\ ~ (y < x)
    BY <1>2, <1>3
  <2> QED
    BY <2>1
<1> QED
  BY <1>4

(* One with a bound has a greatest.                                        *)
LEMMA GreatestBelow ==
    ASSUME NEW n \in Nat, NEW S \in SUBSET (0..n), S # {}
    PROVE  Max(S) \in S /\ \A x \in S : x <= Max(S)
<1> DEFINE T == {n - x : x \in S}
<1>0. \A x \in S : n - x \in T /\ n - x \in Nat /\ x \in Nat
  OBVIOUS
<1>1. T \in SUBSET Nat /\ T # {}
  BY <1>0
<1>2. \A t \in T : \E x \in S : t = n - x
  OBVIOUS
<1> HIDE DEF T
<1>3. PICK t \in T : \A u \in T : t <= u
  BY <1>1, LeastOfNaturals
<1>4. PICK x \in S : t = n - x
  BY <1>2
<1>5. \A y \in S : y <= x
  BY <1>0, <1>3, <1>4
<1> QED
  BY <1>5 DEF Max

LEMMA JobConstants ==
    /\ MaxEpoch \in Nat /\ MaxEpoch > 0 /\ SlotsInEpoch \in Nat /\ SlotsInEpoch > 0
    /\ LoadingLimit \in Nat /\ SlotOffsetWait \in Nat
<1>1. /\ MaxEpoch \in Nat \ {0} /\ SlotsInEpoch \in Nat \ {0}
      /\ LoadingLimit \in Nat /\ SlotOffsetWait \in Nat
  BY BlockRewardsAssumption, Zenon DEF BlockRewardsAssumption
<1> QED
  BY <1>1

-----------------------------------------------------------------------------
(* The job of block rewards                                                *)

(* What was taken of an epoch is what BigQuery has of it: an epoch is      *)
(* loaded at once.                                                         *)
TakenAtOnce ==
    \A e \in EpochId : taken[e] = {} \/ taken[e] = bigquery[e]

(* While the job is to collect, there are no rows of the epoch before the  *)
(* running one or of later ones, although epochs may end meanwhile.        *)
NoneOfPreviousYet ==
    job.step = "collect" => \A r \in table : r.epoch < epoch - 1

(* What the job took and has not stored is left.                           *)
TakenOrLeft ==
    job.step = "store" => taken[job.epoch] = StoredOf(job.epoch) \cup job.left

JobInv ==
    /\ TypeOK
    /\ epoch > 0
    /\ TakenAtOnce
    /\ NoneOfPreviousYet
    /\ TakenOrLeft
    /\ StoredWholeOrBroken

LEMMA JobInitially == Init => JobInv
<1> SUFFICES ASSUME Init PROVE JobInv
  OBVIOUS
<1>1. TypeOK /\ epoch > 0
  BY JobConstants DEF Init, TypeOK, EpochId, Idle
<1>2. TakenAtOnce /\ NoneOfPreviousYet /\ TakenOrLeft /\ StoredWholeOrBroken
  BY DEF Init, TakenAtOnce, NoneOfPreviousYet, TakenOrLeft, StoredWholeOrBroken, Idle
<1> QED
  BY <1>1, <1>2 DEF JobInv

(* Kinds in the form that the steps need.                                  *)
LEMMA JobTyped ==
    ASSUME JobInv
    PROVE  /\ epoch \in EpochId /\ epoch \in Nat /\ epoch - 1 \in EpochId
           /\ \A e \in EpochId : e \in Nat /\ e <= MaxEpoch
           /\ job = Idle \/ job \in Job
           /\ \A r \in table : r \in Row /\ r.epoch \in EpochId /\ r.reward \in Rewards
           /\ job.step \in {"collect", "store"} => job \in Job
BY JobConstants DEF JobInv, TypeOK, EpochId, Row, Idle

LEMMA TickJob == ASSUME JobInv, Tick PROVE JobInv'
<1>1. /\ slot' \in 0..(SlotsInEpoch - 1) /\ epoch' \in EpochId /\ epoch <= epoch'
      /\ UNCHANGED <<bigquery, table, job, taken, broken, processed>>
  BY JobConstants DEF Tick, JobInv, TypeOK, EpochId
<1>2. TypeOK'
  BY <1>1 DEF JobInv, TypeOK
<1>3. NoneOfPreviousYet' /\ epoch' > 0
  <2>1. epoch \in Nat /\ epoch' \in Nat /\ \A r \in table : r.epoch \in Nat
    BY <1>1, JobTyped DEF EpochId
  <2> QED
    BY <1>1, <2>1 DEF JobInv, NoneOfPreviousYet
<1> QED
  BY <1>1, <1>2, <1>3 DEF JobInv, TakenAtOnce, TakenOrLeft, StoredWholeOrBroken, StoredOf

LEMMA LoadJob == ASSUME JobInv, NEW e \in EpochId, Load(e) PROVE JobInv'
<1>1. /\ bigquery' = [bigquery EXCEPT ![e] = Rewards] /\ bigquery[e] = {}
      /\ UNCHANGED <<epoch, slot, table, job, taken, broken, processed>>
  BY DEF Load
<1>2. TypeOK'
  BY <1>1 DEF JobInv, TypeOK
<1>3. TakenAtOnce'
  BY <1>1 DEF JobInv, TypeOK, TakenAtOnce
<1> QED
  BY <1>1, <1>2, <1>3 DEF JobInv, NoneOfPreviousYet, TakenOrLeft, StoredWholeOrBroken, StoredOf

LEMMA CheckJob == ASSUME JobInv, CheckProceeds PROVE JobInv'
<1>1. /\ job = Idle /\ job' = [step |-> "collect", epoch |-> 0, left |-> {}]
      /\ table # {} => epoch - 1 > LastEpoch
      /\ UNCHANGED <<epoch, slot, bigquery, table, taken, broken, processed>>
  BY DEF CheckProceeds
<1>2. job'.step = "collect" /\ job' \in Job
  BY <1>1, JobConstants DEF Job, EpochId
<1>3. ASSUME NEW r \in table PROVE r.epoch < epoch - 1
  <2> DEFINE stored == {x.epoch : x \in table}
  <2>1. stored \in SUBSET (0..MaxEpoch) /\ r.epoch \in stored
    BY JobTyped DEF EpochId
  <2> HIDE DEF stored
  <2>2. r.epoch <= Max(stored) /\ Max(stored) \in 0..MaxEpoch
    BY <2>1, GreatestBelow, JobConstants
  <2>3. LastEpoch = Max(stored)
    BY DEF LastEpoch, stored
  <2> QED
    BY <1>1, <2>1, <2>2, <2>3, JobTyped
<1>4. job.step = "idle" /\ job'.step = "collect"
  BY <1>1, <1>2 DEF Idle
<1>5. StoredWholeOrBroken'
  <2> SUFFICES ASSUME NEW e \in {r.epoch : r \in table}
               PROVE  StoredOf(e) = taken[e] \/ e \in broken
    BY <1>1 DEF StoredWholeOrBroken, StoredOf
  <2> QED
    BY <1>4 DEF JobInv, StoredWholeOrBroken
<1> QED
  BY <1>1, <1>2, <1>3, <1>5 DEF JobInv, TypeOK, TakenAtOnce, NoneOfPreviousYet, TakenOrLeft

LEMMA CollectJob == ASSUME JobInv, Collect PROVE JobInv'
<1>2. PICK e \in EpochId : e = epoch - 1
  BY JobTyped
<1>1. /\ job.step = "collect"
      /\ job' = [step |-> "store", epoch |-> e, left |-> bigquery[e]]
      /\ taken' = [taken EXCEPT ![e] = @ \cup bigquery[e]]
      /\ UNCHANGED <<epoch, slot, bigquery, table, broken, processed>>
  BY <1>2 DEF Collect
<1>3. job'.step = "store" /\ job'.epoch = e /\ job'.left = bigquery[e] /\ job' \in Job
  BY <1>1, <1>2 DEF Job, JobInv, TypeOK
<1>4. /\ taken'[e] = bigquery[e]
      /\ \A d \in EpochId : d # e => taken'[d] = taken[d]
      /\ \A d \in EpochId : taken[d] \subseteq taken'[d]
      /\ taken' \in [EpochId -> SUBSET Rewards]
  <2>1. taken \in [EpochId -> SUBSET Rewards] /\ bigquery[e] \subseteq Rewards
    BY <1>2 DEF JobInv, TypeOK
  <2>2. taken[e] = {} \/ taken[e] = bigquery[e]
    BY <1>2 DEF JobInv, TakenAtOnce
  <2> QED
    BY <1>1, <1>2, <2>1, <2>2
<1>5. \A r \in table : r.epoch # e /\ r.epoch \in EpochId
  BY <1>1, <1>2, JobTyped DEF JobInv, NoneOfPreviousYet
<1>6. TypeOK'
  BY <1>1, <1>3, <1>4, <1>5 DEF JobInv, TypeOK
<1>7. TakenAtOnce'
  BY <1>1, <1>2, <1>4 DEF JobInv, TakenAtOnce
<1>8. TakenOrLeft'
  <2>1. (StoredOf(e))' = {}
    BY <1>1, <1>5 DEF StoredOf
  <2>2. (StoredOf(job.epoch))' = (StoredOf(e))'
    BY <1>3 DEF StoredOf
  <2> QED
    BY <1>3, <1>4, <2>1, <2>2 DEF TakenOrLeft
<1>9. StoredWholeOrBroken'
  <2> SUFFICES ASSUME NEW d \in {r.epoch : r \in table}
               PROVE  StoredOf(d) = taken'[d] \/ d \in broken
    BY <1>1 DEF StoredWholeOrBroken, StoredOf
  <2> QED
    BY <1>1, <1>4, <1>5 DEF JobInv, StoredWholeOrBroken
<1> QED
  BY <1>1, <1>3, <1>6, <1>7, <1>8, <1>9 DEF JobInv, NoneOfPreviousYet

(* The job ends where nothing is left, or nothing was taken, or by a crash.*)
LEMMA JobEnds ==
    ASSUME JobInv, job' = Idle, UNCHANGED <<epoch, slot, bigquery, table, taken, processed>>,
           \/ job.step # "store" /\ broken' = broken
           \/ job.step = "store" /\ job.left = {} /\ broken' = broken
           \/ job.step = "store" /\ broken' = broken \cup {job.epoch}
    PROVE  JobInv'
<1>1. job'.step = "idle"
  BY DEF Idle
<1>2. broken \subseteq broken' /\ broken' \subseteq EpochId
  BY JobTyped DEF JobInv, TypeOK, Job
<1>3. StoredWholeOrBroken'
  <2> SUFFICES ASSUME NEW e \in {r.epoch : r \in table}
               PROVE  StoredOf(e) = taken[e] \/ e \in broken'
    BY DEF StoredWholeOrBroken, StoredOf
  <2>1. StoredOf(e) = taken[e] \/ e \in broken \/ (job.step = "store" /\ job.epoch = e)
    BY DEF JobInv, StoredWholeOrBroken
  <2>2. CASE job.step = "store" /\ job.epoch = e
    BY <2>2 DEF JobInv, TakenOrLeft
  <2> QED
    BY <1>2, <2>1, <2>2
<1> QED
  BY <1>1, <1>2, <1>3 DEF JobInv, TypeOK, TakenAtOnce, NoneOfPreviousYet, TakenOrLeft

LEMMA UpsertJob == ASSUME JobInv, NEW r \in Rewards, UpsertReward(r) PROVE JobInv'
<1> DEFINE row == [epoch |-> job.epoch, reward |-> r]
<1>1. /\ job.step = "store" /\ r \in job.left
      /\ table' = table \cup {row} /\ job' = [job EXCEPT !.left = @ \ {r}]
      /\ UNCHANGED <<epoch, slot, bigquery, taken, broken, processed>>
  BY DEF UpsertReward
<1>2. job \in Job
  BY <1>1, JobTyped
<1>3. /\ job'.step = "store" /\ job'.epoch = job.epoch /\ job'.left = job.left \ {r}
      /\ job' \in Job /\ job.epoch \in EpochId /\ row \in Row
  BY <1>1, <1>2 DEF Job, Row
<1>4. taken[job.epoch] = StoredOf(job.epoch) \cup job.left
  BY <1>1 DEF JobInv, TakenOrLeft
<1>5. row.epoch = job.epoch /\ row.reward = r
  OBVIOUS
<1> HIDE DEF row
<1>6. (StoredOf(job.epoch))' = StoredOf(job.epoch) \cup {r}
  BY <1>1, <1>3, <1>5 DEF StoredOf
<1>7. TypeOK'
  BY <1>1, <1>3, <1>4, <1>5 DEF JobInv, TypeOK
<1>8. TakenOrLeft'
  BY <1>1, <1>3, <1>4, <1>6 DEF TakenOrLeft
<1>9. StoredWholeOrBroken'
  <2> SUFFICES ASSUME NEW e \in {x.epoch : x \in table'}
               PROVE  \/ StoredOf(e)' = taken[e] \/ e \in broken
                      \/ job'.step = "store" /\ job'.epoch = e
    BY <1>1 DEF StoredWholeOrBroken, StoredOf
  <2>1. CASE e = job.epoch
    BY <1>3, <2>1
  <2>2. CASE e # job.epoch
    <3>1. StoredOf(e)' = StoredOf(e) /\ e \in {x.epoch : x \in table}
      BY <1>1, <1>5, <2>2 DEF StoredOf
    <3> QED
      BY <2>2, <3>1 DEF JobInv, StoredWholeOrBroken
  <2> QED
    BY <2>1, <2>2
<1> QED
  BY <1>1, <1>3, <1>7, <1>8, <1>9 DEF JobInv, TakenAtOnce, NoneOfPreviousYet

LEMMA NextJob == ASSUME JobInv, [Next]_vars PROVE JobInv'
<1>1. CASE Tick
  BY <1>1, TickJob
<1>2. CASE \E e \in EpochId : Load(e)
  BY <1>2, LoadJob
<1>3. CASE CheckProceeds
  BY <1>3, CheckJob
<1>4. CASE CheckSkipsProcessed
  <2>1. processed' \subseteq EpochId
    BY <1>4, JobTyped DEF CheckSkipsProcessed, JobInv, TypeOK
  <2> QED
    BY <1>4, <2>1 DEF CheckSkipsProcessed, JobInv, TypeOK, TakenAtOnce, NoneOfPreviousYet,
       TakenOrLeft, StoredWholeOrBroken, StoredOf
<1>5. CASE Collect
  BY <1>5, CollectJob
<1>6. CASE CollectNothing
  BY <1>6, JobEnds DEF CollectNothing
<1>7. CASE \E r \in Rewards : UpsertReward(r)
  BY <1>7, UpsertJob
<1>8. CASE EndStoring
  BY <1>8, JobEnds DEF EndStoring
<1>9. CASE Crash
  BY <1>9, JobEnds DEF Crash
<1>10. CASE UNCHANGED vars
  BY <1>10 DEF vars, JobInv, TypeOK, TakenAtOnce, NoneOfPreviousYet, TakenOrLeft,
     StoredWholeOrBroken, StoredOf
<1> QED
  BY <1>1, <1>2, <1>3, <1>4, <1>5, <1>6, <1>7, <1>8, <1>9, <1>10 DEF Next

(* The collector leaves the job alone.                                     *)
LEMMA CollectorLeavesJob ==
    ASSUME [CollectorNext]_<<vars, collectorVars>>
    PROVE  [Next]_vars
BY DEF CollectorNext, ChangeAuthorities, GetEpochInfo, GetWithdrawAuthorities, FetchPage,
   GetBlockProduction, GetConfirmedBlocks, ProductionFails, GetCredits, CollectorFails

LEMMA JobInvariance == CollectorSpec => []JobInv
<1>1. CollectorInit => JobInv
  BY JobInitially DEF CollectorInit
<1>2. JobInv /\ [CollectorNext]_<<vars, collectorVars>> => JobInv'
  BY CollectorLeavesJob, NextJob
<1> QED
  BY <1>1, <1>2, PTL DEF CollectorSpec

(* Rewards that were collected for an epoch are all stored, unless a store *)
(* was interrupted.                                                        *)
THEOREM StoredWhole == CollectorSpec => []StoredWholeOrBroken
<1>1. JobInv => StoredWholeOrBroken
  BY DEF JobInv
<1> QED
  BY <1>1, JobInvariance, PTL
-----------------------------------------------------------------------------
(* Slots and accounts                                                      *)

LEMMA SlotsOfEpochs ==
    ASSUME NEW d \in Nat, NEW e \in Nat
    PROVE  /\ FirstSlotInEpoch(d) \in Nat
           /\ LastSlotInEpoch(d) = FirstSlotInEpoch(d) + SlotsInEpoch - 1
           /\ d <= e => FirstSlotInEpoch(d) <= FirstSlotInEpoch(e)
           /\ FirstSlotInEpoch(d) = FirstSlotInEpoch(e) => d = e
<1> DEFINE S == SlotsInEpoch
<1>1. S \in Nat /\ S > 0
  BY JobConstants
<1> HIDE DEF S
<1>2. \A k \in Nat : k * S \in Nat
  BY <1>1
<1>3. (d + 1) * S = d * S + S
  BY <1>1
<1>4. ASSUME NEW x \in Nat, NEW y \in Nat, x < y PROVE x * S + S <= y * S
  <2>1. PICK k \in Nat : y = x + (1 + k)
    <3>1. y - x - 1 \in Nat /\ y = x + (1 + (y - x - 1))
      BY <1>4
    <3> QED
      BY <3>1
  <2>2. y * S = x * S + (S + k * S)
    BY <1>1, <2>1
  <2> QED
    BY <1>1, <1>2, <2>2
<1>5. d < e => d * S + S <= e * S
  BY <1>4
<1>6. e < d => e * S + S <= d * S
  BY <1>4
<1>7. d * S = e * S => d = e
  BY <1>1, <1>2, <1>5, <1>6
<1>8. d <= e => d * S <= e * S
  BY <1>1, <1>2, <1>5
<1> QED
  BY <1>1, <1>2, <1>3, <1>7, <1>8 DEF FirstSlotInEpoch, LastSlotInEpoch, S

LEMMA PageConstants ==
    /\ Voter \in [StakeAccounts -> VoteAccounts] /\ IsFiniteSet(StakeAccounts)
    /\ LastPage \in Nat /\ RpcAttempts \in Nat
BY CollectorAssumption DEF CollectorAssumption

(* Counts of accounts are numbers, and those of fewer accounts no larger.  *)
LEMMA CountsOfAccounts ==
    ASSUME NEW T \in SUBSET StakeAccounts, NEW S \in SUBSET T
    PROVE  /\ Cardinality(S) \in Nat /\ Cardinality(T) \in Nat
           /\ Cardinality(S) <= Cardinality(T)
           /\ Cardinality({}) = 0
<1>1. IsFiniteSet(T) /\ IsFiniteSet(S)
  BY PageConstants, FS_Subset
<1> QED
  BY <1>1, FS_Subset, FS_CardinalityType, FS_EmptySet

-----------------------------------------------------------------------------
(* The collectors                                                          *)

Delegated(accounts, v) == {a \in accounts : Voter[a] = v}

(* The collector keeps to the epoch that it began with, which can only get *)
(* older.                                                                  *)
EpochKept ==
    /\ collector.epoch <= epoch
    /\ collector.over => collector.epoch < epoch
    /\ collector.step \in {"credits", "printed"} =>
           LET slots == FirstSlotInEpoch(collector.epoch)..LastSlotInEpoch(collector.epoch)
           IN /\ collector.production # {}
              /\ collector.production \subseteq slots
              /\ collector.over => collector.production = slots
    /\ collector.step = "printed" /\ collector.over => collector.credits # "so far"

(* Of a validator there is nothing before the page of the withdrawer that  *)
(* it had when the scan began.                                             *)
Scanned(authority, v) ==
    LET total == collector.self_stake[v]
    IN /\ collector.page <= authority => total = 0
       /\ collector.page > authority =>
              /\ total <= Cardinality(Delegated(StakeAccounts, v))
              /\ total >= Cardinality(Delegated(steady, v))

(* During the scan the accounts that have been self stake all the time     *)
(* still have that withdrawer, and so has their validator.                 *)
Scan ==
    \E asked \in [VoteAccounts -> Authority] :
        /\ collector.authorities = {<<asked[v], v>> : v \in VoteAccounts}
        /\ \A a \in steady : /\ withdrawer[a] = asked[Voter[a]]
                             /\ authorized[Voter[a]] = asked[Voter[a]]
        /\ \A v \in VoteAccounts : Scanned(asked[v], v)

CollectorInv ==
    /\ CollectorTypeOK
    /\ EpochKept
    /\ collector.step = "pages" => Scan
    /\ collector.step \in {"idle", "authorities"} =>
           collector.self_stake = NoStake /\ collector.page = 0
    /\ SelfStakeOnce

LEMMA CollectionTyped ==
    ASSUME NEW c \in Collection
    PROVE  /\ c = [step |-> c.step, epoch |-> c.epoch, over |-> c.over,
                   attempts |-> c.attempts, page |-> c.page,
                   authorities |-> c.authorities, self_stake |-> c.self_stake,
                   production |-> c.production, credits |-> c.credits]
           /\ c.step \in {"idle", "authorities", "pages", "production", "history",
                          "credits", "printed"}
           /\ c.epoch \in EpochId /\ c.epoch \in Nat
           /\ c.over \in BOOLEAN
           /\ c.attempts \in 0..RpcAttempts
           /\ c.page \in Authority /\ c.page \in Nat
           /\ c.authorities \in SUBSET (Authority \X VoteAccounts)
           /\ c.self_stake \in [VoteAccounts -> 0..Cardinality(StakeAccounts)]
           /\ \A v \in VoteAccounts : c.self_stake[v] \in Nat
           /\ c.production \in SUBSET Slot
           /\ c.credits \in {"none", "so far", "whole"}
<1>1. c.self_stake \in [VoteAccounts -> 0..Cardinality(StakeAccounts)]
  BY DEF Collection
<1>2. \A v \in VoteAccounts : c.self_stake[v] \in Nat
  BY <1>1, CountsOfAccounts
<1>3. c.epoch \in EpochId /\ c.page \in Authority
  BY DEF Collection
<1>4. c.epoch \in Nat /\ c.page \in Nat
  BY <1>3, JobConstants, PageConstants DEF EpochId, Authority
<1> QED
  BY <1>1, <1>2, <1>3, <1>4 DEF Collection

LEMMA NothingCollected ==
    /\ NoCollection \in Collection /\ NoCollection.step = "idle"
    /\ NoCollection.epoch = 0 /\ NoCollection.over = FALSE
    /\ NoCollection.self_stake = NoStake /\ NoCollection.page = 0
<1>1. NoStake \in [VoteAccounts -> 0..Cardinality(StakeAccounts)]
  BY CountsOfAccounts DEF NoStake
<1> QED
  BY <1>1, JobConstants, PageConstants DEF NoCollection, Collection, EpochId, Authority

(* A snapshot with nothing in it breaks no bound.                          *)
LEMMA NoStakeIsOnce ==
    ASSUME collector'.self_stake = NoStake, steady' = {} \/ collector'.step = "idle",
           steady' \subseteq StakeAccounts
    PROVE  SelfStakeOnce'
<1> SUFFICES ASSUME NEW v \in VoteAccounts
             PROVE  /\ 0 <= Cardinality({a \in StakeAccounts : Voter[a] = v})
                    /\ collector'.step \in {"production", "history", "credits", "printed"} =>
                           0 >= Cardinality({a \in steady' : Voter[a] = v})
  BY DEF SelfStakeOnce, NoStake
<1>1. {a \in StakeAccounts : Voter[a] = v} \subseteq StakeAccounts
  OBVIOUS
<1>2. steady' = {} => {a \in steady' : Voter[a] = v} = {}
  OBVIOUS
<1> QED
  BY <1>1, <1>2, CountsOfAccounts

LEMMA CollectorInitially == CollectorInit => CollectorInv
<1> SUFFICES ASSUME CollectorInit PROVE CollectorInv
  OBVIOUS
<1>1. CollectorTypeOK /\ EpochKept
  BY JobInitially, NothingCollected, JobConstants
     DEF CollectorInit, CollectorTypeOK, EpochKept, JobInv, TypeOK, EpochId
<1>2. SelfStakeOnce
  <2> SUFFICES ASSUME NEW v \in VoteAccounts
               PROVE  0 <= Cardinality({a \in StakeAccounts : Voter[a] = v})
    BY NothingCollected DEF CollectorInit, SelfStakeOnce, NoStake
  <2>1. {a \in StakeAccounts : Voter[a] = v} \subseteq StakeAccounts
    OBVIOUS
  <2> QED
    BY <2>1, CountsOfAccounts
<1> QED
  BY <1>1, <1>2, NothingCollected DEF CollectorInv, CollectorInit

(* The job and the chain move on beside the collector.                     *)
LEMMA ChainCollector ==
    ASSUME JobInv, CollectorInv, [Next]_vars, UNCHANGED collectorVars
    PROVE  CollectorInv'
<1>1. epoch \in Nat /\ epoch' \in Nat /\ epoch <= epoch' /\ TypeOK'
  <2>1. JobInv'
    BY NextJob
  <2>2. epoch \in Nat /\ epoch' \in Nat
    BY <2>1, JobTyped, JobConstants DEF JobInv, TypeOK, EpochId
  <2>3. epoch' = epoch \/ epoch' = epoch + 1
    BY DEF Next, Tick, Load, CheckProceeds, CheckSkipsProcessed, Collect, CollectNothing,
       UpsertReward, EndStoring, Crash, vars
  <2> QED
    BY <2>1, <2>2, <2>3 DEF JobInv
<1>2. UNCHANGED <<withdrawer, authorized, collector, steady>>
  BY DEF collectorVars
<1>3. collector.epoch \in Nat /\ collector.over \in BOOLEAN
  BY CollectionTyped DEF CollectorInv, CollectorTypeOK
<1>4. EpochKept'
  <2>1. collector.epoch <= epoch /\ (collector.over => collector.epoch < epoch)
    BY DEF CollectorInv, EpochKept
  <2>2. collector.epoch <= epoch' /\ (collector.over => collector.epoch < epoch')
    BY <1>1, <1>3, <2>1
  <2> QED
    BY <1>2, <2>2 DEF CollectorInv, EpochKept, FirstSlotInEpoch, LastSlotInEpoch
<1>5. CollectorTypeOK' /\ SelfStakeOnce'
  BY <1>1, <1>2 DEF CollectorInv, CollectorTypeOK, SelfStakeOnce
<1>6. Scan => Scan'
  BY <1>2 DEF Scan, Scanned, Delegated
<1> QED
  BY <1>2, <1>4, <1>5, <1>6 DEF CollectorInv

LEMMA AuthoritiesCollector ==
    ASSUME JobInv, CollectorInv, ChangeAuthorities
    PROVE  CollectorInv'
<1>1. /\ collector.step = "pages" /\ collector' = collector /\ UNCHANGED vars
      /\ steady' = steady \cap SelfStaked'
      /\ steady' \subseteq steady /\ steady' \subseteq StakeAccounts
  BY DEF ChangeAuthorities, CollectorInv, CollectorTypeOK
<1>2. /\ withdrawer' \in [StakeAccounts -> Authority]
      /\ authorized' \in [VoteAccounts -> Authority]
      /\ withdrawer' = withdrawer \/ authorized' = authorized
  BY DEF ChangeAuthorities, CollectorInv, CollectorTypeOK
<1>3. PICK asked \in [VoteAccounts -> Authority] :
        /\ collector.authorities = {<<asked[v], v>> : v \in VoteAccounts}
        /\ \A a \in steady : /\ withdrawer[a] = asked[Voter[a]]
                             /\ authorized[Voter[a]] = asked[Voter[a]]
        /\ \A v \in VoteAccounts : Scanned(asked[v], v)
  BY <1>1 DEF CollectorInv, Scan
<1>4. \A a \in steady' : /\ withdrawer'[a] = asked[Voter[a]]
                         /\ authorized'[Voter[a]] = asked[Voter[a]]
  BY <1>1, <1>2, <1>3 DEF SelfStaked
<1>5. ASSUME NEW v \in VoteAccounts PROVE Scanned(asked[v], v)'
  <2>1. /\ Delegated(steady', v) \subseteq Delegated(steady, v)
        /\ Delegated(steady, v) \subseteq StakeAccounts
    BY <1>1 DEF Delegated, CollectorInv, CollectorTypeOK
  <2>2. /\ Cardinality(Delegated(steady', v)) <= Cardinality(Delegated(steady, v))
        /\ Cardinality(Delegated(steady', v)) \in Nat
        /\ Cardinality(Delegated(steady, v)) \in Nat
    BY <2>1, CountsOfAccounts
  <2>3. collector.self_stake[v] \in Nat
    BY CollectionTyped DEF CollectorInv, CollectorTypeOK
  <2>4. (Delegated(steady, v))' = Delegated(steady', v)
    BY DEF Delegated
  <2> QED
    BY <1>1, <1>3, <2>2, <2>3, <2>4 DEF Scanned
<1>6. Scan'
  BY <1>1, <1>3, <1>4, <1>5 DEF Scan
<1>7. EpochKept'
  BY <1>1 DEF CollectorInv, EpochKept, vars, FirstSlotInEpoch, LastSlotInEpoch
<1>8. CollectorTypeOK'
  BY <1>1, <1>2 DEF CollectorInv, CollectorTypeOK, TypeOK, vars, StoredOf
<1>9. SelfStakeOnce'
  BY <1>1 DEF CollectorInv, SelfStakeOnce
<1> QED
  BY <1>1, <1>6, <1>7, <1>8, <1>9 DEF CollectorInv

LEMMA BeginCollector ==
    ASSUME JobInv, CollectorInv, NEW e \in EpochId, NEW step \in {"authorities", "production"},
           GetEpochInfo(e, step)
    PROVE  CollectorInv'
<1>1. /\ collector' = [NoCollection EXCEPT !.step = step, !.epoch = e, !.over = e < epoch]
      /\ e <= epoch /\ steady' = {}
      /\ UNCHANGED <<vars, withdrawer, authorized>>
  BY DEF GetEpochInfo
<1>2. /\ collector'.step = step /\ collector'.epoch = e /\ collector'.over = (e < epoch)
      /\ collector'.self_stake = NoStake /\ collector'.page = 0
      /\ collector' \in Collection
  <2>1. (e < epoch) \in BOOLEAN
    BY JobTyped
  <2> HIDE DEF Collection
  <2>2. collector' \in Collection
    BY <1>1, <2>1, NothingCollected DEF Collection
  <2> QED
    BY <1>1, <2>2 DEF NoCollection
<1>3. EpochKept'
  BY <1>1, <1>2 DEF EpochKept, vars
<1>4. SelfStakeOnce'
  BY <1>1, <1>2, NoStakeIsOnce
<1>5. CollectorTypeOK'
  BY <1>1, <1>2 DEF CollectorInv, CollectorTypeOK, TypeOK, vars, StoredOf
<1> QED
  BY <1>2, <1>3, <1>4, <1>5 DEF CollectorInv

LEMMA ListCollector ==
    ASSUME JobInv, CollectorInv, GetWithdrawAuthorities
    PROVE  CollectorInv'
<1> DEFINE listed == {<<authorized[v], v>> : v \in VoteAccounts}
<1>1. /\ collector.step = "authorities"
      /\ collector' = [collector EXCEPT !.step = "pages", !.authorities = listed]
      /\ steady' = SelfStaked
      /\ UNCHANGED <<vars, withdrawer, authorized>>
  BY DEF GetWithdrawAuthorities
<1>2. /\ authorized \in [VoteAccounts -> Authority] /\ collector \in Collection
      /\ listed \in SUBSET (Authority \X VoteAccounts)
  BY DEF CollectorInv, CollectorTypeOK
<1>3. /\ collector'.step = "pages" /\ collector'.authorities = listed
      /\ collector'.epoch = collector.epoch /\ collector'.over = collector.over
      /\ collector'.page = collector.page
      /\ collector'.self_stake = NoStake
      /\ collector' \in Collection
  <2> HIDE DEF listed
  <2>1. collector' \in Collection
    BY <1>1, <1>2 DEF Collection
  <2>2. collector.self_stake = NoStake
    BY <1>1 DEF CollectorInv
  <2> QED
    BY <1>1, <1>2, <2>1, <2>2 DEF Collection
<1> HIDE DEF listed
<1>4. steady' \subseteq StakeAccounts
  BY <1>1 DEF SelfStaked
<1>5. SelfStakeOnce'
  <2> SUFFICES ASSUME NEW v \in VoteAccounts
               PROVE  0 <= Cardinality({a \in StakeAccounts : Voter[a] = v})
    BY <1>3 DEF SelfStakeOnce, NoStake
  <2>1. {a \in StakeAccounts : Voter[a] = v} \subseteq StakeAccounts
    OBVIOUS
  <2> QED
    BY <2>1, CountsOfAccounts
<1>6. Scan'
  <2>0. PICK asked \in [VoteAccounts -> Authority] : asked = authorized
    BY <1>2
  <2>1. \A a \in steady' : /\ withdrawer'[a] = asked[Voter[a]]
                           /\ authorized'[Voter[a]] = asked[Voter[a]]
    BY <1>1, <2>0 DEF SelfStaked
  <2>2. ASSUME NEW v \in VoteAccounts PROVE Scanned(asked[v], v)'
    <3>1. asked[v] \in Nat
      BY <1>2, PageConstants DEF Authority
    <3>2. collector'.page = 0 /\ collector'.self_stake[v] = 0
      BY <1>1, <1>3 DEF NoStake, CollectorInv
    <3> QED
      BY <3>1, <3>2 DEF Scanned
  <2> QED
    BY <1>3, <2>0, <2>1, <2>2 DEF Scan, listed
<1>7. EpochKept'
  BY <1>1, <1>3 DEF CollectorInv, EpochKept, vars
<1>8. CollectorTypeOK'
  BY <1>1, <1>3, <1>4 DEF CollectorInv, CollectorTypeOK, TypeOK, vars, StoredOf
<1> QED
  BY <1>3, <1>5, <1>6, <1>7, <1>8 DEF CollectorInv

(* A page completes the count of the validators with its withdrawer and    *)
(* leaves the others alone.                                                *)
LEMMA PageCounts ==
    ASSUME CollectorInv,
           NEW asked \in [VoteAccounts -> Authority],
           collector.authorities = {<<asked[v], v>> : v \in VoteAccounts},
           \A a \in steady : withdrawer[a] = asked[Voter[a]],
           NEW v \in VoteAccounts, Scanned(asked[v], v)
    PROVE  LET accounts == {a \in StakeAccounts : withdrawer[a] = collector.page}
               total == AddSelfStake(accounts)[v]
           IN /\ asked[v] # collector.page => total = collector.self_stake[v]
              /\ asked[v] = collector.page =>
                     /\ total \in Nat
                     /\ total <= Cardinality(Delegated(StakeAccounts, v))
                     /\ total >= Cardinality(Delegated(steady, v))
<1> DEFINE accounts == {a \in StakeAccounts : withdrawer[a] = collector.page}
           counted == {a \in accounts : /\ Voter[a] = v
                                        /\ <<withdrawer[a], v>> \in collector.authorities}
<1>1. AddSelfStake(accounts)[v] = collector.self_stake[v] + Cardinality(counted)
  BY DEF AddSelfStake
<1>2. counted = {a \in StakeAccounts :
                    /\ Voter[a] = v
                    /\ withdrawer[a] = collector.page /\ withdrawer[a] = asked[v]}
  OBVIOUS
<1>3. collector.self_stake[v] \in Nat /\ collector.page \in Nat /\ steady \subseteq StakeAccounts
  BY CollectionTyped DEF CollectorInv, CollectorTypeOK
<1> HIDE DEF counted, accounts
<1>4. CASE asked[v] # collector.page
  <2>1. counted = {}
    BY <1>2, <1>4
  <2>2. Cardinality(counted) = 0
    BY <2>1, CountsOfAccounts
  <2> QED
    BY <1>1, <1>3, <1>4, <2>2 DEF accounts
<1>5. CASE asked[v] = collector.page
  <2>1. /\ counted \subseteq Delegated(StakeAccounts, v)
        /\ Delegated(steady, v) \subseteq counted
        /\ Delegated(StakeAccounts, v) \subseteq StakeAccounts
    BY <1>2, <1>3, <1>5 DEF Delegated
  <2>2. /\ Cardinality(counted) \in Nat
        /\ Cardinality(counted) <= Cardinality(Delegated(StakeAccounts, v))
        /\ Cardinality(Delegated(steady, v)) <= Cardinality(counted)
    <3>1. counted \subseteq StakeAccounts
      BY <2>1
    <3> QED
      BY <2>1, <3>1, CountsOfAccounts
  <2>3. collector.self_stake[v] = 0
    BY <1>3, <1>5 DEF Scanned
  <2>4. AddSelfStake(accounts)[v] = Cardinality(counted)
    BY <1>1, <2>2, <2>3
  <2> QED
    BY <1>5, <2>2, <2>4 DEF accounts
<1> QED
  BY <1>4, <1>5

LEMMA PageCollector ==
    ASSUME JobInv, CollectorInv, FetchPage
    PROVE  CollectorInv'
<1> DEFINE accounts == {a \in StakeAccounts : withdrawer[a] = collector.page}
           totals == AddSelfStake(accounts)
<1>1. /\ collector.step = "pages"
      /\ \/ /\ collector.page < LastPage
            /\ collector' = [collector EXCEPT !.self_stake = totals, !.page = @ + 1]
         \/ /\ ~ (collector.page < LastPage)
            /\ collector' = [collector EXCEPT !.self_stake = totals, !.step = "production",
                                              !.page = 0, !.authorities = {}]
      /\ UNCHANGED <<vars, withdrawer, authorized, steady>>
  BY DEF FetchPage
<1>2. PICK asked \in [VoteAccounts -> Authority] :
        /\ collector.authorities = {<<asked[v], v>> : v \in VoteAccounts}
        /\ \A a \in steady : /\ withdrawer[a] = asked[Voter[a]]
                             /\ authorized[Voter[a]] = asked[Voter[a]]
        /\ \A v \in VoteAccounts : Scanned(asked[v], v)
  BY <1>1 DEF CollectorInv, Scan
<1>3. totals = [v \in VoteAccounts |-> totals[v]]
  BY DEF AddSelfStake
<1>4. ASSUME NEW v \in VoteAccounts
      PROVE  /\ asked[v] # collector.page => totals[v] = collector.self_stake[v]
             /\ asked[v] = collector.page =>
                    /\ totals[v] \in Nat
                    /\ totals[v] <= Cardinality(Delegated(StakeAccounts, v))
                    /\ totals[v] >= Cardinality(Delegated(steady, v))
  BY <1>2, PageCounts
<1> HIDE DEF totals, accounts
<1>5. /\ collector \in Collection /\ collector.page \in Nat /\ collector.page <= LastPage
      /\ steady \subseteq StakeAccounts
      /\ \A v \in VoteAccounts : asked[v] \in Nat /\ asked[v] <= LastPage
      /\ \A v \in VoteAccounts : collector.self_stake[v] \in Nat
  <2>1. collector \in Collection /\ steady \subseteq StakeAccounts
    BY DEF CollectorInv, CollectorTypeOK
  <2>2. \A w \in Authority : w \in Nat /\ w <= LastPage
    BY PageConstants DEF Authority
  <2> QED
    BY <2>1, <2>2, CollectionTyped
<1>6. ASSUME NEW v \in VoteAccounts
      PROVE  /\ totals[v] \in Nat
             /\ totals[v] <= Cardinality(Delegated(StakeAccounts, v))
             /\ asked[v] <= collector.page => totals[v] >= Cardinality(Delegated(steady, v))
             /\ asked[v] > collector.page => totals[v] = 0
             /\ Cardinality(Delegated(StakeAccounts, v)) <= Cardinality(StakeAccounts)
             /\ Cardinality(Delegated(StakeAccounts, v)) \in Nat
  <2>1. Delegated(StakeAccounts, v) \subseteq StakeAccounts
    BY DEF Delegated
  <2>2. /\ Cardinality(Delegated(StakeAccounts, v)) <= Cardinality(StakeAccounts)
        /\ Cardinality(Delegated(StakeAccounts, v)) \in Nat
    BY <2>1, CountsOfAccounts
  <2> QED
    BY <1>2, <1>4, <1>5, <2>2 DEF Scanned
<1>7. totals \in [VoteAccounts -> 0..Cardinality(StakeAccounts)]
  <2>1. Cardinality(StakeAccounts) \in Nat
    BY CountsOfAccounts
  <2>2. \A v \in VoteAccounts : totals[v] \in 0..Cardinality(StakeAccounts)
    BY <1>6, <2>1
  <2> QED
    BY <1>3, <2>2
<1>8. /\ collector'.self_stake = totals
      /\ collector'.epoch = collector.epoch /\ collector'.over = collector.over
      /\ collector'.step \in {"pages", "production"}
      /\ collector' \in Collection
      /\ collector'.step = "pages" =>
             /\ collector'.authorities = collector.authorities
             /\ collector'.page = collector.page + 1
      /\ collector'.step = "production" => collector.page = LastPage
  <2>1. CASE collector.page < LastPage
    <3>1. collector.page + 1 \in Authority
      BY <1>5, <2>1, PageConstants DEF Authority
    <3>2. collector' = [collector EXCEPT !.self_stake = totals, !.page = @ + 1]
      BY <1>1, <2>1
    <3>3. collector' \in Collection
      BY <1>5, <1>7, <3>1, <3>2 DEF Collection
    <3> QED
      BY <1>1, <1>5, <3>2, <3>3, CollectionTyped
  <2>2. CASE ~ (collector.page < LastPage)
    <3>1. 0 \in Authority
      BY PageConstants DEF Authority
    <3>2. collector' = [collector EXCEPT !.self_stake = totals, !.step = "production",
                                         !.page = 0, !.authorities = {}]
      BY <1>1, <2>2
    <3>3. collector' \in Collection
      BY <1>5, <1>7, <3>1, <3>2 DEF Collection
    <3>4. /\ collector'.step = "production" /\ collector'.self_stake = totals
          /\ collector'.epoch = collector.epoch /\ collector'.over = collector.over
      BY <1>5, <3>2 DEF Collection
    <3> QED
      BY <1>5, <2>2, <3>3, <3>4, PageConstants
  <2> QED
    BY <2>1, <2>2
<1>9. collector'.step = "pages" => Scan'
  <2> SUFFICES ASSUME collector'.step = "pages" PROVE Scan'
    OBVIOUS
  <2>1. ASSUME NEW v \in VoteAccounts PROVE Scanned(asked[v], v)'
    <3>1. Cardinality(Delegated(steady, v))' = Cardinality(Delegated(steady, v))
      BY <1>1 DEF Delegated
    <3>2. Cardinality(Delegated(StakeAccounts, v))' = Cardinality(Delegated(StakeAccounts, v))
      BY DEF Delegated
    <3> QED
      BY <1>5, <1>6, <1>8, <3>1, <3>2 DEF Scanned
  <2> QED
    BY <1>1, <1>2, <1>8, <2>1 DEF Scan
<1>10. SelfStakeOnce'
  <2> SUFFICES ASSUME NEW v \in VoteAccounts
               PROVE  /\ totals[v] <= Cardinality(Delegated(StakeAccounts, v))
                      /\ collector'.step = "production" =>
                             totals[v] >= Cardinality(Delegated(steady, v))
    BY <1>1, <1>8 DEF SelfStakeOnce, Delegated
  <2> QED
    BY <1>5, <1>6, <1>8
<1>11. EpochKept'
  BY <1>1, <1>8 DEF CollectorInv, EpochKept, vars
<1>12. CollectorTypeOK'
  BY <1>1, <1>8 DEF CollectorInv, CollectorTypeOK, TypeOK, vars, StoredOf
<1> QED
  BY <1>8, <1>9, <1>10, <1>11, <1>12 DEF CollectorInv

(* The steps after the scan leave its totals alone.                        *)
LEMMA TotalsKept ==
    ASSUME CollectorInv, collector'.self_stake = collector.self_stake, steady' = steady,
           collector.step \in {"production", "history", "credits"}
    PROVE  SelfStakeOnce'
BY DEF CollectorInv, SelfStakeOnce

LEMMA SlotsAreSlots ==
    ASSUME NEW e \in EpochId
    PROVE  FirstSlotInEpoch(e)..LastSlotInEpoch(e) \in SUBSET Slot
<1>1. e \in Nat /\ e + 1 \in Nat /\ MaxEpoch + 1 \in Nat /\ e + 1 <= MaxEpoch + 1
  BY JobConstants DEF EpochId
<1>2. /\ FirstSlotInEpoch(e) \in Nat
      /\ FirstSlotInEpoch(e + 1) \in Nat /\ FirstSlotInEpoch(MaxEpoch + 1) \in Nat
      /\ FirstSlotInEpoch(e + 1) <= FirstSlotInEpoch(MaxEpoch + 1)
  BY <1>1, SlotsOfEpochs
<1>3. LastSlotInEpoch(e) = FirstSlotInEpoch(e + 1) - 1
  BY DEF LastSlotInEpoch
<1>4. Slot = 0..(FirstSlotInEpoch(MaxEpoch + 1) - 1)
  BY DEF Slot, FirstSlotInEpoch
<1> QED
  BY <1>2, <1>3, <1>4

(* What the node tells of the running epoch.                               *)
LEMMA ProductionCollector ==
    ASSUME JobInv, CollectorInv, GetBlockProduction
    PROVE  CollectorInv'
<1>1. /\ collector.step = "production"
      /\ UNCHANGED <<vars, withdrawer, authorized, steady>>
      /\ collector \in Collection
  BY DEF GetBlockProduction, CollectorInv, CollectorTypeOK
<1>2. CASE FirstSlotInEpoch(collector.epoch) = FirstSlotInEpoch(epoch)
  <2> DEFINE sofar == FirstSlotInEpoch(epoch)..CurrentSlot
             slots == FirstSlotInEpoch(collector.epoch)..LastSlotInEpoch(collector.epoch)
  <2>1. collector' = [collector EXCEPT !.step = "credits", !.production = sofar]
    BY <1>2 DEF GetBlockProduction
  <2>2. collector.epoch = epoch /\ epoch \in EpochId /\ epoch \in Nat
    BY <1>1, <1>2, CollectionTyped, JobTyped, SlotsOfEpochs
  <2>3. sofar # {} /\ sofar \subseteq slots
    <3>1. slot \in 0..(SlotsInEpoch - 1)
      BY DEF JobInv, TypeOK
    <3>2. /\ FirstSlotInEpoch(epoch) \in Nat
          /\ LastSlotInEpoch(epoch) = FirstSlotInEpoch(epoch) + SlotsInEpoch - 1
      BY <2>2, SlotsOfEpochs
    <3>3. CurrentSlot = FirstSlotInEpoch(epoch) + slot
      BY DEF CurrentSlot
    <3> QED
      BY <2>2, <3>1, <3>2, <3>3, JobConstants
  <2>4. ~ collector.over
    <3>1. collector.over => collector.epoch < epoch
      BY DEF CollectorInv, EpochKept
    <3> QED
      BY <2>2, <3>1
  <2>5. sofar \in SUBSET Slot
    BY <2>2, <2>3, SlotsAreSlots
  <2> HIDE DEF sofar
  <2>6. /\ collector'.step = "credits" /\ collector'.production = sofar
        /\ collector'.epoch = collector.epoch /\ collector'.over = collector.over
        /\ collector'.self_stake = collector.self_stake
        /\ collector' \in Collection
    BY <1>1, <2>1, <2>5 DEF Collection
  <2>7. EpochKept'
    BY <1>1, <2>2, <2>3, <2>4, <2>6 DEF EpochKept, vars, FirstSlotInEpoch, LastSlotInEpoch
  <2>8. CollectorTypeOK'
    BY <1>1, <2>6 DEF CollectorInv, CollectorTypeOK, TypeOK, vars, StoredOf
  <2> QED
    BY <1>1, <2>6, <2>7, <2>8, TotalsKept DEF CollectorInv
<1>3. CASE FirstSlotInEpoch(collector.epoch) # FirstSlotInEpoch(epoch)
  <2>1. collector' = [collector EXCEPT !.step = "history"]
    BY <1>3 DEF GetBlockProduction
  <2>2. /\ collector'.step = "history"
        /\ collector'.epoch = collector.epoch /\ collector'.over = collector.over
        /\ collector'.self_stake = collector.self_stake
        /\ collector' \in Collection
    BY <1>1, <2>1 DEF Collection
  <2>3. EpochKept'
    BY <1>1, <2>2 DEF CollectorInv, EpochKept, vars
  <2>4. CollectorTypeOK'
    BY <1>1, <2>2 DEF CollectorInv, CollectorTypeOK, TypeOK, vars, StoredOf
  <2> QED
    BY <1>1, <2>2, <2>3, <2>4, TotalsKept DEF CollectorInv
<1> QED
  BY <1>2, <1>3

(* What the slot history tells of an epoch that is over.                   *)
LEMMA HistoryCollector ==
    ASSUME JobInv, CollectorInv, GetConfirmedBlocks
    PROVE  CollectorInv'
<1> DEFINE slots == FirstSlotInEpoch(collector.epoch)..LastSlotInEpoch(collector.epoch)
<1>1. /\ collector.step = "history"
      /\ collector' = [collector EXCEPT !.step = "credits", !.production = slots]
      /\ UNCHANGED <<vars, withdrawer, authorized, steady>>
      /\ collector \in Collection
  BY DEF GetConfirmedBlocks, CollectorInv, CollectorTypeOK
<1>2. collector.epoch \in EpochId /\ collector.epoch \in Nat
  BY <1>1, CollectionTyped
<1>3. slots # {} /\ slots \in SUBSET Slot
  BY <1>2, SlotsOfEpochs, SlotsAreSlots, JobConstants
<1> HIDE DEF slots
<1>4. /\ collector'.step = "credits" /\ collector'.production = slots
      /\ collector'.epoch = collector.epoch /\ collector'.over = collector.over
      /\ collector'.self_stake = collector.self_stake
      /\ collector' \in Collection
  BY <1>1, <1>3 DEF Collection
<1>5. EpochKept'
  <2>1. slots = FirstSlotInEpoch(collector'.epoch)..LastSlotInEpoch(collector'.epoch)
    BY <1>4 DEF slots
  <2> QED
    BY <1>1, <1>3, <1>4, <2>1 DEF CollectorInv, EpochKept, vars, FirstSlotInEpoch, LastSlotInEpoch
<1>6. CollectorTypeOK'
  BY <1>1, <1>4 DEF CollectorInv, CollectorTypeOK, TypeOK, vars, StoredOf
<1> QED
  BY <1>1, <1>4, <1>5, <1>6, TotalsKept DEF CollectorInv

(* A collector that ends without a snapshot.                               *)
LEMMA NothingCollector ==
    ASSUME JobInv, CollectorInv, collector' = NoCollection,
           UNCHANGED <<vars, withdrawer, authorized, steady>>
    PROVE  CollectorInv'
<1>1. EpochKept'
  BY NothingCollected, JobTyped DEF EpochKept, vars
<1>2. CollectorTypeOK'
  BY NothingCollected DEF CollectorInv, CollectorTypeOK, TypeOK, vars, StoredOf
<1>3. steady' \subseteq StakeAccounts
  BY <1>2 DEF CollectorTypeOK
<1>4. SelfStakeOnce'
  BY <1>3, NothingCollected, NoStakeIsOnce
<1> QED
  BY <1>1, <1>2, <1>4, NothingCollected DEF CollectorInv

LEMMA RetryCollector ==
    ASSUME JobInv, CollectorInv, ProductionFails
    PROVE  CollectorInv'
<1>1. /\ collector.step \in {"production", "history"}
      /\ UNCHANGED <<vars, withdrawer, authorized, steady>>
      /\ collector \in Collection
  BY DEF ProductionFails, CollectorInv, CollectorTypeOK
<1>2. CASE collector.attempts < RpcAttempts
  <2>1. collector' = [collector EXCEPT !.step = "production", !.attempts = @ + 1]
    BY <1>2 DEF ProductionFails
  <2>2. collector.attempts + 1 \in 0..RpcAttempts
    <3>1. collector.attempts \in 0..RpcAttempts
      BY <1>1, CollectionTyped
    <3> QED
      BY <1>2, <3>1, PageConstants
  <2>3. /\ collector'.step = "production"
        /\ collector'.epoch = collector.epoch /\ collector'.over = collector.over
        /\ collector'.self_stake = collector.self_stake
        /\ collector' \in Collection
    BY <1>1, <2>1, <2>2 DEF Collection
  <2>4. EpochKept'
    BY <1>1, <2>3 DEF CollectorInv, EpochKept, vars
  <2>5. CollectorTypeOK'
    BY <1>1, <2>3 DEF CollectorInv, CollectorTypeOK, TypeOK, vars, StoredOf
  <2> QED
    BY <1>1, <2>3, <2>4, <2>5, TotalsKept DEF CollectorInv
<1>3. CASE ~ (collector.attempts < RpcAttempts)
  BY <1>1, <1>3, NothingCollector DEF ProductionFails
<1> QED
  BY <1>2, <1>3

LEMMA CreditsCollector ==
    ASSUME JobInv, CollectorInv, GetCredits
    PROVE  CollectorInv'
<1> DEFINE credits == CASE collector.epoch = epoch -> "so far"
                        [] collector.epoch \in (epoch - CreditsKept)..(epoch - 1) -> "whole"
                        [] OTHER -> "none"
<1>1. /\ collector.step = "credits"
      /\ collector' = [collector EXCEPT !.step = "printed", !.attempts = 0,
                                        !.credits = credits]
      /\ UNCHANGED <<vars, withdrawer, authorized, steady>>
      /\ collector \in Collection
  BY DEF GetCredits, CollectorInv, CollectorTypeOK
<1>2. /\ credits \in {"none", "so far", "whole"}
      /\ collector.epoch # epoch => credits # "so far"
  <2>1. CASE collector.epoch = epoch
    <3>1. collector.epoch \notin (epoch - CreditsKept)..(epoch - 1)
      BY <2>1, JobTyped
    <3> QED
      BY <2>1, <3>1
  <2>2. CASE collector.epoch # epoch
    BY <2>2
  <2> QED
    BY <2>1, <2>2
<1> HIDE DEF credits
<1>3. collector.over => collector.epoch # epoch
  <2>1. collector.epoch \in Nat /\ epoch \in Nat
    BY <1>1, JobTyped, CollectionTyped
  <2>2. collector.over => collector.epoch < epoch
    BY DEF CollectorInv, EpochKept
  <2> QED
    BY <2>1, <2>2
<1>4. /\ collector'.step = "printed" /\ collector'.credits = credits
      /\ collector'.epoch = collector.epoch /\ collector'.over = collector.over
      /\ collector'.production = collector.production
      /\ collector'.self_stake = collector.self_stake
      /\ collector' \in Collection
  <2>1. 0 \in 0..RpcAttempts
    BY PageConstants
  <2> QED
    BY <1>1, <1>2, <2>1 DEF Collection
<1>5. EpochKept'
  BY <1>1, <1>2, <1>3, <1>4 DEF CollectorInv, EpochKept, vars, FirstSlotInEpoch, LastSlotInEpoch
<1>6. CollectorTypeOK'
  BY <1>1, <1>4 DEF CollectorInv, CollectorTypeOK, TypeOK, vars, StoredOf
<1> QED
  BY <1>1, <1>4, <1>5, <1>6, TotalsKept DEF CollectorInv

LEMMA CollectorInvariance == CollectorSpec => []CollectorInv
<1>1. CollectorInit => CollectorInv
  BY CollectorInitially
<1>2. JobInv /\ CollectorInv /\ [CollectorNext]_<<vars, collectorVars>> => CollectorInv'
  <2> SUFFICES ASSUME JobInv, CollectorInv, [CollectorNext]_<<vars, collectorVars>>
               PROVE  CollectorInv'
    OBVIOUS
  <2>1. CASE Next /\ UNCHANGED collectorVars
    BY <2>1, ChainCollector
  <2>2. CASE ChangeAuthorities
    BY <2>2, AuthoritiesCollector
  <2>3. CASE \E e \in EpochId, step \in {"authorities", "production"} : GetEpochInfo(e, step)
    BY <2>3, BeginCollector
  <2>4. CASE GetWithdrawAuthorities
    BY <2>4, ListCollector
  <2>5. CASE FetchPage
    BY <2>5, PageCollector
  <2>6. CASE GetBlockProduction
    BY <2>6, ProductionCollector
  <2>7. CASE GetConfirmedBlocks
    BY <2>7, HistoryCollector
  <2>8. CASE ProductionFails
    BY <2>8, RetryCollector
  <2>9. CASE GetCredits
    BY <2>9, CreditsCollector
  <2>10. CASE CollectorFails
    BY <2>10, NothingCollector DEF CollectorFails
  <2>11. CASE UNCHANGED <<vars, collectorVars>>
    BY <2>11, ChainCollector
  <2> QED
    BY <2>1, <2>2, <2>3, <2>4, <2>5, <2>6, <2>7, <2>8, <2>9, <2>10, <2>11 DEF CollectorNext
<1> QED
  BY <1>1, <1>2, JobInvariance, PTL DEF CollectorSpec

(* A snapshot tells what happened in its own epoch, and of an epoch that   *)
(* was over in all of its slots, whenever epochs end between the requests  *)
(* of get_epoch_info, get_block_production, get_confirmed_blocks and       *)
(* get_credits, and however often they are repeated.                       *)
THEOREM SnapshotOfItsEpoch == CollectorSpec => []PerformanceOfItsEpoch
<1>1. CollectorInv => PerformanceOfItsEpoch
  BY DEF CollectorInv, EpochKept, PerformanceOfItsEpoch
<1> QED
  BY <1>1, CollectorInvariance, PTL

(* The scan of stake accounts counts none of them twice, and none is       *)
(* missed that was self stake all the time.                                *)
THEOREM SelfStakeCountedOnce == CollectorSpec => []SelfStakeOnce
<1>1. CollectorInv => SelfStakeOnce
  BY DEF CollectorInv
<1> QED
  BY <1>1, CollectorInvariance, PTL

(* Every variable of the collector holds a value of its kind.              *)
THEOREM CollectorTypeCorrect == CollectorSpec => []CollectorTypeOK
<1>1. CollectorInv => CollectorTypeOK
  BY DEF CollectorInv
<1> QED
  BY <1>1, CollectorInvariance, PTL

-----------------------------------------------------------------------------
(* Sums of stakes                                                          *)

(* A sum is what its defining equations say, whichever of the summands is  *)
(* taken first.                                                            *)
LEMMA SumIsMeasure ==
    ASSUME NEW f, NEW S, IsFiniteSet(S), NEW m \in [SUBSET S -> Nat], m[{}] = 0,
           \A s \in SUBSET S : \A x \in s : m[s] = f[x] + m[s \ {x}]
    PROVE  m[S] = SumFunctionOnSet(f, S)
<1> DEFINE some(s) == CHOOSE x \in s : TRUE
           F(it) == [s \in SUBSET S |-> IF s = {} THEN 0 ELSE f[some(s)] + it[s \ {some(s)}]]
           sum == CHOOSE it : it = F(it)
<1>1. SumFunctionOnSet(f, S) = sum[S]
  BY DEF SumFunctionOnSet, FoldFunctionOnSet, MapThenFoldSet
<1> HIDE DEF some
<1>2. \A s \in SUBSET S : s # {} => some(s) \in s
  BY DEF some
<1>3. m = F(m)
  <2>1. \A s \in SUBSET S : m[s] = IF s = {} THEN 0 ELSE f[some(s)] + m[s \ {some(s)}]
    BY <1>2
  <2> QED
    BY <2>1, Zenon
<1> HIDE DEF F
<1>4. sum = F(sum)
  BY <1>3
<1> HIDE DEF sum
<1>5. \A s \in SUBSET S :
         sum[s] = IF s = {} THEN 0 ELSE f[some(s)] + sum[s \ {some(s)}]
  <2>1. sum = [s \in SUBSET S |-> IF s = {} THEN 0 ELSE f[some(s)] + sum[s \ {some(s)}]]
    BY <1>4 DEF F
  <2> SUFFICES ASSUME NEW s \in SUBSET S
               PROVE  sum[s] = IF s = {} THEN 0 ELSE f[some(s)] + sum[s \ {some(s)}]
    OBVIOUS
  <2> QED
    BY <2>1, Zenon
<1> DEFINE Bad == {s \in SUBSET S : sum[s] # m[s]}
           Sizes == {Cardinality(s) : s \in Bad}
<1>6. Bad = {}
  <2> SUFFICES ASSUME Bad # {} PROVE FALSE
    OBVIOUS
  <2>1. \A s \in SUBSET S : IsFiniteSet(s) /\ Cardinality(s) \in Nat
    BY FS_Subset, FS_CardinalityType
  <2>2. Sizes \in SUBSET Nat /\ Sizes # {}
    BY <2>1
  <2>3. PICK s \in Bad : \A t \in Bad : Cardinality(s) <= Cardinality(t)
    <3>1. PICK n \in Sizes : \A k \in Sizes : n <= k
      BY <2>2, LeastOfNaturals
    <3>2. \A t \in Bad : Cardinality(t) \in Sizes
      OBVIOUS
    <3>3. PICK s \in Bad : Cardinality(s) = n
      BY <3>1
    <3> HIDE DEF Sizes, Bad
    <3> QED
      BY <3>1, <3>2, <3>3
  <2>4. s # {}
    BY <1>5, <2>3
  <2> DEFINE x == some(s)
             t == s \ {x}
  <2>5. x \in s /\ s \in SUBSET S /\ t \in SUBSET S
    BY <1>2, <2>3, <2>4
  <2>6. Cardinality(t) = Cardinality(s) - 1
    BY <2>1, <2>5, FS_RemoveElement
  <2>7. t \notin Bad
    <3>1. Cardinality(s) \in Nat
      BY <2>1, <2>5
    <3>2. ~ (Cardinality(s) <= Cardinality(t))
      BY <2>6, <3>1
    <3> HIDE DEF Bad, t
    <3> QED
      BY <2>3, <3>2
  <2>8. sum[t] = m[t]
    BY <2>5, <2>7
  <2>9. sum[s] = f[x] + sum[t] /\ m[s] = f[x] + m[t]
    BY <1>5, <2>4, <2>5
  <2> QED
    BY <2>3, <2>8, <2>9
<1>7. sum[S] = m[S]
  BY <1>6
<1> QED
  BY <1>1, <1>7

(* One pair for each unit of the stakes of S, so that sums are numbers of  *)
(* pairs.                                                                  *)
Units(f, S) == UNION {{x} \X (0..(f[x] - 1)) : x \in S}

LEMMA UnitsOfOne ==
    ASSUME NEW x, NEW k \in Nat
    PROVE  IsFiniteSet({x} \X (0..(k - 1))) /\ Cardinality({x} \X (0..(k - 1))) = k
<1>1. PICK b \in Int : b = k - 1
  OBVIOUS
<1>2. IsFiniteSet(0..b) /\ Cardinality(0..b) = IF 0 > b THEN 0 ELSE b - 0 + 1
  <2>1. 0 \in Int
    OBVIOUS
  <2> QED
    BY <2>1, FS_Interval
<1>3. (IF 0 > b THEN 0 ELSE b - 0 + 1) = k
  BY <1>1
<1>4. IsFiniteSet({x}) /\ Cardinality({x}) = 1
  BY FS_Singleton
<1>5. IsFiniteSet(0..b) /\ Cardinality(0..b) = k
  BY <1>2, <1>3
<1>6. /\ IsFiniteSet({x} \X (0..b))
      /\ Cardinality({x} \X (0..b)) = Cardinality({x}) * Cardinality(0..b)
  BY <1>4, <1>5, FS_Product, Zenon
<1> QED
  BY <1>1, <1>4, <1>5, <1>6

LEMMA UnitsFinite ==
    ASSUME NEW S, IsFiniteSet(S), NEW f, \A x \in S : f[x] \in Nat
    PROVE  IsFiniteSet(Units(f, S))
<1> DEFINE all == {{x} \X (0..(f[x] - 1)) : x \in S}
           unit == [x \in S |-> {x} \X (0..(f[x] - 1))]
<1>1. unit \in Surjection(S, all)
  BY DEF Surjection
<1>2. ASSUME NEW T \in all PROVE IsFiniteSet(T)
  <2>1. PICK x \in S : T = {x} \X (0..(f[x] - 1))
    OBVIOUS
  <2>2. IsFiniteSet({x} \X (0..(f[x] - 1)))
    BY UnitsOfOne
  <2> QED
    BY <2>1, <2>2
<1> HIDE DEF all, unit
<1>3. IsFiniteSet(all)
  BY <1>1, FS_Surjection
<1>4. IsFiniteSet(UNION all)
  BY <1>2, <1>3, FS_UNION
<1> QED
  BY <1>4 DEF all, Units

LEMMA SumCountsUnits ==
    ASSUME NEW S, IsFiniteSet(S), NEW f, \A x \in S : f[x] \in Nat
    PROVE  /\ SumFunctionOnSet(f, S) = Cardinality(Units(f, S))
           /\ Cardinality(Units(f, {})) = 0
           /\ \A x \in S : Cardinality(Units(f, S)) = f[x] + Cardinality(Units(f, S \ {x}))
<1> DEFINE m == [s \in SUBSET S |-> Cardinality(Units(f, s))]
<1>1. \A s \in SUBSET S : IsFiniteSet(Units(f, s)) /\ Cardinality(Units(f, s)) \in Nat
  <2> TAKE s \in SUBSET S
  <2>1. IsFiniteSet(s) /\ \A x \in s : f[x] \in Nat
    BY FS_Subset
  <2> QED
    BY <2>1, UnitsFinite, FS_CardinalityType
<1>2. Cardinality(Units(f, {})) = 0
  <2>1. Units(f, {}) = {}
    BY DEF Units
  <2> QED
    BY <2>1, FS_EmptySet
<1>3. ASSUME NEW s \in SUBSET S, NEW x \in s
      PROVE  Cardinality(Units(f, s)) = f[x] + Cardinality(Units(f, s \ {x}))
  <2> DEFINE own == {x} \X (0..(f[x] - 1))
             rest == Units(f, s \ {x})
  <2>1. IsFiniteSet(own) /\ Cardinality(own) = f[x] /\ f[x] \in Nat
    BY UnitsOfOne
  <2>2. IsFiniteSet(rest) /\ Cardinality(rest) \in Nat
    BY <1>1
  <2>3. own \cap rest = {} /\ Units(f, s) = own \cup rest
    BY DEF Units
  <2> HIDE DEF own, rest
  <2>4. Cardinality(own \cup rest)
            = Cardinality(own) + Cardinality(rest) - Cardinality(own \cap rest)
    BY <2>1, <2>2, FS_Union
  <2>5. Cardinality(own \cap rest) = 0
    BY <2>3, FS_EmptySet
  <2> QED
    BY <2>1, <2>2, <2>3, <2>4, <2>5 DEF rest
<1>4. \A s \in SUBSET S : \A x \in s : m[s] = f[x] + m[s \ {x}]
  <2>1. \A s \in SUBSET S : \A x \in s : s \ {x} \in SUBSET S
    OBVIOUS
  <2> QED
    BY <1>3, <2>1
<1>5. m \in [SUBSET S -> Nat] /\ m[{}] = 0 /\ m[S] = Cardinality(Units(f, S))
  BY <1>1, <1>2
<1> HIDE DEF m
<1>6. SumFunctionOnSet(f, S) = m[S]
  BY <1>4, <1>5, SumIsMeasure
<1> QED
  BY <1>2, <1>3, <1>5, <1>6

(* Sums of stakes are numbers; they grow with the accounts, and by the     *)
(* stake of an account.                                                    *)
LEMMA SumsOfStakes ==
    ASSUME NEW D, IsFiniteSet(D), NEW f \in [D -> Nat], NEW S \in SUBSET D
    PROVE  /\ SumFunctionOnSet(f, S) \in Nat
           /\ SumFunctionOnSet(f, {}) = 0
           /\ \A T \in SUBSET S : SumFunctionOnSet(f, T) <= SumFunctionOnSet(f, S)
           /\ \A x \in S : SumFunctionOnSet(f, S) = f[x] + SumFunctionOnSet(f, S \ {x})
<1>1. \A s \in SUBSET D : IsFiniteSet(s) /\ (\A x \in s : f[x] \in Nat)
  BY FS_Subset
<1>2. \A s \in SUBSET D :
         /\ SumFunctionOnSet(f, s) = Cardinality(Units(f, s))
         /\ Cardinality(Units(f, {})) = 0
         /\ \A x \in s : Cardinality(Units(f, s)) = f[x] + Cardinality(Units(f, s \ {x}))
  BY <1>1, SumCountsUnits
<1>3. \A s \in SUBSET D : IsFiniteSet(Units(f, s)) /\ Cardinality(Units(f, s)) \in Nat
  BY <1>1, UnitsFinite, FS_CardinalityType
<1>4. \A T \in SUBSET S : Cardinality(Units(f, T)) <= Cardinality(Units(f, S))
  <2>1. \A T \in SUBSET S : Units(f, T) \in SUBSET Units(f, S)
    BY DEF Units
  <2> QED
    BY <1>3, <2>1, FS_Subset
<1> QED
  BY <1>2, <1>3, <1>4

-----------------------------------------------------------------------------
(* Superminority                                                           *)

(* The accounts of a set of places in an order, up to one of them          *)
Upto(order, s, k) == {order[i] : i \in {j \in s : j <= k}}

(* The places at which the stakes so far exceed a third                    *)
Exceeding(stakes, order, s) ==
    {k \in s : SumFunctionOnSet(stakes, Upto(order, s, k)) > TotalStake(stakes) \div 3}

(* The place at which the loop over the places s breaks or ends            *)
BreaksAt(stakes, order, s) ==
    IF Exceeding(stakes, order, s) # {} THEN Min(Exceeding(stakes, order, s)) ELSE Max(s)

(* What the loop has then                                                  *)
LoopOver(stakes, order, s) ==
    IF s = {}
    THEN [accumulated |-> 0, last_stake |-> 0]
    ELSE [accumulated |-> SumFunctionOnSet(stakes, Upto(order, s, BreaksAt(stakes, order, s))),
          last_stake |-> stakes[order[BreaksAt(stakes, order, s)]]]

InOrder(D, stakes, n, order) ==
    /\ IsFiniteSet(D) /\ stakes \in [D -> Nat]
    /\ order \in [1..n -> D]
    /\ \A i, j \in 1..n : i # j => order[i] # order[j]

LEMMA BreaksAtPlace ==
    ASSUME NEW n \in Nat, NEW D, NEW stakes, NEW order, InOrder(D, stakes, n, order),
           NEW s \in SUBSET (1..n), s # {}
    PROVE  LET over == Exceeding(stakes, order, s)
               at == BreaksAt(stakes, order, s)
           IN /\ Max(s) \in s /\ \A k \in s : k <= Max(s)
              /\ at \in s
              /\ over # {} => at \in over /\ \A k \in over : at <= k
              /\ over = {} => at = Max(s)
<1>1. s \in SUBSET (0..n) /\ s \in SUBSET Nat
  OBVIOUS
<1>2. Max(s) \in s /\ \A k \in s : k <= Max(s)
  BY <1>1, GreatestBelow
<1> DEFINE over == Exceeding(stakes, order, s)
<1>3. over \in SUBSET s
  BY DEF Exceeding
<1>4. CASE over = {}
  BY <1>2, <1>4 DEF BreaksAt
<1>5. CASE over # {}
  <2>1. BreaksAt(stakes, order, s) = Min(over)
    BY <1>5 DEF BreaksAt
  <2> HIDE DEF over
  <2>2. over \in SUBSET Nat
    BY <1>1, <1>3
  <2>3. PICK k \in over : \A j \in over : k <= j
    BY <1>5, <2>2, LeastOfNaturals
  <2>4. Min(over) \in over /\ \A j \in over : Min(over) <= j
    BY <2>3 DEF Min
  <2> QED
    BY <1>2, <1>3, <1>5, <2>1, <2>4 DEF over
<1> QED
  BY <1>4, <1>5

(* The sums of the stakes in an order *)
LEMMA SumsInOrder ==
    ASSUME NEW n \in Nat, NEW D, NEW stakes, NEW order, InOrder(D, stakes, n, order),
           NEW s \in SUBSET (1..n), NEW k \in s
    PROVE  /\ Upto(order, s, k) \in SUBSET D
           /\ SumFunctionOnSet(stakes, Upto(order, s, k)) \in Nat
           /\ TotalStake(stakes) \in Nat /\ TotalStake(stakes) \div 3 \in Nat
           /\ TotalStake(stakes) = SumFunctionOnSet(stakes, D)
           /\ order[k] \in D /\ stakes[order[k]] \in Nat
<1>1. /\ IsFiniteSet(D) /\ stakes \in [D -> Nat] /\ order \in [1..n -> D] /\ DOMAIN stakes = D
  BY DEF InOrder
<1>2. Upto(order, s, k) \in SUBSET D
  BY <1>1 DEF Upto
<1>3. SumFunctionOnSet(stakes, Upto(order, s, k)) \in Nat /\ SumFunctionOnSet(stakes, D) \in Nat
  BY <1>1, <1>2, SumsOfStakes
<1>4. TotalStake(stakes) = SumFunctionOnSet(stakes, D)
  BY <1>1 DEF TotalStake, SumFunction
<1> QED
  BY <1>1, <1>2, <1>3, <1>4

(* One turn of the loop *)
LEMMA LoopTurns ==
    ASSUME NEW n \in Nat, NEW D, NEW stakes, NEW order, InOrder(D, stakes, n, order),
           NEW s \in SUBSET (1..n), s # {}
    PROVE  LoopOver(stakes, order, s) =
               AddStake(TotalStake(stakes) \div 3, LoopOver(stakes, order, s \ {Max(s)}),
                        stakes[order[Max(s)]])
<1> DEFINE third == TotalStake(stakes) \div 3
           x == Max(s)
           t == s \ {x}
           sum(k) == SumFunctionOnSet(stakes, Upto(order, s, k))
<1>1. /\ x \in s /\ \A k \in s : k <= x /\ k \in Nat
      /\ \A k \in t : k < x /\ k \in s
      /\ t \in SUBSET (1..n)
  <2>1. x \in s /\ \A k \in s : k <= x
    BY BreaksAtPlace
  <2> HIDE DEF x
  <2> QED
    BY <2>1
<1>2. third \in Nat /\ \A k \in s : sum(k) \in Nat
  BY <1>1, SumsInOrder
<1> HIDE DEF x, third
<1>3. \A k \in t : Upto(order, t, k) = Upto(order, s, k)
  BY <1>1 DEF Upto
<1>4. /\ Exceeding(stakes, order, t) = {k \in t : sum(k) > third}
      /\ Exceeding(stakes, order, s) = {k \in s : sum(k) > third}
  BY <1>3 DEF Exceeding, third
<1>5. sum(x) = stakes[order[x]] + SumFunctionOnSet(stakes, {order[i] : i \in t})
  <2> DEFINE all == {order[i] : i \in s}
             rest == {order[i] : i \in t}
  <2>1. Upto(order, s, x) = all
    BY <1>1 DEF Upto
  <2>2. rest = all \ {order[x]} /\ order[x] \in all
    <3>1. \A i \in t : order[i] # order[x]
      BY <1>1 DEF InOrder
    <3> QED
      BY <1>1, <3>1
  <2>3. all \in SUBSET D /\ IsFiniteSet(D) /\ stakes \in [D -> Nat]
    BY DEF InOrder
  <2> HIDE DEF all, rest
  <2>4. SumFunctionOnSet(stakes, all) = stakes[order[x]] + SumFunctionOnSet(stakes, all \ {order[x]})
    BY <2>2, <2>3, SumsOfStakes
  <2> QED
    BY <2>1, <2>2, <2>4 DEF rest
<1>6. CASE t = {}
  <2>1. s = {x}
    BY <1>1, <1>6
  <2>2. BreaksAt(stakes, order, s) = x
    <3>1. BreaksAt(stakes, order, s) \in s
      BY BreaksAtPlace
    <3> QED
      BY <2>1, <3>1
  <2>3. sum(x) = stakes[order[x]] + 0 /\ stakes[order[x]] \in Nat
    <3>1. {order[i] : i \in t} = {}
      BY <1>6
    <3>2. SumFunctionOnSet(stakes, {}) = 0
      BY SumsOfStakes DEF InOrder
    <3>3. stakes[order[x]] \in Nat
      BY <1>1, SumsInOrder
    <3> QED
      BY <1>5, <3>1, <3>2, <3>3
  <2>4. LoopOver(stakes, order, t) = [accumulated |-> 0, last_stake |-> 0]
    BY <1>6 DEF LoopOver
  <2>5. LoopOver(stakes, order, s) = [accumulated |-> sum(x), last_stake |-> stakes[order[x]]]
    BY <2>2 DEF LoopOver
  <2>6. AddStake(third, [accumulated |-> 0, last_stake |-> 0], stakes[order[x]])
            = [accumulated |-> 0 + stakes[order[x]], last_stake |-> stakes[order[x]]]
    BY <1>2 DEF AddStake
  <2> QED
    BY <2>3, <2>4, <2>5, <2>6 DEF x, third
<1>7. CASE t # {} /\ Exceeding(stakes, order, t) # {}
  <2> DEFINE at == BreaksAt(stakes, order, t)
             over == Exceeding(stakes, order, t)
  <2>1. at \in over /\ \A k \in over : at <= k
    BY <1>1, <1>7, BreaksAtPlace
  <2> HIDE DEF at, over
  <2>2. at \in t /\ sum(at) > third
    BY <1>4, <2>1 DEF over
  <2>3. BreaksAt(stakes, order, s) = at
    <3> DEFINE later == BreaksAt(stakes, order, s)
    <3>1. at \in Exceeding(stakes, order, s)
      BY <1>1, <1>4, <2>2
    <3>2. later \in Exceeding(stakes, order, s) /\ later <= at
      BY <3>1, BreaksAtPlace
    <3> HIDE DEF later
    <3>3. later \in s /\ sum(later) > third /\ later # x
      BY <1>1, <1>4, <2>2, <3>2
    <3>4. later \in over
      BY <1>4, <3>3 DEF over
    <3>5. later \in Nat /\ at \in Nat /\ at <= later
      BY <1>1, <2>1, <2>2, <3>3, <3>4
    <3>6. later = at
      BY <3>2, <3>5
    <3> QED
      BY <3>6 DEF later
  <2>4. LoopOver(stakes, order, t) = [accumulated |-> sum(at), last_stake |-> stakes[order[at]]]
    BY <1>3, <1>7, <2>2 DEF LoopOver, at
  <2>5. LoopOver(stakes, order, s) = [accumulated |-> sum(at), last_stake |-> stakes[order[at]]]
    BY <2>3 DEF LoopOver
  <2>6. AddStake(third, LoopOver(stakes, order, t), stakes[order[x]]) = LoopOver(stakes, order, t)
    BY <2>2, <2>4 DEF AddStake
  <2> QED
    BY <2>4, <2>5, <2>6 DEF x, third
<1>8. CASE t # {} /\ Exceeding(stakes, order, t) = {}
  <2> DEFINE y == Max(t)
  <2>1. y \in t /\ (\A k \in t : k <= y) /\ BreaksAt(stakes, order, t) = y
    BY <1>1, <1>8, BreaksAtPlace
  <2> HIDE DEF y
  <2>2. ~ (sum(y) > third) /\ sum(y) \in Nat
    BY <1>1, <1>2, <1>4, <1>8, <2>1
  <2>3. Upto(order, s, y) = {order[i] : i \in t}
    BY <1>1, <2>1 DEF Upto
  <2>4. BreaksAt(stakes, order, s) = x
    <3>1. Exceeding(stakes, order, s) \in SUBSET {x}
      BY <1>4, <1>8
    <3>2. Exceeding(stakes, order, s) # {} => BreaksAt(stakes, order, s) \in {x}
      BY <3>1, BreaksAtPlace
    <3> QED
      BY <3>2, BreaksAtPlace DEF x
  <2>5. LoopOver(stakes, order, t) = [accumulated |-> sum(y), last_stake |-> stakes[order[y]]]
    BY <1>3, <1>8, <2>1 DEF LoopOver
  <2>6. LoopOver(stakes, order, s) = [accumulated |-> sum(x), last_stake |-> stakes[order[x]]]
    BY <2>4 DEF LoopOver
  <2>7. AddStake(third, LoopOver(stakes, order, t), stakes[order[x]])
            = [accumulated |-> sum(y) + stakes[order[x]], last_stake |-> stakes[order[x]]]
    BY <2>2, <2>5 DEF AddStake
  <2>8. sum(x) = sum(y) + stakes[order[x]]
    <3>1. stakes[order[x]] \in Nat
      BY <1>1, SumsInOrder
    <3> QED
      BY <1>5, <2>2, <2>3, <3>1
  <2> QED
    BY <2>6, <2>7, <2>8 DEF x, third
<1> QED
  BY <1>6, <1>7, <1>8

(* The loop over all places *)
LEMMA MinimumIsWhereItBreaks ==
    ASSUME NEW n \in Nat, NEW D, NEW stakes, NEW order, InOrder(D, stakes, n, order)
    PROVE  get_minimum_superminority_stake(stakes, order)
               = LoopOver(stakes, order, 1..n).last_stake
<1> DEFINE third == TotalStake(stakes) \div 3
           start == [accumulated |-> 0, last_stake |-> 0]
           F(it) == [s \in SUBSET (1..n) |->
                        IF s = {} THEN start
                        ELSE AddStake(third, it[s \ {Max(s)}], stakes[order[Max(s)]])]
           loop == CHOOSE it : it = F(it)
           m == [s \in SUBSET (1..n) |-> LoopOver(stakes, order, s)]
<1>1. DOMAIN order = 1..n
  BY DEF InOrder
<1>2. get_minimum_superminority_stake(stakes, order) = loop[1..n].last_stake
  BY <1>1 DEF get_minimum_superminority_stake, FoldLeft, MapThenFoldSet
<1>3. m = F(m)
  <2>1. \A s \in SUBSET (1..n) :
           m[s] = IF s = {} THEN start
                  ELSE AddStake(third, m[s \ {Max(s)}], stakes[order[Max(s)]])
    <3> TAKE s \in SUBSET (1..n)
    <3>1. CASE s = {}
      BY <3>1 DEF LoopOver
    <3>2. CASE s # {}
      <4>1. s \ {Max(s)} \in SUBSET (1..n)
        OBVIOUS
      <4>2. m[s] = LoopOver(stakes, order, s)
            /\ m[s \ {Max(s)}] = LoopOver(stakes, order, s \ {Max(s)})
        BY <4>1
      <4>3. LoopOver(stakes, order, s)
                = AddStake(third, LoopOver(stakes, order, s \ {Max(s)}), stakes[order[Max(s)]])
        BY <3>2, LoopTurns
      <4> HIDE DEF m, third, start
      <4> QED
        BY <3>2, <4>2, <4>3
    <3> QED
      BY <3>1, <3>2
  <2> QED
    BY <2>1, Zenon
<1> HIDE DEF F
<1>4. loop = F(loop)
  BY <1>3
<1> HIDE DEF loop
<1>5. \A s \in SUBSET (1..n) :
         loop[s] = IF s = {} THEN start
                   ELSE AddStake(third, loop[s \ {Max(s)}], stakes[order[Max(s)]])
  <2>1. loop = [s \in SUBSET (1..n) |->
                   IF s = {} THEN start
                   ELSE AddStake(third, loop[s \ {Max(s)}], stakes[order[Max(s)]])]
    BY <1>4 DEF F
  <2> SUFFICES ASSUME NEW s \in SUBSET (1..n)
               PROVE  loop[s] = IF s = {} THEN start
                                ELSE AddStake(third, loop[s \ {Max(s)}], stakes[order[Max(s)]])
    OBVIOUS
  <2> HIDE DEF start, third
  <2> QED
    BY <2>1, Zenon
<1> DEFINE Bad == {k \in 0..n : loop[1..k] # LoopOver(stakes, order, 1..k)}
<1>6. Bad = {}
  <2> SUFFICES ASSUME Bad # {} PROVE FALSE
    OBVIOUS
  <2>1. Bad \in SUBSET Nat
    OBVIOUS
  <2>2. PICK k \in Bad : \A j \in Bad : k <= j
    BY <2>1, LeastOfNaturals
  <2>3. k \in 0..n /\ 1..k \in SUBSET (1..n) /\ loop[1..k] # LoopOver(stakes, order, 1..k)
    BY <2>2
  <2>4. CASE k = 0
    <3>1. 1..k = {}
      BY <2>4
    <3> QED
      BY <1>5, <2>3, <3>1 DEF LoopOver
  <2>5. CASE k # 0
    <3>1. k \in 1..k /\ \A j \in 1..k : j <= k
      BY <2>3, <2>5
    <3>2. Max(1..k) = k
      BY <3>1 DEF Max
    <3>3. (1..k) \ {k} = 1..(k - 1) /\ k - 1 \in 0..n /\ ~ (k <= k - 1)
      BY <2>3, <2>5
    <3>4. k - 1 \notin Bad
      BY <2>2, <3>3
    <3>5. loop[1..(k - 1)] = LoopOver(stakes, order, 1..(k - 1))
      BY <3>3, <3>4
    <3>6. loop[1..k] = AddStake(third, loop[1..(k - 1)], stakes[order[k]])
      <4>1. 1..k # {}
        BY <3>1
      <4> HIDE DEF third, start
      <4> QED
        BY <1>5, <2>3, <3>2, <3>3, <4>1
    <3>7. LoopOver(stakes, order, 1..k)
              = AddStake(third, LoopOver(stakes, order, 1..(k - 1)), stakes[order[k]])
      BY <2>3, <3>1, <3>2, <3>3, LoopTurns
    <3> QED
      BY <2>3, <3>5, <3>6, <3>7
  <2> QED
    BY <2>4, <2>5
<1>7. loop[1..n] = LoopOver(stakes, order, 1..n)
  <2>1. n \in 0..n /\ n \notin Bad
    BY <1>6
  <2> QED
    BY <2>1
<1> QED
  BY <1>2, <1>7

(* The order of a list that is sorted by stake is a numbering of accounts. *)
LEMMA OrderOfAll ==
    ASSUME NEW D, IsFiniteSet(D), NEW stakes \in [D -> Nat], NEW order \in LargestFirst(stakes),
           NEW n \in Nat, n = Cardinality(D)
    PROVE  /\ InOrder(D, stakes, n, order)
           /\ \A i, j \in 1..n : i < j => stakes[order[i]] >= stakes[order[j]]
           /\ \A v \in D : \E i \in 1..n : v = order[i]
<1>1. /\ DOMAIN stakes = D
      /\ order \in [1..n -> D] /\ \A i, j \in 1..n : i # j => order[i] # order[j]
      /\ \A i, j \in 1..n : i < j => stakes[order[i]] >= stakes[order[j]]
  BY DEF LargestFirst, SetToSeqs
<1>2. order \in Injection(1..n, D)
  BY <1>1 DEF Injection, IsInjective
<1>3. IsFiniteSet(1..n) /\ Cardinality(1..n) = n
  <2>1. 1 \in Int /\ n \in Int /\ (IF 1 > n THEN 0 ELSE n - 1 + 1) = n
    OBVIOUS
  <2>2. IsFiniteSet(1..n) /\ Cardinality(1..n) = IF 1 > n THEN 0 ELSE n - 1 + 1
    BY <2>1, FS_Interval, Zenon
  <2> QED
    BY <2>1, <2>2
<1>4. order \in Surjection(1..n, D)
  BY <1>2, <1>3, FS_Injection
<1> QED
  BY <1>1, <1>4 DEF InOrder, Surjection

(* Where there is any stake, the loop ends at an account with the least    *)
(* stake, behind others that have as much or more and no more than a third *)
(* together, though more than a third with it; all others have as much or  *)
(* less.                                                                   *)
EndsAt(D, stakes, least, before, last) ==
    /\ before \in SUBSET D /\ last \in D \ before
    /\ least = stakes[last]
    /\ \A v \in before : stakes[v] >= least
    /\ \A v \in D \ before : stakes[v] <= least
    /\ ~ HoldsThird(stakes, before)
    /\ HoldsThird(stakes, before \cup {last})

LEMMA LoopEndsAt ==
    ASSUME NEW D, IsFiniteSet(D), NEW stakes \in [D -> Nat], NEW order \in LargestFirst(stakes),
           SumFunctionOnSet(stakes, D) > 0
    PROVE  \E before, last :
               EndsAt(D, stakes, get_minimum_superminority_stake(stakes, order), before, last)
<1>1. PICK n \in Nat : n = Cardinality(D)
  BY FS_CardinalityType
<1>2. /\ InOrder(D, stakes, n, order)
      /\ \A i, j \in 1..n : i < j => stakes[order[i]] >= stakes[order[j]]
      /\ \A v \in D : \E i \in 1..n : v = order[i]
  BY <1>1, OrderOfAll
<1>3. /\ DOMAIN stakes = D /\ order \in [1..n -> D]
      /\ \A i, j \in 1..n : i # j => order[i] # order[j]
  BY <1>2 DEF InOrder
<1> DEFINE sum(S) == SumFunctionOnSet(stakes, S)
           least == get_minimum_superminority_stake(stakes, order)
           total == sum(D)
           third == TotalStake(stakes) \div 3
           s == 1..n
           over == Exceeding(stakes, order, s)
           at == BreaksAt(stakes, order, s)
           before == {order[i] : i \in {i \in s : i < at}}
           last == order[at]
<1>4. least = LoopOver(stakes, order, s).last_stake
  BY <1>2, MinimumIsWhereItBreaks
<1>5. /\ total \in Nat /\ third = total \div 3 /\ sum({}) = 0
      /\ \A T \in SUBSET D : sum(T) \in Nat
  <2>1. TotalStake(stakes) = total
    BY <1>3 DEF TotalStake, SumFunction
  <2> QED
    BY <2>1, SumsOfStakes
<1> HIDE DEF least, third
<1>6. total > third /\ 3 * third <= total /\ total < 3 * third + 3 /\ third \in Nat
  BY <1>5
<1>7. n \in s
  <2> SUFFICES ASSUME n = 0 PROVE FALSE
    OBVIOUS
  <2>1. D = {}
    BY <1>2
  <2> QED
    BY <1>5, <2>1
<1>8. n \in over
  <2>1. Upto(order, s, n) = D
    <3>1. Upto(order, s, n) \subseteq D
      BY <1>3 DEF Upto
    <3>2. D \subseteq Upto(order, s, n)
      BY <1>2 DEF Upto
    <3> QED
      BY <3>1, <3>2
  <2> QED
    BY <1>6, <1>7, <2>1 DEF Exceeding, third
<1>9. at \in over /\ (\A k \in over : at <= k) /\ at \in s
  BY <1>2, <1>7, <1>8, BreaksAtPlace
<1>10. least = stakes[last]
  BY <1>4, <1>7 DEF LoopOver
<1> HIDE DEF at, over
<1>11. at \in Nat /\ at >= 1 /\ at <= n
  BY <1>9
<1>12. /\ Upto(order, s, at) = before \cup {last}
       /\ before \in SUBSET D /\ last \in D \ before
  <2>1. \A i \in s : i <= at <=> i < at \/ i = at
    BY <1>11
  <2>2. \A i \in s : i < at => i # at
    BY <1>11
  <2> QED
    BY <1>3, <1>9, <2>1, <2>2 DEF Upto
<1>13. HoldsThird(stakes, before \cup {last})
  <2>1. sum(Upto(order, s, at)) > third
    BY <1>9 DEF over, Exceeding, third
  <2>2. sum(before \cup {last}) \in Nat
    BY <1>5, <1>12
  <2> HIDE DEF before, last, s
  <2>3. 3 * sum(before \cup {last}) > total
    BY <1>5, <1>6, <1>12, <2>1, <2>2
  <2> QED
    BY <1>3, <2>3 DEF HoldsThird
<1>14. ~ HoldsThird(stakes, before)
  <2>1. CASE at = 1
    <3>1. before = {}
      BY <2>1
    <3>2. sum(before) = 0
      BY <1>5, <3>1
    <3> HIDE DEF before, sum
    <3>3. ~ (3 * sum(before) > total)
      BY <1>5, <3>2
    <3> QED
      BY <1>3, <3>3 DEF HoldsThird, sum
  <2>2. CASE at # 1
    <3>1. at - 1 \in s /\ ~ (at <= at - 1)
      BY <1>11, <2>2
    <3>2. at - 1 \notin over
      BY <1>9, <3>1
    <3>3. Upto(order, s, at - 1) = before
      <4>1. \A i \in s : i <= at - 1 <=> i < at
        BY <1>11
      <4> QED
        BY <4>1 DEF Upto
    <3>4. ~ (sum(before) > third)
      BY <3>1, <3>2, <3>3 DEF over, Exceeding, third
    <3>5. sum(before) \in Nat
      BY <1>5, <1>12
    <3> HIDE DEF before
    <3>6. ~ (3 * sum(before) > total)
      BY <1>5, <1>6, <3>4, <3>5
    <3> QED
      BY <1>3, <3>6 DEF HoldsThird
  <2> QED
    BY <2>1, <2>2
<1>15. \A v \in before : stakes[v] >= least
  BY <1>2, <1>9, <1>10
<1>16. \A v \in D \ before : stakes[v] <= least
  <2> SUFFICES ASSUME NEW v \in D \ before PROVE stakes[v] <= least
    OBVIOUS
  <2>1. PICK i \in 1..n : v = order[i]
    BY <1>2
  <2>2. i = at \/ at < i
    BY <1>11, <2>1
  <2>3. stakes[v] \in Nat
    OBVIOUS
  <2> QED
    BY <1>2, <1>9, <1>10, <2>1, <2>2, <2>3
<1>17. EndsAt(D, stakes, least, before, last)
  BY <1>10, <1>12, <1>13, <1>14, <1>15, <1>16, Zenon DEF EndsAt
<1> QED
  BY <1>17 DEF least

(* Stakes of c at most, or at least, have so many units.                   *)
LEMMA UnitsUnderLine ==
    ASSUME NEW S, IsFiniteSet(S), NEW f, NEW c \in Nat, \A x \in S : f[x] \in Nat
    PROVE  /\ (\A x \in S : f[x] <= c) => Cardinality(Units(f, S)) <= Cardinality(S) * c
           /\ (\A x \in S : f[x] >= c) => Cardinality(Units(f, S)) >= Cardinality(S) * c
<1>1. PICK b \in Int : b = c - 1
  OBVIOUS
<1>2. IsFiniteSet(0..b) /\ Cardinality(0..b) = c
  <2>1. IsFiniteSet(0..b) /\ Cardinality(0..b) = IF 0 > b THEN 0 ELSE b - 0 + 1
    <3>1. 0 \in Int
      OBVIOUS
    <3> QED
      BY <3>1, FS_Interval
  <2> QED
    BY <1>1, <2>1
<1>3. IsFiniteSet(S \X (0..b)) /\ Cardinality(S \X (0..b)) = Cardinality(S) * c
  BY <1>2, FS_Product
<1>4. IsFiniteSet(Units(f, S))
  BY UnitsFinite
<1>5. ASSUME \A x \in S : f[x] <= c PROVE Units(f, S) \in SUBSET (S \X (0..b))
  <2>1. \A x \in S : 0..(f[x] - 1) \subseteq 0..b
    BY <1>1, <1>5
  <2> QED
    BY <2>1 DEF Units
<1>6. ASSUME \A x \in S : f[x] >= c PROVE S \X (0..b) \in SUBSET Units(f, S)
  <2>1. \A x \in S : 0..b \subseteq 0..(f[x] - 1)
    BY <1>1, <1>6
  <2> QED
    BY <2>1 DEF Units
<1>7. (\A x \in S : f[x] <= c) => Cardinality(Units(f, S)) <= Cardinality(S) * c
  BY <1>3, <1>5, FS_Subset
<1>8. (\A x \in S : f[x] >= c) => Cardinality(Units(f, S)) >= Cardinality(S) * c
  <2>1. SUFFICES ASSUME \A x \in S : f[x] >= c
                 PROVE  Cardinality(S) * c <= Cardinality(Units(f, S))
    BY <1>3, <1>4, FS_CardinalityType
  <2> QED
    BY <1>3, <1>4, <1>6, <2>1, FS_Subset
<1> QED
  BY <1>7, <1>8

(* S is in two parts, whose members and units add up.                      *)
AddsUp(f, S, A, B) ==
    /\ SumFunctionOnSet(f, S) = Cardinality(Units(f, A)) + Cardinality(Units(f, B))
    /\ Cardinality(S) = Cardinality(A) + Cardinality(B)
    /\ IsFiniteSet(A) /\ IsFiniteSet(B)
    /\ Cardinality(A) \in Nat /\ Cardinality(B) \in Nat
    /\ Cardinality(Units(f, A)) \in Nat /\ Cardinality(Units(f, B)) \in Nat

LEMMA SumOfParts ==
    ASSUME NEW D, IsFiniteSet(D), NEW f \in [D -> Nat], NEW S \in SUBSET D, NEW T
    PROVE  AddsUp(f, S, S \cap T, S \ T)
<1> DEFINE A == S \cap T
           B == S \ T
<1>1. IsFiniteSet(S) /\ IsFiniteSet(A) /\ IsFiniteSet(B)
  BY FS_Subset, A \in SUBSET D, B \in SUBSET D
<1>2. A \cup B = S /\ A \cap B = {}
  OBVIOUS
<1>3. \A x \in S : f[x] \in Nat
  OBVIOUS
<1>4. IsFiniteSet(Units(f, A)) /\ IsFiniteSet(Units(f, B))
  BY <1>1, <1>3, UnitsFinite
<1>5. Units(f, A) \cup Units(f, B) = Units(f, S) /\ Units(f, A) \cap Units(f, B) = {}
  BY DEF Units
<1> HIDE DEF A, B
<1>6. /\ Cardinality(A) \in Nat /\ Cardinality(B) \in Nat
      /\ Cardinality(Units(f, A)) \in Nat /\ Cardinality(Units(f, B)) \in Nat
      /\ Cardinality({}) = 0
  BY <1>1, <1>4, FS_CardinalityType, FS_EmptySet
<1>7. Cardinality(A \cup B) = Cardinality(A) + Cardinality(B) - Cardinality(A \cap B)
  BY <1>1, FS_Union
<1>8. Cardinality(Units(f, A) \cup Units(f, B))
          = Cardinality(Units(f, A)) + Cardinality(Units(f, B))
              - Cardinality(Units(f, A) \cap Units(f, B))
  BY <1>4, FS_Union
<1>9. SumFunctionOnSet(f, S) = Cardinality(Units(f, S))
  BY <1>1, <1>3, SumCountsUnits
<1>10. /\ Cardinality(A \cup B) = Cardinality(S) /\ Cardinality(A \cap B) = 0
       /\ Cardinality(Units(f, A) \cup Units(f, B)) = SumFunctionOnSet(f, S)
       /\ Cardinality(Units(f, A) \cap Units(f, B)) = 0
  BY <1>2, <1>5, <1>6, <1>9, Zenon
<1>11. /\ SumFunctionOnSet(f, S) = Cardinality(Units(f, A)) + Cardinality(Units(f, B))
       /\ Cardinality(S) = Cardinality(A) + Cardinality(B)
  BY <1>6, <1>7, <1>8, <1>10
<1> QED
  BY <1>1, <1>6, <1>11 DEF AddsUp, A, B

(* The provers do not find this by themselves.                             *)
LEMMA ProductsGrow ==
    ASSUME NEW a \in Nat, NEW b \in Nat, NEW c \in Nat, a <= b
    PROVE  a * c <= b * c
<1>1. PICK d \in Nat : b = a + d
  <2>1. b - a \in Nat /\ b = a + (b - a)
    OBVIOUS
  <2> QED
    BY <2>1
<1>2. b * c = a * c + d * c /\ d * c \in Nat /\ a * c \in Nat
  BY <1>1
<1> QED
  BY <1>2

(* The stakes of two groups: the largest hold no less than others that are *)
(* no more, member by member of those they do not share.                   *)
LEMMA LargestHoldMost ==
    ASSUME NEW D, IsFiniteSet(D), NEW stakes \in [D -> Nat], NEW c \in Nat,
           NEW largest \in SUBSET D, NEW others \in SUBSET D,
           Cardinality(others) <= Cardinality(largest),
           \A v \in largest : stakes[v] >= c,
           \A v \in D \ largest : stakes[v] <= c
    PROVE  SumFunctionOnSet(stakes, others) <= SumFunctionOnSet(stakes, largest)
<1> DEFINE gone == largest \ others
           come == others \ largest
           both == largest \cap others
<1>1. others \cap largest = both
  OBVIOUS
<1>2. AddsUp(stakes, others, both, come)
  <2>1. AddsUp(stakes, others, others \cap largest, come)
    BY SumOfParts
  <2> QED
    BY <1>1, <2>1
<1>3. AddsUp(stakes, largest, both, gone)
  BY SumOfParts
<1> HIDE DEF gone, come, both
<1>4. Cardinality(come) <= Cardinality(gone)
  BY <1>2, <1>3 DEF AddsUp
<1>5. \A x \in come : stakes[x] \in Nat /\ stakes[x] <= c
  BY DEF come
<1>6. \A x \in gone : stakes[x] \in Nat /\ stakes[x] >= c
  BY DEF gone
<1>7. Cardinality(Units(stakes, come)) <= Cardinality(come) * c
  BY <1>2, <1>5, UnitsUnderLine DEF AddsUp
<1>8. Cardinality(Units(stakes, gone)) >= Cardinality(gone) * c
  BY <1>3, <1>6, UnitsUnderLine DEF AddsUp
<1>9. Cardinality(come) * c <= Cardinality(gone) * c
  BY <1>2, <1>3, <1>4, ProductsGrow DEF AddsUp
<1>10. Cardinality(come) * c \in Nat /\ Cardinality(gone) * c \in Nat
  BY <1>2, <1>3 DEF AddsUp
<1>11. Cardinality(Units(stakes, come)) <= Cardinality(Units(stakes, gone))
  BY <1>2, <1>3, <1>7, <1>8, <1>9, <1>10 DEF AddsUp
<1> QED
  BY <1>2, <1>3, <1>11 DEF AddsUp

(* Hence no group that holds a third is smaller than the one of the loop,  *)
(* and each of that size which has all larger stakes is one of the         *)
(* smallest groups, whose members are those with the least stake or more.  *)
LEMMA FlaggedAreSmallestGroups ==
    ASSUME NEW D, IsFiniteSet(D), NEW stakes \in [D -> Nat], NEW least, NEW before, NEW last,
           EndsAt(D, stakes, least, before, last)
    PROVE  Superminority(stakes, least) = UNION SmallestGroups(stakes)
<1> DEFINE sum(S) == SumFunctionOnSet(stakes, S)
           size == Cardinality(before) + 1
<1>1. /\ before \in SUBSET D /\ last \in D \ before /\ least = stakes[last] /\ least \in Nat
      /\ \A v \in before : stakes[v] >= least
      /\ \A v \in D \ before : stakes[v] <= least
      /\ ~ HoldsThird(stakes, before) /\ HoldsThird(stakes, before \cup {last})
      /\ DOMAIN stakes = D
  BY DEF EndsAt
<1>2. /\ \A S \in SUBSET D : IsFiniteSet(S) /\ Cardinality(S) \in Nat /\ sum(S) \in Nat
      /\ \A S \in SUBSET D : \A x \in S : sum(S) = stakes[x] + sum(S \ {x})
  BY FS_Subset, FS_CardinalityType, SumsOfStakes
<1>3. \A v \in D \ before : Cardinality(before \cup {v}) = size
  BY <1>1, <1>2, FS_AddElement
<1>4. ASSUME NEW group \in SUBSET D, HoldsThird(stakes, group)
      PROVE  size <= Cardinality(group)
  <2> SUFFICES ASSUME Cardinality(group) <= Cardinality(before) PROVE FALSE
    BY <1>1, <1>2
  <2>1. sum(group) <= sum(before)
    BY <1>1, LargestHoldMost
  <2>2. sum(group) \in Nat /\ sum(before) \in Nat /\ sum(D) \in Nat
    BY <1>1, <1>2
  <2> QED
    BY <1>1, <1>4, <2>1, <2>2 DEF HoldsThird
<1>5. ASSUME NEW v \in D \ before, stakes[v] = least
      PROVE  before \cup {v} \in SmallestGroups(stakes)
  <2>1. before \cup {v} \in SUBSET D /\ before \cup {last} \in SUBSET D
    BY <1>1
  <2>2. (before \cup {v}) \ {v} = before /\ (before \cup {last}) \ {last} = before
    BY <1>1
  <2>3. sum(before \cup {v}) = least + sum(before) /\ sum(before \cup {last}) = least + sum(before)
    BY <1>1, <1>2, <1>5, <2>1, <2>2
  <2>4. HoldsThird(stakes, before \cup {v})
    BY <1>1, <2>3 DEF HoldsThird
  <2>5. \A x \in before \cup {v}, w \in D \ (before \cup {v}) : stakes[x] >= stakes[w]
    BY <1>1, <1>5
  <2> QED
    BY <1>1, <1>3, <1>4, <2>1, <2>4, <2>5 DEF SmallestGroups
<1>6. ASSUME NEW v \in Superminority(stakes, least)
      PROVE  v \in UNION SmallestGroups(stakes)
  <2>1. v \in D /\ least <= stakes[v]
    BY <1>1 DEF Superminority
  <2>2. CASE v \in before
    BY <1>1, <1>5, <2>2
  <2>3. CASE v \notin before
    <3>1. stakes[v] = least
      BY <1>1, <2>1, <2>3
    <3> QED
      BY <1>5, <2>1, <2>3, <3>1
  <2> QED
    BY <2>2, <2>3
<1>7. ASSUME NEW group \in SmallestGroups(stakes), NEW v \in group
      PROVE  v \in Superminority(stakes, least)
  <2>1. /\ group \in SUBSET D
        /\ \A other \in SUBSET D :
               HoldsThird(stakes, other) => Cardinality(group) <= Cardinality(other)
        /\ \A w \in D \ group : stakes[v] >= stakes[w]
    BY <1>1 DEF SmallestGroups
  <2> SUFFICES ASSUME ~ (least <= stakes[v]) PROVE FALSE
    BY <1>1, <2>1 DEF Superminority
  <2>2. \A w \in before \cup {last} : w \in group /\ w # v
    BY <1>1, <2>1
  <2>3. before \cup {last} \in SUBSET (group \ {v}) /\ group \ {v} \in SUBSET D
    BY <2>1, <2>2
  <2>4. Cardinality(before \cup {last}) <= Cardinality(group \ {v})
    BY <1>2, <2>3, FS_Subset
  <2>5. Cardinality(group \ {v}) = Cardinality(group) - 1
    BY <1>2, <2>1, FS_RemoveElement
  <2>6. Cardinality(group) <= size /\ Cardinality(before \cup {last}) = size
    BY <1>1, <1>3, <2>1
  <2>7. Cardinality(group) \in Nat /\ size \in Nat
    BY <1>1, <1>2, <2>1
  <2> QED
    BY <2>4, <2>5, <2>6, <2>7
<1> QED
  BY <1>6, <1>7

(* Whatever the accounts, their stakes and the order of those with one     *)
(* stake, those flagged as superminority are the members of the smallest   *)
(* groups of the largest that hold more than a third; and so the property  *)
(* of the run holds in every state.                                        *)
THEOREM SuperminorityIsRight ==
    /\ \A D, stakes, order :
           IsFiniteSet(D) /\ stakes \in [D -> Nat] /\ order \in LargestFirst(stakes)
               => FlagsSmallestGroups(stakes, order)
    /\ CollectorSpec => []SuperminorityOfSmallest
<1>1. ASSUME NEW D, NEW stakes, NEW order,
             IsFiniteSet(D), stakes \in [D -> Nat], order \in LargestFirst(stakes)
      PROVE  FlagsSmallestGroups(stakes, order)
  <2> DEFINE least == get_minimum_superminority_stake(stakes, order)
  <2>1. DOMAIN stakes = D
    BY <1>1
  <2>2. ASSUME SumFunctionOnSet(stakes, D) > 0
        PROVE  Superminority(stakes, least) = UNION SmallestGroups(stakes)
    <3>1. PICK before, last : EndsAt(D, stakes, least, before, last)
      BY <1>1, <2>2, LoopEndsAt
    <3> HIDE DEF least
    <3> QED
      BY <1>1, <3>1, FlaggedAreSmallestGroups
  <2> QED
    BY <2>1, <2>2 DEF FlagsSmallestGroups
<1>2. IsFiniteSet(1..4)
  <2>1. 1 \in Int /\ 4 \in Int
    OBVIOUS
  <2> QED
    BY <2>1, FS_Interval
<1>3. SuperminorityOfAnyStakes
  <2> SUFFICES ASSUME NEW stakes \in [1..4 -> 0..3], NEW order \in LargestFirst(stakes)
               PROVE  FlagsSmallestGroups(stakes, order)
    BY DEF SuperminorityOfAnyStakes
  <2>1. stakes \in [1..4 -> Nat]
    OBVIOUS
  <2> QED
    BY <1>1, <1>2, <2>1
<1>4. SuperminorityOfSmallest
  BY <1>3 DEF SuperminorityOfSmallest
<1>5. CollectorSpec => []SuperminorityOfSmallest
  BY <1>4, PTL
<1>6. \A D, stakes, order :
          IsFiniteSet(D) /\ stakes \in [D -> Nat] /\ order \in LargestFirst(stakes)
              => FlagsSmallestGroups(stakes, order)
  BY <1>1
<1> QED
  BY <1>5, <1>6

=============================================================================
