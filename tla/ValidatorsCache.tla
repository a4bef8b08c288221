--------------------------- MODULE ValidatorsCache ---------------------------
(***************************************************************************)
(* The validators in the cache of the API: `store validators` and `store   *)
(* cluster-info` fill their tables while an epoch lasts, and the cache     *)
(* warmer reads them with one query after another (load_validators, the    *)
(* part of warm_validators_cache that is a single step in PerEpochCache),  *)
(* and writes validators and aggregates under one write lock.  /validators *)
(* answers from the cache, /reports/staking from the cache and the last    *)
(* epoch of the table.                                                     *)
(*                                                                         *)
(* A chunk of `store validators` is one row here.  The table only grows:   *)
(* an update of a row changes none of what is kept of it.                  *)
(***************************************************************************)
EXTENDS PerEpochCache, ValidatorsList

CONSTANTS
    MaxStored,       \* bound on the epochs that are stored
    StoredBefore,    \* the epochs that are stored at first
    DisplayEpochs,   \* DEFAULT_CACHE_EPOCHS: the epochs that load_validators loads
    Voting,          \* who has a vote account: a set of validators for each epoch
    PageEpochs       \* the numbers of epochs that requests ask for

ASSUME ValidatorsCacheAssumption ==
    /\ MaxStored \in Nat /\ StoredBefore \in 1..MaxStored
    /\ Voting \in [1..MaxStored -> SUBSET Validators]
    \* an epoch that is stored has rows
    /\ Voting[StoredBefore] # {}
    /\ Activated \in [1..MaxStored -> SUBSET Validators]
    \* what a page shows is loaded although cluster_info may be ahead
    /\ DisplayEpochs \in Nat /\ DisplayEpochs > 2
    /\ PageEpochs \subseteq 1..DisplayEpochs - 2

VARIABLES
    validators,    \* table: the vote accounts and epochs of its rows
    cluster_info,  \* table: its last epoch; 0 when it is empty
    storing,       \* the epoch of the snapshot that `store validators` is storing
    load,          \* the step and the local variables of load_validators
    validators_cache  \* the cached validators

tables == <<validators, cluster_info, storing>>

bigqueryVars == <<bigquery, warm, cache, failures>>

allVars == <<bigqueryVars, tables, load, validators_cache>>

-----------------------------------------------------------------------------
Row == Validators \X (1..MaxStored)

(* The validators as load_validators returns them: the rows in their       *)
(* epoch_stats and the last_epoch that has_last_epoch_stats tells of.      *)
Records == [rows : SUBSET Row, last_epoch : 0..MaxStored]

NoRecords == [rows |-> {}, last_epoch |-> 0]

Load == [step : {"last_epoch", "records", "incidents"},
         records : Records]

StartOfLoad == [step |-> "last_epoch", records |-> NoRecords]

(* Snapshots of the first epochs have been stored before the API starts.   *)
CacheInit ==
    /\ Init
    /\ validators = {row \in Row : row[2] <= StoredBefore /\ row[1] \in Voting[row[2]]}
    /\ cluster_info = StoredBefore
    /\ storing = StoredBefore
    /\ load = StartOfLoad
    /\ validators_cache = NoRecords

-----------------------------------------------------------------------------
(* store validators, store cluster-info *)

(* The next snapshot is of the next epoch, whether or not the previous one *)
(* was stored to its end: two days of an epoch never pass without a row,   *)
(* nor between two queries of load_validators.                             *)
NextSnapshot ==
    /\ storing < MaxStored
    /\ storing <= cluster_info
    /\ storing = MaxEpochOf(validators)
    /\ load.step = "records" => storing <= load.records.last_epoch
    /\ storing' = storing + 1
    /\ UNCHANGED <<bigqueryVars, validators, cluster_info, load, validators_cache>>

StoreValidator(v) ==
    /\ v \in Voting[storing]
    /\ <<v, storing>> \notin validators
    /\ validators' = validators \cup {<<v, storing>>}
    /\ UNCHANGED <<bigqueryVars, cluster_info, storing, load, validators_cache>>

(* Snapshots of cluster-info are stored by a command of their own.         *)
StoreClusterInfo ==
    /\ cluster_info < MaxStored
    /\ cluster_info <= storing
    /\ cluster_info' = cluster_info + 1
    /\ UNCHANGED <<bigqueryVars, validators, storing, load, validators_cache>>

-----------------------------------------------------------------------------
(* load_validators *)

(* Faulty variant: the last epoch of the other table.                      *)
LastEpochOfCluster == cluster_info

get_last_epoch == MaxEpochOf(validators)

AtStep(step) == warm.step = "validators" /\ load.step = step

LoadStep(step, records) ==
    /\ load' = [step |-> step, records |-> records]
    /\ UNCHANGED <<bigqueryVars, tables, validators_cache>>

GetLastEpoch ==
    /\ AtStep("last_epoch")
    /\ LoadStep("records", [NoRecords EXCEPT !.last_epoch = get_last_epoch])

(* The main query takes its window from cluster_info: nothing while that   *)
(* is empty.                                                               *)
Window == {row \in validators : cluster_info > 0 /\ row[2] > cluster_info - DisplayEpochs}

QueryValidators ==
    /\ AtStep("records")
    /\ LoadStep("incidents", [load.records EXCEPT !.rows = Window])

(* After the main query, the scores, averages, ranks and warnings are      *)
(* computed, and the incidents are loaded: the last query before the       *)
(* return to warm_validators_cache.                                        *)
LoadIncidents ==
    /\ AtStep("incidents")
    /\ LoadValidators
    /\ UNCHANGED <<tables, load, validators_cache>>

LoadQueryFails ==
    /\ LoadValidatorsFails
    /\ load' = StartOfLoad
    /\ UNCHANGED <<tables, validators_cache>>

-----------------------------------------------------------------------------
(* warm_validators_cache, beyond load_validators *)

WarmPerEpoch ==
    /\ CloneCached \/ LoadLastEpoch \/ LoadDelegators \/ LoadTakeRates \/ RequestFails
    /\ UNCHANGED <<tables, load, validators_cache>>

(* Validators and aggregates, which are computed from them, are written    *)
(* under the write lock of WriteCache.                                     *)
WriteValidators ==
    /\ WriteCache
    /\ validators_cache' = load.records
    /\ load' = StartOfLoad
    /\ UNCHANGED tables

RestartApi ==
    /\ Restart
    /\ load' = StartOfLoad
    /\ validators_cache' = NoRecords
    /\ UNCHANGED tables

LandInBigQuery ==
    /\ \E t \in Tables : Land(t)
    /\ UNCHANGED <<tables, load, validators_cache>>

-----------------------------------------------------------------------------
(* /reports/staking: the validators whose current stake get_planned_stakes *)
(* finds, by the last epoch of the table, in the cache                     *)
ReportedStakes ==
    {v \in Validators :
        /\ <<v, validators_cache.last_epoch>> \in validators_cache.rows
        /\ <<v, get_last_epoch>> \in validators_cache.rows}

-----------------------------------------------------------------------------
LoadValidatorsStep ==
    \/ GetLastEpoch
    \/ QueryValidators
    \/ LoadIncidents

CacheNext ==
    \/ NextSnapshot
    \/ \E v \in Validators : StoreValidator(v)
    \/ StoreClusterInfo
    \/ LandInBigQuery
    \/ WarmPerEpoch
    \/ LoadValidatorsStep
    \/ WriteValidators
    \/ LoadQueryFails
    \/ RestartApi

(* The runtime keeps running the warmer's task.                            *)
CacheFairness == WF_allVars(WarmPerEpoch \/ LoadValidatorsStep \/ WriteValidators)

CacheSpec == CacheInit /\ [][CacheNext]_allVars /\ CacheFairness

-----------------------------------------------------------------------------
(* Properties *)

(* Every variable holds a value of its kind, and what is cached is neither *)
(* ahead of the table nor, as for TypeOK, of BigQuery.                     *)
CacheTypeOK ==
    /\ TypeOK
    /\ validators \subseteq Row
    /\ cluster_info \in 0..MaxStored /\ storing \in 1..MaxStored
    /\ load \in Load
    /\ validators_cache \in Records /\ validators_cache.rows \subseteq validators

(* A validator that /validators lists has has_last_epoch_stats, by which   *)
(* /reports/staking selects: the flag comes from the last epoch before the *)
(* main query, the list from the last epoch in what that query found, and  *)
(* an epoch may begin in between.                                          *)
ListedHaveLastStats ==
    \A v \in Listed(validators_cache.rows) :
        <<v, validators_cache.last_epoch>> \in validators_cache.rows

(* A page reads the validators under one lock and the aggregates under     *)
(* another, and the cache may be refreshed in between, once: rounds are    *)
(* ten minutes apart.  The aggregates may then be newer, but never older   *)
(* than the validators, and of the epochs they reach back to none of those *)
(* that the page shows is missing.                                         *)
PageEpochsAggregated ==
    [][validators_cache' \notin {validators_cache, NoRecords} =>
          \A first \in {validators_cache.rows, validators_cache'.rows}, epochs \in PageEpochs :
              LET shown == ShownEpochs(first, epochs)
                  aggregated == AggregatedEpochs(validators_cache'.rows, epochs)
              IN shown # {} =>
                    /\ aggregated # {}
                    /\ Max(aggregated) >= Max(shown)
                    /\ \A e \in shown : e > Max(aggregated) - epochs => e \in aggregated
      ]_validators_cache

(* Four validators with any values, in any order the sort may leave them   *)
RanksOfAnyValues ==
    \A values \in [1..4 -> 0..2] :
        \A order \in {s \in SetToSeqs(1..4) :
                         \A i \in 1..3 : values[s[i]] <= values[s[i + 1]]} :
            \A index \in 0..3 :
                Rank(order, values, index)
                    = Cardinality({v \in 1..4 : values[v] >= values[order[index + 1]]})

(* A rank in the cache says how many validators of the epoch have at least *)
(* as much, themselves included, in whichever order the map of validators  *)
(* and the sort left those with the same value.                            *)
RanksAreStandings == validators_cache # NoRecords => RanksOfAnyValues

(* Once nothing more is stored and the failures are over, and there is a   *)
(* row of cluster-info to take the window from, /validators lists          *)
(* for good who had stake or credits in the table's last two epochs, and   *)
(* /reports/staking finds the current stake of all with a row in the last  *)
(* one.  Until the next refresh they miss the validators whose row came    *)
(* too late for the warmer, and the report misses everyone when an epoch   *)
(* has begun in the table and not in the cache.                            *)
PagesGetComplete ==
    LET last == MaxEpochOf(validators)
        activeIn(e) == {v \in Activated[e] : <<v, e>> \in validators}
    IN <>[](cluster_info > 0 =>
              /\ last > 1 =>
                    Listed(validators_cache.rows) = activeIn(last) \cap activeIn(last - 1)
              /\ ReportedStakes = {v \in Validators : <<v, last>> \in validators})

=============================================================================
