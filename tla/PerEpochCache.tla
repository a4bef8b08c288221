--------------------------- MODULE PerEpochCache ---------------------------
(***************************************************************************)
(* The data of validators that comes from BigQuery, and how the cache      *)
(* warmer keeps it (PerEpochCache::load, warm_validators_cache): the       *)
(* numbers of delegators and the take rates are loaded again only when the *)
(* table `epochs` of BigQuery has a new epoch, and put into the cache      *)
(* together with the validators that were built from them.                 *)
(*                                                                         *)
(* Each query is a request of its own, and the ETL loads the tables of     *)
(* BigQuery one after another while they are sent.  A table, and what is   *)
(* computed from it, is represented by the last epoch in it.               *)
(***************************************************************************)
EXTENDS Integers

CONSTANTS
    MaxEpoch,     \* bound on the epochs that BigQuery gets
    MaxFailures,  \* bound on failed requests and restarts
    EpochsLast    \* whether the ETL adds an epoch to `epochs` after the other tables

ASSUME PerEpochCacheAssumption ==
    MaxEpoch \in Nat /\ MaxFailures \in Nat /\ EpochsLast \in BOOLEAN

VARIABLES
    bigquery,  \* the last epoch in each table; 0 when it is empty
    warm,      \* the step and the local variables of warm_validators_cache
    cache,     \* per_epoch, and what the cached validators were built from
    failures   \* how often something failed (bounds the model)

vars == <<bigquery, warm, cache, failures>>

-----------------------------------------------------------------------------
Epoch == 0..MaxEpoch

Tables == {"epochs", "stakes", "rewards"}

(* What is cached for an epoch: delegators come from `stakes`, take rates  *)
(* from `stakes` and the reward tables.                                    *)
Cached == [epoch : Epoch,
           unique_delegators : Epoch,
           take_rates : [stakes : Epoch, rewards : Epoch]]

(* Option::None, and the empty values it stands for *)
None == [epoch |-> 0, unique_delegators |-> 0, take_rates |-> [stakes |-> 0, rewards |-> 0]]

Warm == [step : {"start", "last_epoch", "delegators", "take_rates", "validators", "write"},
         cached : Cached,
         refreshed : Cached,
         failed : BOOLEAN]

Start == [step |-> "start", cached |-> None, refreshed |-> None, failed |-> FALSE]

Init ==
    /\ bigquery = [t \in Tables |-> 0]
    /\ warm = Start
    /\ cache = [per_epoch |-> None, validators |-> None]
    /\ failures = 0

(* The ETL adds the next epoch to a table. *)
Land(t) ==
    /\ bigquery[t] < MaxEpoch
    /\ EpochsLast /\ t = "epochs" => \A u \in Tables \ {t} : bigquery[u] > bigquery[t]
    /\ bigquery' = [bigquery EXCEPT ![t] = @ + 1]
    /\ UNCHANGED <<warm, cache, failures>>

-----------------------------------------------------------------------------
(* PerEpochCache::load *)

CloneCached ==
    /\ warm.step = "start"
    /\ warm' = [Start EXCEPT !.step = "last_epoch", !.cached = cache.per_epoch]
    /\ UNCHANGED <<bigquery, cache, failures>>

(* Faulty variant: the gate is the table with the delegators.              *)
LastEpochOfStakes == bigquery["stakes"]

LastBigqueryEpoch == bigquery["epochs"]

(* Faulty variant: whatever is cached is good enough.                      *)
AnythingCached(last) == warm.cached # None

CacheHit(last) == warm.cached.epoch = last

(* An empty table counts as a cache hit: epoch 0 stands for None here.     *)
LoadLastEpoch ==
    /\ warm.step = "last_epoch"
    /\ warm' = IF CacheHit(LastBigqueryEpoch) \/ LastBigqueryEpoch = 0
               THEN [warm EXCEPT !.step = "validators"]
               ELSE [warm EXCEPT !.step = "delegators", !.refreshed.epoch = LastBigqueryEpoch]
    /\ UNCHANGED <<bigquery, cache, failures>>

LoadDelegators ==
    /\ warm.step = "delegators"
    /\ warm' = [warm EXCEPT !.step = "take_rates",
                            !.refreshed.unique_delegators = bigquery["stakes"]]
    /\ UNCHANGED <<bigquery, cache, failures>>

(* Both values must have been loaded, or nothing is refreshed. *)
LoadTakeRates ==
    /\ warm.step = "take_rates"
    /\ warm' = [warm EXCEPT
                   !.step = "validators",
                   !.refreshed = IF warm.failed
                                 THEN None
                                 ELSE [@ EXCEPT !.take_rates =
                                          [stakes |-> bigquery["stakes"],
                                           rewards |-> bigquery["rewards"]]]]
    /\ UNCHANGED <<bigquery, cache, failures>>

(* Faulty variant: a value that could not be loaded is taken to be empty.  *)
RequestGivesNothing ==
    /\ warm.step \in {"last_epoch", "delegators", "take_rates"}
    /\ failures < MaxFailures
    /\ failures' = failures + 1
    /\ warm' = [warm EXCEPT
                   !.step = IF warm.step = "delegators" THEN "take_rates" ELSE "validators"]
    /\ UNCHANGED <<bigquery, cache>>

(* A request to BigQuery fails: nothing will be refreshed, although the    *)
(* take rates are loaded even when the delegators could not be.            *)
RequestFails ==
    /\ warm.step \in {"last_epoch", "delegators", "take_rates"}
    /\ failures < MaxFailures
    /\ failures' = failures + 1
    /\ warm' = IF warm.step = "delegators"
               THEN [warm EXCEPT !.step = "take_rates", !.failed = TRUE]
               ELSE [warm EXCEPT !.step = "validators", !.refreshed = None]
    /\ UNCHANGED <<bigquery, cache>>

-----------------------------------------------------------------------------
(* warm_validators_cache *)

Source == IF warm.refreshed # None THEN warm.refreshed ELSE warm.cached

(* Faulty variant: per_epoch is written before the validators are loaded.  *)
LoadValidatorsLate ==
    /\ warm.step = "validators"
    /\ cache' = [cache EXCEPT !.per_epoch = Source]
    /\ warm' = [warm EXCEPT !.step = "write"]
    /\ UNCHANGED <<bigquery, failures>>

LoadValidators ==
    /\ warm.step = "validators"
    /\ warm' = [warm EXCEPT !.step = "write"]
    /\ UNCHANGED <<bigquery, cache, failures>>

(* A query to the database fails: what was refreshed is lost, too.         *)
LoadValidatorsFails ==
    /\ warm.step = "validators"
    /\ failures < MaxFailures
    /\ failures' = failures + 1
    /\ warm' = Start
    /\ UNCHANGED <<bigquery, cache>>

(* Under one write lock.  Then the warmer sleeps and starts anew.          *)
WriteCache ==
    /\ warm.step = "write"
    /\ cache' = [per_epoch |-> IF warm.refreshed # None THEN warm.refreshed ELSE cache.per_epoch,
                 validators |-> Source]
    /\ warm' = Start
    /\ UNCHANGED <<bigquery, failures>>

(* The API process exits and is started again with an empty cache.         *)
Restart ==
    /\ failures < MaxFailures
    /\ failures' = failures + 1
    /\ cache' = [per_epoch |-> None, validators |-> None]
    /\ warm' = Start
    /\ UNCHANGED bigquery

WarmerStep ==
    \/ CloneCached
    \/ LoadLastEpoch
    \/ LoadDelegators
    \/ LoadTakeRates
    \/ LoadValidators
    \/ WriteCache

Next ==
    \/ \E t \in Tables : Land(t)
    \/ WarmerStep
    \/ RequestFails
    \/ LoadValidatorsFails
    \/ Restart

(* The runtime keeps running the warmer's task.                            *)
Fairness == WF_vars(WarmerStep)

Spec == Init /\ [][Next]_vars /\ Fairness

-----------------------------------------------------------------------------
(* Properties *)

(* Every variable holds a value of its kind, and the cache is never ahead  *)
(* of BigQuery.                                                            *)
TypeOK ==
    /\ bigquery \in [Tables -> Epoch]
    /\ warm \in Warm
    /\ cache \in [per_epoch : Cached, validators : Cached]
    /\ cache.per_epoch.epoch <= bigquery["epochs"]
    /\ failures \in 0..MaxFailures

(* Given that the ETL adds an epoch to `epochs` last, the data cached for  *)
(* an epoch is that of this epoch or a later one, whatever lands and       *)
(* fails between the requests: it would stay wrong until the next epoch,   *)
(* as only `epochs` is asked whether to refresh it.                        *)
CachedAsOfItsEpoch ==
    LET c == cache.per_epoch
    IN /\ c.unique_delegators >= c.epoch
       /\ c.take_rates.stakes >= c.epoch
       /\ c.take_rates.rewards >= c.epoch

(* The cached validators are built from the cached BigQuery data, also     *)
(* after a round that refreshed the data and then failed.                  *)
ValidatorsMatchCached == cache.validators = cache.per_epoch

(* Every epoch of BigQuery gets into the cache unless a later one does:    *)
(* when the ETL and the failures have come to an end (the bounds see to    *)
(* that), the cache has the last one for good.                             *)
EpochGetsCached == <>[](cache.per_epoch.epoch = bigquery["epochs"])

=============================================================================
