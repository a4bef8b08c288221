---------------------------- MODULE BlockRewards ---------------------------
(***************************************************************************)
(* How block rewards get into their table: the job of                      *)
(* scripts/check-collect-store-validators-block-rewards.bash, which runs   *)
(* three programs one after another,                                       *)
(*   check block-rewards             is it time to collect?                *)
(*   collect validators-block-rewards  the rewards of the previous epoch   *)
(*   store validators-block-rewards  upserts them in chunks of 500         *)
(* The job is started again and again.  Each program asks the chain for    *)
(* the epoch itself, and the chain goes on between them.                   *)
(*                                                                         *)
(* Slots are counted coarsely, and a chunk is one reward.                  *)
(***************************************************************************)
EXTENDS Integers, FiniteSetsExt

CONSTANTS
    MaxEpoch,        \* bound on the epochs
    SlotsInEpoch,
    Rewards,         \* the (identity, vote account) pairs with a reward in an epoch
    LoadingLimit,    \* so many rows or fewer count as not loaded yet
    SlotOffsetWait   \* do not collect before this slot of an epoch is over

ASSUME BlockRewardsAssumption ==
    /\ MaxEpoch \in Nat \ {0}
    /\ SlotsInEpoch \in Nat \ {0}
    /\ LoadingLimit \in Nat
    /\ SlotOffsetWait \in Nat

VARIABLES
    epoch, slot,  \* of the chain
    bigquery,     \* the rewards of each epoch that the ETL has loaded
    table,        \* validators_block_rewards
    job,          \* the step and the snapshot of the job, or Idle
    taken,        \* the rewards that were ever collected for an epoch (history)
    broken,       \* the epochs whose `store` was interrupted (history)
    processed     \* the epochs that `check` found already processed (history)

vars == <<epoch, slot, bigquery, table, job, taken, broken, processed>>

-----------------------------------------------------------------------------
EpochId == 0..MaxEpoch

Row == [epoch : EpochId, reward : Rewards]

Idle == [step |-> "idle", epoch |-> 0, left |-> {}]

Job == [step : {"collect", "store"}, epoch : EpochId, left : SUBSET Rewards]

StoredOf(e) == {r.reward : r \in {x \in table : x.epoch = e}}

LastEpoch == Max({r.epoch : r \in table})

Init ==
    /\ epoch = 1
    /\ slot = 0
    /\ bigquery = [e \in EpochId |-> {}]
    /\ table = {}
    /\ job = Idle
    /\ taken = [e \in EpochId |-> {}]
    /\ broken = {}
    /\ processed = {}

Tick ==
    /\ IF slot + 1 < SlotsInEpoch
       THEN slot' = slot + 1 /\ UNCHANGED epoch
       ELSE slot' = 0 /\ epoch < MaxEpoch /\ epoch' = epoch + 1
    /\ UNCHANGED <<bigquery, table, job, taken, broken, processed>>

(* The ETL loads the rewards of an epoch that is over, at once.            *)
Load(e) ==
    /\ e < epoch
    /\ bigquery[e] = {}
    /\ bigquery' = [bigquery EXCEPT ![e] = Rewards]
    /\ UNCHANGED <<epoch, slot, table, job, taken, broken, processed>>

-----------------------------------------------------------------------------
(* check block-rewards *)

CheckProceeds ==
    /\ job = Idle
    /\ table # {} => epoch - 1 > LastEpoch /\ slot > SlotOffsetWait
    /\ job' = [step |-> "collect", epoch |-> 0, left |-> {}]
    /\ UNCHANGED <<epoch, slot, bigquery, table, taken, broken, processed>>

(* Not a good time to collect; that it is too early changes nothing.       *)
CheckSkipsProcessed ==
    /\ job = Idle
    /\ table # {}
    /\ epoch - 1 <= LastEpoch
    /\ processed' = processed \cup {epoch - 1}
    /\ UNCHANGED <<epoch, slot, bigquery, table, job, taken, broken>>

-----------------------------------------------------------------------------
(* collect validators-block-rewards *)

Collect ==
    /\ job.step = "collect"
    /\ Cardinality(bigquery[epoch - 1]) > LoadingLimit
    /\ job' = [step |-> "store", epoch |-> epoch - 1, left |-> bigquery[epoch - 1]]
    /\ taken' = [taken EXCEPT ![epoch - 1] = @ \cup bigquery[epoch - 1]]
    /\ UNCHANGED <<epoch, slot, bigquery, table, broken, processed>>

(* Too few rows: the job ends, with an error when the data is overdue. *)
CollectNothing ==
    /\ job.step = "collect"
    /\ Cardinality(bigquery[epoch - 1]) <= LoadingLimit
    /\ job' = Idle
    /\ UNCHANGED <<epoch, slot, bigquery, table, taken, broken, processed>>

-----------------------------------------------------------------------------
(* store validators-block-rewards *)

(* Faulty variant: stored under the epoch before the one of the moment.    *)
UpsertAsOfNow(r) ==
    /\ job.step = "store"
    /\ r \in job.left
    /\ table' = table \cup {[epoch |-> epoch - 1, reward |-> r]}
    /\ job' = [job EXCEPT !.left = @ \ {r}]
    /\ UNCHANGED <<epoch, slot, bigquery, taken, broken, processed>>

(* INSERT ... ON CONFLICT (epoch, identity_account, vote_account) DO UPDATE *)
UpsertReward(r) ==
    /\ job.step = "store"
    /\ r \in job.left
    /\ table' = table \cup {[epoch |-> job.epoch, reward |-> r]}
    /\ job' = [job EXCEPT !.left = @ \ {r}]
    /\ UNCHANGED <<epoch, slot, bigquery, taken, broken, processed>>

(* Faulty variant: the last chunk is not executed.                         *)
EndStoringEarly ==
    /\ job.step = "store"
    /\ Cardinality(job.left) <= 1
    /\ job' = Idle
    /\ UNCHANGED <<epoch, slot, bigquery, table, taken, broken, processed>>

EndStoring ==
    /\ job.step = "store"
    /\ job.left = {}
    /\ job' = Idle
    /\ UNCHANGED <<epoch, slot, bigquery, table, taken, broken, processed>>

(* A program fails or dies; the script ends. *)
Crash ==
    /\ job # Idle
    /\ job' = Idle
    /\ broken' = IF job.step = "store" THEN broken \cup {job.epoch} ELSE broken
    /\ UNCHANGED <<epoch, slot, bigquery, table, taken, processed>>

Next ==
    \/ Tick
    \/ \E e \in EpochId : Load(e)
    \/ CheckProceeds
    \/ CheckSkipsProcessed
    \/ Collect
    \/ CollectNothing
    \/ \E r \in Rewards : UpsertReward(r)
    \/ EndStoring
    \/ Crash

Spec == Init /\ [][Next]_vars

-----------------------------------------------------------------------------
(* Properties *)

(* Every variable holds a value of its kind, and only rewards that were    *)
(* collected are in the table.                                             *)
TypeOK ==
    /\ epoch \in EpochId /\ slot \in 0..(SlotsInEpoch - 1)
    /\ bigquery \in [EpochId -> SUBSET Rewards]
    /\ table \subseteq Row
    /\ \A r \in table : r.reward \in taken[r.epoch]
    /\ job \in {Idle} \cup Job
    /\ taken \in [EpochId -> SUBSET Rewards]
    /\ broken \subseteq EpochId /\ processed \subseteq EpochId

(* Once an epoch has rows and its job is over without a crash, all of its  *)
(* collected rewards are there, whenever the epoch of the chain advanced   *)
(* while check, collect and store were running.                            *)
StoredWholeOrBroken ==
    \A e \in {r.epoch : r \in table} :
        \/ StoredOf(e) = taken[e]
        \/ e \in broken
        \/ job.step = "store" /\ job.epoch = e

(* The comment on check_block_rewards says that it skips when the data is  *)
(* "already in the PostgreSQL table": when an epoch counts as processed,   *)
(* what was collected for it is in the table.  It is not, when `store` was *)
(* interrupted after its first chunk, and no later run completes it.       *)
ProcessedMeansStored == \A e \in processed : taken[e] \subseteq StoredOf(e)

=============================================================================
