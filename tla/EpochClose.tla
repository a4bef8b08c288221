---------------------------- MODULE EpochClose -----------------------------
(***************************************************************************)
(* The tables that describe epochs and the commands that fill them:        *)
(*   store cluster-info    one row per performance snapshot                *)
(*   store validators      one row per validator and epoch                 *)
(*   store ls-open-epochs  epochs with validators but no record            *)
(*   store close-epoch     the record of an epoch, and the final values of *)
(*                         its validators, once the epoch is over          *)
(* Every command is a process; its statements are autocommitted, and the   *)
(* pipelines that store and that close run independently of each other.    *)
(* A snapshot may be stored long after it was collected.                   *)
(*                                                                         *)
(* A chunk of 500 validators is one validator here; what is stored of a    *)
(* validator is reduced to whether it is of the running or the ended epoch *)
(* and whether close-epoch has set it.                                     *)
(***************************************************************************)
EXTENDS Integers, Sequences, FiniteSetsExt

CONSTANTS
    VoteAccounts,
    MaxEpoch,      \* bound on the epochs
    MaxSnapshots   \* bound on the performance snapshots

ASSUME EpochCloseAssumption == MaxEpoch \in Nat /\ MaxSnapshots \in Nat

VARIABLES
    snapshots,     \* the epoch of each collected snapshot; its index is created_at
    cluster_info,  \* table
    epochs,        \* table: the closed epochs
    validators,    \* table: a row or NoRow for each validator and epoch
    storing,       \* the `store validators` that is running, or Idle
    closing,       \* the `store close-epoch` that is running, or Idle
    completed      \* the close-epoch commands that ran to their end

vars == <<snapshots, cluster_info, epochs, validators, storing, closing, completed>>

-----------------------------------------------------------------------------
EpochId == 1..MaxEpoch

CreatedAt == 1..MaxSnapshots

ClusterInfo == [epoch : EpochId, created_at : CreatedAt]

EpochRecord == [epoch : EpochId, start_at : CreatedAt, end_at : CreatedAt]

(* performance: credits, leader_slots, blocks_produced and skip_rate       *)
(* late: whether the row came after the record of its epoch (history)      *)
Row == [performance : {"running", "final"},
        commission_effective : BOOLEAN,
        uptime : BOOLEAN,
        commission_observed : BOOLEAN,
        late : BOOLEAN]

NoRow == [performance |-> "none"]

Idle == [epoch |-> 0, left |-> {}]

Storing == [epoch : EpochId, left : SUBSET VoteAccounts]

Closing == [step : {"performance", "commissions"},
            epoch : EpochId,
            validators : SUBSET VoteAccounts,
            left : SUBSET VoteAccounts]

CurrentEpoch == IF snapshots = <<>> THEN 1 ELSE snapshots[Len(snapshots)]

Recorded(e) == \E r \in epochs : r.epoch = e

Stored(v, e) == validators[v][e] # NoRow

(* What ls-open-epochs prints, to tell the pipeline which epochs to close  *)
OpenEpochs == {e \in EpochId : ~Recorded(e) /\ \E v \in VoteAccounts : Stored(v, e)}

-----------------------------------------------------------------------------
Init ==
    /\ snapshots = <<>>
    /\ cluster_info = {}
    /\ epochs = {}
    /\ validators = [v \in VoteAccounts |-> [e \in EpochId |-> NoRow]]
    /\ storing = Idle
    /\ closing = Idle
    /\ completed = {}

(* The collector takes a snapshot; epochs pass, also without one.          *)
Collect(e) ==
    /\ Len(snapshots) < MaxSnapshots
    /\ e >= CurrentEpoch
    /\ snapshots' = Append(snapshots, e)
    /\ UNCHANGED <<cluster_info, epochs, validators, storing, closing, completed>>

StoreClusterInfo(i) ==
    /\ cluster_info' = cluster_info \cup {[epoch |-> snapshots[i], created_at |-> i]}
    /\ UNCHANGED <<snapshots, epochs, validators, storing, closing, completed>>

-----------------------------------------------------------------------------
(* store validators *)

(* It starts on a snapshot of an epoch and of some validators, and selects *)
(* those of them that already have a row.                                  *)
SelectExisting(e, present) ==
    /\ storing = Idle
    /\ e <= CurrentEpoch
    /\ storing' = [epoch |-> e, left |-> present]
    /\ UNCHANGED <<snapshots, cluster_info, epochs, validators, closing, completed>>

(* Faulty variant: the UPDATE sets every column that the INSERT sets.      *)
UpdateAllColumns(v) ==
    /\ v \in storing.left
    /\ Stored(v, storing.epoch)
    /\ validators' = [validators EXCEPT ![v][storing.epoch] =
                         [@ EXCEPT !.performance = "running",
                                   !.commission_effective = FALSE,
                                   !.uptime = FALSE,
                                   !.commission_observed = FALSE]]
    /\ storing' = [storing EXCEPT !.left = @ \ {v}]
    /\ UNCHANGED <<snapshots, cluster_info, epochs, closing, completed>>

UpdateExisting(v) ==
    /\ v \in storing.left
    /\ Stored(v, storing.epoch)
    /\ validators' = [validators EXCEPT ![v][storing.epoch].performance = "running"]
    /\ storing' = [storing EXCEPT !.left = @ \ {v}]
    /\ UNCHANGED <<snapshots, cluster_info, epochs, closing, completed>>

(* The validators that were not updated are inserted. *)
InsertNew(v) ==
    /\ \A u \in storing.left : ~Stored(u, storing.epoch)
    /\ v \in storing.left
    /\ validators' = [validators EXCEPT ![v][storing.epoch] =
                         [performance |-> "running",
                          commission_effective |-> FALSE,
                          uptime |-> FALSE,
                          commission_observed |-> FALSE,
                          late |-> Recorded(storing.epoch)]]
    /\ storing' = [storing EXCEPT !.left = @ \ {v}]
    /\ UNCHANGED <<snapshots, cluster_info, epochs, closing, completed>>

(* The command returns, or it stops between two statements. *)
EndStoring ==
    /\ storing # Idle
    /\ storing' = Idle
    /\ UNCHANGED <<snapshots, cluster_info, epochs, validators, closing, completed>>

-----------------------------------------------------------------------------
(* store close-epoch *)

InfoOf(e) == {c.created_at : c \in {i \in cluster_info : i.epoch = e}}

(* Faulty variant: the start is the end of the latest epoch there is.      *)
PreviousEndOfAny(e) == {r.end_at : r \in epochs}

PreviousEnd(e) == {r.end_at : r \in {p \in epochs : p.epoch = e - 1}}

(* The command starts, whether or not its epoch was listed as open, with   *)
(* the INSERT into epochs.  A second record of an epoch violates the       *)
(* primary key, and an epoch without cluster info a NOT NULL: then the     *)
(* command fails and changes nothing.                                      *)
CreateEpochRecord(e, present) ==
    /\ closing = Idle
    /\ e < CurrentEpoch
    /\ ~Recorded(e)
    /\ InfoOf(e) # {}
    /\ epochs' = epochs \cup
           {[epoch |-> e,
             start_at |-> IF PreviousEnd(e) # {} THEN Max(PreviousEnd(e)) ELSE Min(InfoOf(e)),
             end_at |-> Max(InfoOf(e))]}
    /\ closing' = [step |-> "performance", epoch |-> e, validators |-> present, left |-> present]
    /\ UNCHANGED <<snapshots, cluster_info, validators, storing, completed>>

(* One chunk of the final values; validators without a row are passed over *)
UpdatePerformance(v) ==
    /\ closing # Idle /\ closing.step = "performance"
    /\ v \in closing.left
    /\ validators' = IF Stored(v, closing.epoch)
                     THEN [validators EXCEPT ![v][closing.epoch] =
                              [@ EXCEPT !.performance = "final",
                                        !.commission_effective = TRUE]]
                     ELSE validators
    /\ closing' = [closing EXCEPT !.left = @ \ {v}]
    /\ UNCHANGED <<snapshots, cluster_info, epochs, storing, completed>>

(* Faulty variant: only the validators of the snapshot get their uptime.   *)
UpdateUptimesOfSnapshot ==
    /\ closing # Idle /\ closing.step = "performance"
    /\ closing.left = {}
    /\ validators' = [v \in VoteAccounts |->
                         IF v \in closing.validators /\ Stored(v, closing.epoch)
                         THEN [validators[v] EXCEPT ![closing.epoch].uptime = TRUE]
                         ELSE validators[v]]
    /\ closing' = [closing EXCEPT !.step = "commissions"]
    /\ UNCHANGED <<snapshots, cluster_info, epochs, storing, completed>>

UpdateUptimes ==
    /\ closing # Idle /\ closing.step = "performance"
    /\ closing.left = {}
    /\ validators' = [v \in VoteAccounts |->
                         IF Stored(v, closing.epoch)
                         THEN [validators[v] EXCEPT ![closing.epoch].uptime = TRUE]
                         ELSE validators[v]]
    /\ closing' = [closing EXCEPT !.step = "commissions"]
    /\ UNCHANGED <<snapshots, cluster_info, epochs, storing, completed>>

UpdateObservedCommission ==
    /\ closing # Idle /\ closing.step = "commissions"
    /\ validators' = [v \in VoteAccounts |->
                         IF Stored(v, closing.epoch)
                         THEN [validators[v] EXCEPT ![closing.epoch].commission_observed = TRUE]
                         ELSE validators[v]]
    /\ completed' = completed \cup {[epoch |-> closing.epoch, validators |-> closing.validators]}
    /\ closing' = Idle
    /\ UNCHANGED <<snapshots, cluster_info, epochs, storing>>

(* Faulty variant: a failed command takes back the record of the epoch.    *)
InterruptAndReopen ==
    /\ closing # Idle
    /\ epochs' = {r \in epochs : r.epoch # closing.epoch}
    /\ closing' = Idle
    /\ UNCHANGED <<snapshots, cluster_info, validators, storing, completed>>

(* The process dies, or a statement fails: for one, update_uptimes divides *)
(* by the length of the epoch, which is zero when a first epoch has only   *)
(* one cluster_info row.                                                   *)
InterruptClosing ==
    /\ closing # Idle
    /\ closing' = Idle
    /\ UNCHANGED <<snapshots, cluster_info, epochs, validators, storing, completed>>

-----------------------------------------------------------------------------
Next ==
    \/ \E e \in EpochId : Collect(e)
    \/ \E i \in DOMAIN snapshots : StoreClusterInfo(i)
    \/ \E e \in EpochId, present \in SUBSET VoteAccounts : SelectExisting(e, present)
    \/ \E v \in VoteAccounts : UpdateExisting(v)
    \/ \E v \in VoteAccounts : InsertNew(v)
    \/ EndStoring
    \/ \E e \in EpochId, present \in SUBSET VoteAccounts : CreateEpochRecord(e, present)
    \/ \E v \in VoteAccounts : UpdatePerformance(v)
    \/ UpdateUptimes
    \/ UpdateObservedCommission
    \/ InterruptClosing

Spec == Init /\ [][Next]_vars

-----------------------------------------------------------------------------
(* Properties *)

(* Every variable holds a value of its kind, and epoch is the primary key  *)
(* of epochs.                                                              *)
TypeOK ==
    /\ snapshots \in Seq(EpochId) /\ Len(snapshots) <= MaxSnapshots
    /\ cluster_info \subseteq ClusterInfo
    /\ epochs \subseteq EpochRecord
    /\ \A r, s \in epochs : r.epoch = s.epoch => r = s
    /\ validators \in [VoteAccounts -> [EpochId -> Row \cup {NoRow}]]
    /\ storing \in {Idle} \cup Storing
    /\ closing \in {Idle} \cup Closing
    /\ completed \subseteq [epoch : EpochId, validators : SUBSET VoteAccounts]

(* The windows of closed epochs are in order and do not overlap, whatever  *)
(* order the epochs are closed in and however late cluster info is stored: *)
(* no moment counts as two epochs in the rates that use these windows.     *)
WindowsDisjoint ==
    \A r, s \in epochs :
        /\ r.start_at <= r.end_at
        /\ r.epoch < s.epoch => r.end_at <= s.start_at

(* A close-epoch that ran to its end has set the final values of every     *)
(* validator that had a row when it began, also while `store validators`   *)
(* runs beside it: uptime and observed commissions of all of them,         *)
(* effective commission of those in the closing snapshot.                  *)
CompletedCloseIsFinal ==
    \A c \in completed : \A v \in VoteAccounts :
        LET row == validators[v][c.epoch]
        IN row # NoRow /\ ~row.late =>
               /\ row.uptime
               /\ row.commission_observed
               /\ v \in c.validators => row.commission_effective

(* What close-epoch has set stays set: storing a snapshot of the epoch     *)
(* afterwards takes nothing back but the performance columns.              *)
FinalColumnsStay ==
    [][\A v \in VoteAccounts : \A e \in EpochId : Stored(v, e) =>
           LET row == validators[v][e]
               after == validators'[v][e]
           IN /\ after # NoRow
              /\ row.commission_effective => after.commission_effective
              /\ row.uptime => after.uptime
              /\ row.commission_observed => after.commission_observed]_vars

(* An epoch that ls-open-epochs lists has no final value yet: an epoch     *)
(* with half of its final values is never offered to be closed again.      *)
OpenEpochsUntouched ==
    \A e \in OpenEpochs : \A v \in VoteAccounts : Stored(v, e) =>
        LET row == validators[v][e]
        IN row.performance = "running" /\ ~row.uptime /\ ~row.commission_effective

=============================================================================
