----------------------------- MODULE ChangeLog -----------------------------
(***************************************************************************)
(* The `commissions` and `versions` tables and the commands that maintain  *)
(* them, `store commissions` and `store versions`.  Both keep a log: a row *)
(* is written only when the value of a validator, or the epoch, differs    *)
(* from its latest row.  The two tables are alike; Value is what is logged *)
(* (a version may be missing: that is a value too).                        *)
(*                                                                         *)
(* Each command is a process that reads the latest rows and then inserts   *)
(* the changes in one statement.  The commands of one table run one after  *)
(* another, on snapshots in the order they were collected, but a failed    *)
(* command may be run again or skipped.                                    *)
(***************************************************************************)
EXTENDS Integers, Sequences, FiniteSets

CONSTANTS
    VoteAccounts,
    Value,          \* commissions, or versions
    NoValue,        \* for a validator that is not in the snapshot
    Epochs,
    MaxSnapshots    \* bound on the snapshots collected

ASSUME ChangeLogAssumption ==
    /\ NoValue \notin Value
    /\ Epochs \subseteq Nat
    /\ MaxSnapshots \in Nat

VARIABLES
    snapshots,  \* the performance snapshots; the index is created_at
    log,        \* the table
    cmd,        \* the command that is running, or Idle
    begun,      \* created_at of the snapshot the newest command was run on
    stored      \* created_at of the snapshots some command was completed on

vars == <<snapshots, log, cmd, begun, stored>>

-----------------------------------------------------------------------------
CreatedAt == 1..MaxSnapshots

Snapshot == [epoch : Epochs, value : [VoteAccounts -> Value \cup {NoValue}]]

Row == [vote_account : VoteAccounts, created_at : CreatedAt, epoch : Epochs, value : Value]

(* What the command inserts, worked out from the rows that it selected *)
Command == [snapshot : CreatedAt, changes : SUBSET Row]

Idle == [snapshot |-> 0, changes |-> {}]

Present(i, v) == snapshots[i].value[v] # NoValue

RowsOf(v) == {r \in log : r.vote_account = v}

(* Faulty variant: ORDER BY created_at without DESC.                       *)
OldestRow(v) == {r \in RowsOf(v) : \A s \in RowsOf(v) : r.created_at <= s.created_at}

(* SELECT DISTINCT ON (vote_account) ... ORDER BY vote_account, created_at *)
(* DESC: the latest row, in a set that is empty when there is none         *)
LatestRow(v) == {r \in RowsOf(v) : \A s \in RowsOf(v) : s.created_at <= r.created_at}

(* Faulty variant: a new epoch with the same value is no change.           *)
SkippedInAnyEpoch(i) ==
    {v \in VoteAccounts : Present(i, v) /\
        \E r \in LatestRow(v) : r.value = snapshots[i].value[v]}

Skipped(i) ==
    {v \in VoteAccounts : Present(i, v) /\
        \E r \in LatestRow(v) :
            r.epoch = snapshots[i].epoch /\ r.value = snapshots[i].value[v]}

RowOf(v, i) ==
    [vote_account |-> v,
     created_at |-> i,
     epoch |-> snapshots[i].epoch,
     value |-> snapshots[i].value[v]]

-----------------------------------------------------------------------------
Init ==
    /\ snapshots = <<>>
    /\ log = {}
    /\ cmd = Idle
    /\ begun = 0
    /\ stored = {}

Collect(s) ==
    /\ Len(snapshots) < MaxSnapshots
    /\ snapshots # <<>> => snapshots[Len(snapshots)].epoch <= s.epoch
    /\ snapshots' = Append(snapshots, s)
    /\ UNCHANGED <<log, cmd, begun, stored>>

(* Faulty variant: validators without a value in the snapshot are kept.    *)
SelectLatestOfAll(i) ==
    /\ cmd = Idle
    /\ begun <= i
    /\ cmd' = [snapshot |-> i, changes |-> {RowOf(v, i) : v \in VoteAccounts \ Skipped(i)}]
    /\ begun' = i
    /\ UNCHANGED <<snapshots, log, stored>>

SelectLatest(i) ==
    /\ cmd = Idle
    /\ begun <= i
    /\ cmd' = [snapshot |-> i,
               changes |-> {RowOf(v, i) : v \in {u \in VoteAccounts : Present(i, u)} \ Skipped(i)}]
    /\ begun' = i
    /\ UNCHANGED <<snapshots, log, stored>>

InsertChanges ==
    /\ cmd # Idle
    /\ log' = log \cup cmd.changes
    /\ stored' = stored \cup {cmd.snapshot}
    /\ cmd' = Idle
    /\ UNCHANGED <<snapshots, begun>>

Crash ==
    /\ cmd # Idle
    /\ cmd' = Idle
    /\ UNCHANGED <<snapshots, log, begun, stored>>

Next ==
    \/ \E s \in Snapshot : Collect(s)
    \/ \E i \in DOMAIN snapshots : SelectLatest(i)
    \/ InsertChanges
    \/ Crash

Spec == Init /\ [][Next]_vars

-----------------------------------------------------------------------------
(* Properties *)

(* Every variable holds a value of its kind, and a validator has at most   *)
(* one row for one snapshot.                                               *)
TypeOK ==
    /\ snapshots \in Seq(Snapshot) /\ Len(snapshots) <= MaxSnapshots
    /\ log \subseteq Row
    /\ \A r, s \in log :
           r.vote_account = s.vote_account /\ r.created_at = s.created_at => r = s
    /\ cmd \in {Idle} \cup Command
    /\ begun \in 0..MaxSnapshots
    /\ stored \subseteq CreatedAt

(* The last row of v up to snapshot i *)
InForce(v, i) ==
    {r \in RowsOf(v) :
        /\ r.created_at <= i
        /\ \A s \in RowsOf(v) : s.created_at <= i => s.created_at <= r.created_at}

(* The log tells what every stored snapshot said, with as few rows as it   *)
(* has, and whatever is stored, skipped or run again later: the row in     *)
(* force at the snapshot has its value and its epoch.  close-epoch and the *)
(* rugger report rely on it, and on a row in every epoch.                  *)
LogTellsSnapshots ==
    \A i \in stored : \A v \in VoteAccounts : Present(i, v) =>
        \E r \in InForce(v, i) :
            r.value = snapshots[i].value[v] /\ r.epoch = snapshots[i].epoch

(* A row is a change: it differs in value or epoch from the row before it. *)
RowsAreChanges ==
    \A r \in log : \A s \in InForce(r.vote_account, r.created_at - 1) :
        r.value # s.value \/ r.epoch # s.epoch

=============================================================================
