------------------------------ MODULE Uptimes ------------------------------
(***************************************************************************)
(* The `uptimes` table and the command that maintains it, `store uptime`   *)
(* (store/src/uptime.rs).  Each run of the command is a process of its own *)
(* that reads one performance snapshot, reads the latest row of every      *)
(* validator, updates the ends of some of these rows and inserts new rows. *)
(* The UPDATE and the INSERT are separate autocommitted statements, so the *)
(* command may stop between any two of them; it is then run again on the   *)
(* same snapshot, or the pipeline goes on with a later one.                *)
(*                                                                         *)
(* Time is counted in one unit for every timestamp; the code's one minute  *)
(* and five minutes are the constants StatusTail and MaxDelay.             *)
(***************************************************************************)
EXTENDS Integers, Sequences

CONSTANTS
    VoteAccounts,  \* the validators that may appear in a snapshot
    Instants,      \* the possible created_at of a snapshot (bounds time in TLC)
    Epochs,        \* the epochs a snapshot may be taken in
    StatusTail,    \* how long past its snapshot a status is taken to last
    MaxDelay       \* a row is continued only this long after its end

ASSUME UptimesAssumption ==
    /\ Instants \subseteq Nat
    /\ Epochs \subseteq Nat
    /\ StatusTail \in Nat \ {0}
    /\ MaxDelay \in Nat \ {0}

VARIABLES
    snapshots,  \* the performance snapshot files collected so far
    uptimes,    \* uptimes[v]: the rows of v in the order they were inserted
    cmd,        \* the `store uptime` command that is running, or Idle
    begun,      \* created_at of the snapshot the newest command was run on
    crashed,    \* whether that command stopped before it returned
    skipped,    \* whether a crashed command was ever not run again (history)
    stored      \* created_at of the snapshots some command was completed on

vars == <<snapshots, uptimes, cmd, begun, crashed, skipped, stored>>

-----------------------------------------------------------------------------
(* Records *)

Health == {"current", "delinquent", "absent"}

Snapshot == [created_at : Instants, epoch : Epochs, health : [VoteAccounts -> Health]]

Row == [status : {"UP", "DOWN"}, epoch : Epochs, start_at : Nat, end_at : Nat]

(* A row is identified by its account and its position, which stands for   *)
(* the serial id: rows are never deleted.  Position 0 is no row.           *)
Extension == [row : Nat, end_at : Nat]

NoExtension == [row |-> 0, end_at |-> 0]

Idle == [step |-> "idle"]

Command == [step : {"update", "insert"},
            snapshot : Snapshot,
            extended : SUBSET VoteAccounts,
            extensions : [VoteAccounts -> Extension]]

-----------------------------------------------------------------------------
(* What the command decides for one validator *)

StatusFromDelinquency(health) == IF health = "delinquent" THEN "DOWN" ELSE "UP"

Present(s, v) == s.health[v] # "absent"

(* SELECT DISTINCT ON (vote_account) ... ORDER BY vote_account, end_at DESC *)
LatestRow(v) ==
    CHOOSE i \in DOMAIN uptimes[v] :
        \A j \in DOMAIN uptimes[v] : uptimes[v][j].end_at <= uptimes[v][i].end_at

(* Faulty variant: the delay counted from the start of the row.            *)
WithinReachOfStart(v, s) ==
    /\ uptimes[v] # <<>>
    /\ Present(s, v)
    /\ uptimes[v][LatestRow(v)].start_at + MaxDelay > s.created_at

WithinReach(v, s) ==
    /\ uptimes[v] # <<>>
    /\ Present(s, v)
    /\ uptimes[v][LatestRow(v)].end_at + MaxDelay > s.created_at

Continues(row, v, s) ==
    /\ row.status = StatusFromDelinquency(s.health[v])
    /\ row.epoch = s.epoch

(* Faulty variant: a row is continued into the next epoch.                 *)
ExtendedAcrossEpochs(s) ==
    {v \in VoteAccounts :
        /\ WithinReach(v, s)
        /\ uptimes[v][LatestRow(v)].status = StatusFromDelinquency(s.health[v])}

ExtendedStatus(s) ==
    {v \in VoteAccounts : WithinReach(v, s) /\ Continues(uptimes[v][LatestRow(v)], v, s)}

(* Faulty variant: a row that is not continued is not cut at the snapshot. *)
ExtensionsWithoutCut(s) ==
    [v \in VoteAccounts |->
        IF WithinReach(v, s)
        THEN [row |-> LatestRow(v), end_at |-> s.created_at + StatusTail]
        ELSE NoExtension]

RecordsExtensions(s) ==
    [v \in VoteAccounts |->
        IF WithinReach(v, s)
        THEN [row |-> LatestRow(v),
              end_at |-> IF v \in ExtendedStatus(s)
                         THEN s.created_at + StatusTail
                         ELSE s.created_at]
        ELSE NoExtension]

(* Faulty variant: the delinquency is stored instead of the status.        *)
NewRowOfHealth(v, s) ==
    [status |-> s.health[v],
     epoch |-> s.epoch,
     start_at |-> s.created_at,
     end_at |-> s.created_at + StatusTail]

NewRow(v, s) ==
    [status |-> StatusFromDelinquency(s.health[v]),
     epoch |-> s.epoch,
     start_at |-> s.created_at,
     end_at |-> s.created_at + StatusTail]

-----------------------------------------------------------------------------
Init ==
    /\ snapshots = {}
    /\ uptimes = [v \in VoteAccounts |-> <<>>]
    /\ cmd = Idle
    /\ begun = 0
    /\ crashed = FALSE
    /\ skipped = FALSE
    /\ stored = {}

(* The collector writes a snapshot; its clock and the cluster's epoch only *)
(* move forward.                                                           *)
Collect(s) ==
    /\ \A old \in snapshots : old.created_at < s.created_at /\ old.epoch <= s.epoch
    /\ snapshots' = snapshots \cup {s}
    /\ UNCHANGED <<uptimes, cmd, begun, crashed, skipped, stored>>

(* A command starts on a snapshot that is no older than the one the last   *)
(* command was run on, reads the latest rows and decides what to write.    *)
SelectLatest(s) ==
    /\ cmd = Idle
    /\ s.created_at >= begun
    /\ cmd' = [step |-> "update",
               snapshot |-> s,
               extended |-> ExtendedStatus(s),
               extensions |-> RecordsExtensions(s)]
    /\ begun' = s.created_at
    /\ crashed' = FALSE
    /\ skipped' = (skipped \/ (crashed /\ s.created_at # begun))
    /\ UNCHANGED <<snapshots, uptimes, stored>>

(* Faulty variant: rows are matched by their account.                      *)
UpdateEndsOfAccount ==
    /\ cmd.step = "update"
    /\ uptimes' = [v \in VoteAccounts |->
                      LET x == cmd.extensions[v]
                      IN IF x = NoExtension
                         THEN uptimes[v]
                         ELSE [i \in DOMAIN uptimes[v] |->
                                  [uptimes[v][i] EXCEPT !.end_at = x.end_at]]]
    /\ cmd' = [cmd EXCEPT !.step = "insert"]
    /\ UNCHANGED <<snapshots, begun, crashed, skipped, stored>>

UpdateEnds ==
    /\ cmd.step = "update"
    /\ uptimes' = [v \in VoteAccounts |->
                      LET x == cmd.extensions[v]
                      IN IF x = NoExtension
                         THEN uptimes[v]
                         ELSE [uptimes[v] EXCEPT ![x.row].end_at = x.end_at]]
    /\ cmd' = [cmd EXCEPT !.step = "insert"]
    /\ UNCHANGED <<snapshots, begun, crashed, skipped, stored>>

(* Faulty variant: every validator gets a row, extended or not.            *)
InsertAllRows ==
    /\ cmd.step = "insert"
    /\ uptimes' = [v \in VoteAccounts |->
                      IF Present(cmd.snapshot, v)
                      THEN Append(uptimes[v], NewRow(v, cmd.snapshot))
                      ELSE uptimes[v]]
    /\ stored' = stored \cup {cmd.snapshot.created_at}
    /\ cmd' = Idle
    /\ UNCHANGED <<snapshots, begun, crashed, skipped>>

InsertRows ==
    /\ cmd.step = "insert"
    /\ uptimes' = [v \in VoteAccounts |->
                      IF Present(cmd.snapshot, v) /\ v \notin cmd.extended
                      THEN Append(uptimes[v], NewRow(v, cmd.snapshot))
                      ELSE uptimes[v]]
    /\ stored' = stored \cup {cmd.snapshot.created_at}
    /\ cmd' = Idle
    /\ UNCHANGED <<snapshots, begun, crashed, skipped>>

(* The process dies, or a statement fails and the command returns early.   *)
Crash ==
    /\ cmd # Idle
    /\ cmd' = Idle
    /\ crashed' = TRUE
    /\ UNCHANGED <<snapshots, uptimes, begun, skipped, stored>>

Next ==
    \/ \E s \in Snapshot : Collect(s)
    \/ \E s \in snapshots : SelectLatest(s)
    \/ UpdateEnds
    \/ InsertRows
    \/ Crash

Spec == Init /\ [][Next]_vars

-----------------------------------------------------------------------------
(* Properties *)

(* Every variable holds a value of its kind (rows, commands and snapshots  *)
(* as uptime.rs reads and writes them).                                    *)
TypeOK ==
    /\ snapshots \subseteq Snapshot
    /\ uptimes \in [VoteAccounts -> Seq(Row)]
    /\ cmd \in {Idle} \cup Command
    /\ begun \in Nat
    /\ crashed \in BOOLEAN
    /\ skipped \in BOOLEAN
    /\ stored \subseteq Instants

Ordered(rows) ==
    \A i, j \in DOMAIN rows :
        /\ rows[i].start_at < rows[i].end_at
        /\ i < j => rows[i].end_at <= rows[j].start_at

(* The rows of a validator are intervals of positive length, one after the *)
(* other: no instant is counted twice by the sums of downtime, and no      *)
(* length is negative (store/src/utils.rs converts it to an unsigned).     *)
RowsOrdered == \A v \in VoteAccounts : Ordered(uptimes[v])

Covers(row, t) == row.start_at <= t /\ t < row.end_at

(* What a completed command recorded stays on record whatever is stored,   *)
(* crashes or is run again later: the instant of each of its observations  *)
(* lies in a row with the status and the epoch that were observed.         *)
ObservationsKept ==
    \A s \in snapshots : s.created_at \in stored =>
        \A v \in VoteAccounts : Present(s, v) =>
            \E i \in DOMAIN uptimes[v] :
                Covers(uptimes[v][i], s.created_at) /\ Continues(uptimes[v][i], v, s)

(* One outage within one epoch is one row, as load_incidents counts them:  *)
(* successive rows with the same status and epoch are MaxDelay apart.      *)
OutagesNotSplit ==
    \A v \in VoteAccounts : \A i, j \in DOMAIN uptimes[v] :
        /\ j = i + 1
        /\ uptimes[v][i].status = uptimes[v][j].status
        /\ uptimes[v][i].epoch = uptimes[v][j].epoch
        => uptimes[v][i].end_at + MaxDelay <= uptimes[v][j].start_at

(* Running the command again on a snapshot it was completed on writes      *)
(* nothing new: neither statement changes the table.                       *)
RerunWritesNothing ==
    [][cmd # Idle /\ begun \in stored => UNCHANGED uptimes]_vars

=============================================================================
