------------------------------ MODULE Downtimes ------------------------------
(***************************************************************************)
(* What is computed from the `uptimes` table: the downtime of an epoch,    *)
(* which close-epoch stores (store/src/close_epoch.rs, update_uptimes),    *)
(* and the incidents that the API lists (store/src/utils.rs,               *)
(* load_incidents).  Both are compared with what the observations say,     *)
(* worked out without the table.                                           *)
(***************************************************************************)
EXTENDS Uptimes, FiniteSetsExt

CONSTANT IncidentsWindow  \* DEFAULT_INCIDENTS_WINDOW_EPOCHS, 90 in the code

ASSUME IncidentsAssumption == IncidentsWindow \in Nat

LengthOf(row) == row.end_at - row.start_at

DownRows(v) == {i \in DOMAIN uptimes[v] : uptimes[v][i].status = "DOWN"}

(* Faulty variant: every row is counted.                                   *)
TimeOfAnyStatus(v, e) ==
    SumFunction([i \in {i \in DOMAIN uptimes[v] : uptimes[v][i].epoch = e} |->
                    LengthOf(uptimes[v][i])])

(* SELECT SUM(end_at - start_at) WHERE epoch = $1 AND status = 'DOWN'      *)
Downtime(v, e) ==
    SumFunction([i \in {i \in DownRows(v) : uptimes[v][i].epoch = e} |->
                    LengthOf(uptimes[v][i])])

Incident(row) == [epoch |-> row.epoch, start_at |-> row.start_at, end_at |-> row.end_at]

(* WHERE status = 'DOWN' AND epoch > last_epoch - $1, where last_epoch is  *)
(* the largest epoch in cluster_info.  That table is filled by a command   *)
(* of its own and may be ahead of the uptimes or behind them.              *)
Incidents(v, last_epoch) ==
    {Incident(uptimes[v][i]) :
        i \in {i \in DownRows(v) : uptimes[v][i].epoch > last_epoch - IncidentsWindow}}

-----------------------------------------------------------------------------
(* What the observations say *)

(* The stored observations of v *)
Observed(v) == {s \in snapshots : s.created_at \in stored /\ Present(s, v)}

Later(seen, s) == {n \in seen : n.created_at > s.created_at}

(* The observation after s, in a set that is empty when there is none *)
Following(seen, s) ==
    {n \in Later(seen, s) : \A m \in Later(seen, s) : n.created_at <= m.created_at}

(* An observation holds until the next one if that is near, and else for a *)
(* moment.                                                                 *)
IsNear(s, n) == n.created_at < s.created_at + StatusTail + MaxDelay

InstantOf(next) == (CHOOSE n \in next : TRUE).created_at

HoldsUntil(seen, s) ==
    IF \E n \in Following(seen, s) : IsNear(s, n)
    THEN InstantOf(Following(seen, s))
    ELSE s.created_at + StatusTail

Delinquent(v) == {s \in Observed(v) : s.health[v] = "delinquent"}

TimeDown(v, e) ==
    SumFunction([s \in {s \in Delinquent(v) : s.epoch = e} |->
                    HoldsUntil(Observed(v), s) - s.created_at])

(* An outage goes on from one delinquent observation to the next, within   *)
(* an epoch, while they are near.                                          *)
GoesOn(v, s) ==
    \E n \in Following(Observed(v), s) :
        n \in Delinquent(v) /\ n.epoch = s.epoch /\ IsNear(s, n)

Begins(v, s) ==
    ~\E p \in Delinquent(v) : s \in Following(Observed(v), p) /\ GoesOn(v, p)

(* The first and the last observation of an outage *)
IsOutage(v, s, z) ==
    /\ s.created_at <= z.created_at
    /\ Begins(v, s)
    /\ ~GoesOn(v, z)
    /\ \A m \in Delinquent(v) :
           s.created_at <= m.created_at /\ m.created_at < z.created_at => GoesOn(v, m)

Outages(v) ==
    {[epoch |-> run[1].epoch,
      start_at |-> run[1].created_at,
      end_at |-> HoldsUntil(Observed(v), run[2])] :
        run \in {run \in Delinquent(v) \X Delinquent(v) : IsOutage(v, run[1], run[2])}}

-----------------------------------------------------------------------------
(* Properties *)

(* No command is under way or has left its work undone.                    *)
Settled == cmd = Idle /\ ~crashed /\ ~skipped

(* The incidents listed for a validator are its outages in the epochs of   *)
(* the window, whichever epoch cluster_info has last: one for each run of  *)
(* delinquent observations that are near each other, from the first of     *)
(* them to the moment the status was seen to be over (uptime.rs decides    *)
(* this row by row, without seeing the observations before; commands crash *)
(* and are run again).  The window cuts no outage in two, as one ends with *)
(* its epoch.                                                              *)
IncidentsAreOutages ==
    Settled =>
        \A v \in VoteAccounts, last_epoch \in Epochs :
            Incidents(v, last_epoch)
                = {o \in Outages(v) : o.epoch > last_epoch - IncidentsWindow}

(* The downtime summed up for an epoch is the time for which delinquent    *)
(* observations of this epoch hold, none of it twice and none missing      *)
(* where the epoch changes during an outage.                               *)
DowntimeIsTimeDown ==
    Settled => \A v \in VoteAccounts, e \in Epochs : Downtime(v, e) = TimeDown(v, e)

(* The downtime of an epoch is final once the validator has a row in a     *)
(* later one: close-epoch, which sums it once, is right from then on       *)
(* (before, the last row of the epoch may still be continued or cut).      *)
DowntimeFinal ==
    [][\A v \in VoteAccounts, e \in Epochs :
          (\E i \in DOMAIN uptimes[v] : uptimes[v][i].epoch > e)
              => Downtime(v, e)' = Downtime(v, e)]_vars

=============================================================================
