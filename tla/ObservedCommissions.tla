------------------------- MODULE ObservedCommissions -------------------------
(***************************************************************************)
(* What is computed from the `commissions` table: the least commission     *)
(* observed in an epoch (close_epoch.rs, update_observed_commission), and  *)
(* from it and the commissions charged the epochs that load_ruggers        *)
(* (utils.rs) counts against a validator.                                  *)
(***************************************************************************)
EXTENDS ChangeLog, FiniteSetsExt

CONSTANT Limit  \* the highest commission that is no offence, 10 in the code

ASSUME ObservedAssumption == Value \subseteq Nat /\ Limit \in Nat

(* Faulty variant: the values of all epochs.                               *)
LoggedInAnyEpoch(v, e) == {r.value : r \in RowsOf(v)}

(* SELECT ... FROM commissions WHERE epoch = $1 GROUP BY vote_account      *)
Logged(v, e) == {r.value : r \in {s \in RowsOf(v) : s.epoch = e}}

(* LEAST passes over a missing value, here an empty set.                   *)
CommissionMinObserved(v, e, advertised, effective) ==
    Min(Logged(v, e) \cup {advertised, effective})

(* In SQL no comparison with a missing value is true.                      *)
Above(commission) == commission # NoValue /\ commission > Limit

Within(commission) == commission # NoValue /\ commission <= Limit

(* The row of a closed epoch in `validators`, and what load_ruggers finds  *)
(* in it.  prev and next are the effective commissions of the validator's  *)
(* rows before and after it, LAG and LEAD, or NoValue where there is no    *)
(* such row or it has none, as its epoch is not closed.                    *)
ClosedRow(v, e, advertised, effective) ==
    [effective |-> effective,
     min_observed |-> CommissionMinObserved(v, e, advertised, effective)]

IsRugged(row, prev, next) ==
    \/ /\ Above(row.effective) /\ Within(row.min_observed)
       /\ row.effective > row.min_observed
    \/ Above(prev) /\ Within(row.effective) /\ Above(next)
    \/ Within(prev) /\ Above(row.effective) /\ Within(next)

-----------------------------------------------------------------------------
(* Properties *)

(* What v showed in epoch e, in a snapshot that was stored or in the       *)
(* closing one                                                             *)
Shown(v, e, advertised) ==
    {snapshots[i].value[v] : i \in {j \in stored : snapshots[j].epoch = e /\ Present(j, v)}}
        \cup {advertised}

ShowedLess(v, e, advertised, effective) ==
    effective > Limit /\ \E c \in Shown(v, e, advertised) : c <= Limit

(* What v charged left the side of the limit where it was the epoch before *)
(* and came back to it in the next one.                                    *)
ForOneEpoch(prev, effective, next) ==
    /\ NoValue \notin {prev, next}
    /\ (prev > Limit) = (next > Limit)
    /\ (prev > Limit) # (effective > Limit)

(* An epoch counts against a validator if and only if it charged more than *)
(* the limit and showed at most the limit at some time in this epoch,      *)
(* although the log need not have a row of each snapshot and commands      *)
(* crash, are run again or are skipped, or what it charged crossed the     *)
(* limit for this epoch alone.  (More than one such epoch make it a        *)
(* rugger.)                                                                *)
RuggersReported ==
    LET closed ==
            {<<ClosedRow(v, e, advertised, effective), ShowedLess(v, e, advertised, effective)>> :
                v \in VoteAccounts, e \in Epochs, advertised, effective \in Value}
    IN \A c \in closed : \A prev, next \in Value \cup {NoValue} :
           IsRugged(c[1], prev, next) <=> c[2] \/ ForOneEpoch(prev, c[1].effective, next)

=============================================================================
