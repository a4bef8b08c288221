--------------------------- MODULE ValidatorsList ---------------------------
(***************************************************************************)
(* What the API computes from the rows of the validators table that it has *)
(* in its cache: the ranks of validators in an epoch, who is listed, which *)
(* epochs a page shows, and which of them it shows aggregates for          *)
(* (update_validators_ranks, filter_validators, get_validators,            *)
(* aggregate_validators).                                                  *)
(*                                                                         *)
(* Of a row, the vote account and the epoch are kept, and of its numbers   *)
(* whether there is stake or credits.                                      *)
(***************************************************************************)
EXTENDS Integers, FiniteSetsExt, SequencesExt

CONSTANTS
    Validators,  \* the vote accounts
    Activated    \* who has stake or credits: a set of validators for each epoch

SaturatingSub(a, b) == IF a < b THEN 0 ELSE a - b

EpochsOf(rows) == {row[2] : row \in rows}

MaxEpochOf(rows) == Max(EpochsOf(rows) \cup {0})

-----------------------------------------------------------------------------
(* The rank that update_validators_ranks gives to the validator at `index` *)
(* (from 0) when the validators of an epoch are sorted by a field: order   *)
(* is the sorted sequence, values the field.                               *)

SameRanks(order, values) ==
    LET same[index \in 0..Len(order) - 1] ==
            IF index > 0 /\ values[order[index + 1]] = values[order[index]]
            THEN same[index - 1] + 1
            ELSE 0
    IN same

(* Faulty variant: validators with the same value are told apart.          *)
RankByIndex(order, values, index) == Len(order) - index

Rank(order, values, index) == Len(order) - index + SameRanks(order, values)[index]

-----------------------------------------------------------------------------
(* filter_validators, without the conditions of a query *)

MIN_REQUIRED_EPOCHS_IN_THE_PAST == 1

(* Faulty variant: stake or credits in one of the epochs are enough.       *)
ListedOnce(rows) ==
    LET last == MaxEpochOf(rows)
        required == SaturatingSub(last, MIN_REQUIRED_EPOCHS_IN_THE_PAST)..last
    IN {v \in Validators :
            \E e \in required : <<v, e>> \in rows /\ v \in Activated[e]}

Listed(rows) ==
    LET last == MaxEpochOf(rows)
        required == SaturatingSub(last, MIN_REQUIRED_EPOCHS_IN_THE_PAST)..last
    IN {v \in Validators :
            \A e \in required : <<v, e>> \in rows /\ v \in Activated[e]}

(* get_validators: the rows of the listed validators in the last epochs    *)
ShownEpochs(rows, epochs) ==
    LET listed == {row \in rows : row[1] \in Listed(rows)}
    IN {e \in EpochsOf(listed) : e >= SaturatingSub(MaxEpochOf(listed) + 1, epochs)}

(* Faulty variant: the first epochs instead of the last ones.              *)
FirstEpochs(rows, epochs) ==
    {e \in EpochsOf(rows) : Cardinality({f \in EpochsOf(rows) : f < e}) < epochs}

(* aggregate_validators makes one record for each epoch of any cached row  *)
(* and sorts them by epoch; the handler takes the first ones.              *)
AggregatedEpochs(rows, epochs) ==
    {e \in EpochsOf(rows) : Cardinality({f \in EpochsOf(rows) : f > e}) < epochs}

=============================================================================
