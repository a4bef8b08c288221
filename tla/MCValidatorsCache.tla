------------------------- MODULE MCValidatorsCache -------------------------
(* Two validators over five epochs: `b` joins in the third epoch and has   *)
(* neither stake nor credits until the fourth.                             *)
EXTENDS ValidatorsCache

CONSTANTS a, b

TwoValidators == {a, b}

BJoinsLater == <<{a}, {a}, {a, b}, {a, b}, {a, b}>>

BActivatedLast == <<{a}, {a}, {a}, {a, b}, {a, b}>>

=============================================================================
