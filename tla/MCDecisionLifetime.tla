------------------------- MODULE MCDecisionLifetime -------------------------
EXTENDS DecisionLifetime

(* A second, a minute, and an hour, a minute and a second.                 *)
ShortToLong == {1, Minute + 1, Hour + Minute + 1}
=============================================================================
