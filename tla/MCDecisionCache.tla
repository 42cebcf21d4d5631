--------------------------- MODULE MCDecisionCache ---------------------------
(* Instances of DecisionCache for TLC: keys and hash values.               *)
EXTENDS DecisionCache

OneBitV4 == [f \in {4} |-> 1]
WholeRange == [f \in {4} |-> {0}]

(* The addresses collide, and the range has the hash value of an empty     *)
(* slot before it is shifted.                                              *)
CollidingFnv == [k \in Key |-> IF k.cidr THEN 3 * k.prefix ELSE 5]

(* A name shorter than MAX_SCENARIO_LEN.                                   *)
OneName == {<<"s">>}
=============================================================================
