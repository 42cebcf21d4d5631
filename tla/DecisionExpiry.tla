--------------------------- MODULE DecisionExpiry ---------------------------
(***************************************************************************)
(* The per-remediation deadlines of a cached decision (src/expiry.rs) and  *)
(* the bitmask of remediations they belong to (DecisionType in src/shm.rs).*)
(* A bitmask is the set of its remediations, a DecisionExpiry a function   *)
(* from remediation to deadline in seconds; deadline 0 means "no expiry".  *)
(***************************************************************************)
EXTENDS Naturals

(* DecisionType::Ban and DecisionType::Captcha, the two that have a bit.   *)
DecisionType == {"ban", "captcha"}

(* What from_bitmask answers for an empty mask.                            *)
UnknownType == "unknown"

(* DecisionType::from_bitmask: ban before captcha.                         *)
from_bitmask(types) ==
  CASE "ban" \in types -> "ban"
    [] "ban" \notin types /\ "captcha" \in types -> "captcha"
    [] OTHER -> UnknownType

Expiry == [DecisionType -> Nat]

(* DecisionExpiry::empty.                                                  *)
NoExpiry == [t \in DecisionType |-> 0]

(* A slip: 0 is compared like any deadline.                                *)
LaterDeadline_PlainMax(d, e) == IF d >= e THEN d ELSE e

(* The later of two deadlines, 0 being later than all.                     *)
LaterDeadline(d, e) ==
  IF d = 0 \/ e = 0 THEN 0 ELSE IF d >= e THEN d ELSE e

(* DecisionExpiry::merge.                                                  *)
merge(expires, present, t, deadline) ==
  [expires EXCEPT ![t] = IF t \in present THEN LaterDeadline(@, deadline)
                                          ELSE deadline]

(* DecisionExpiry::active_mask: a deadline that is reached is over.        *)
active_mask(expires, present, now) ==
  {t \in present : expires[t] = 0 \/ now < expires[t]}

(* DecisionExpiry::clear_bit.                                              *)
clear_bit(expires, t) == [expires EXCEPT ![t] = 0]

(* The deadlines DecisionExpiry::prune_inactive leaves behind; the mask it *)
(* returns is active_mask.                                                 *)
prune_inactive(expires, present, now) ==
  [t \in DecisionType |->
     IF t \in active_mask(expires, present, now) THEN expires[t] ELSE 0]
=============================================================================
