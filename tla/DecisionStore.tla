---------------------------- MODULE DecisionStore ----------------------------
(***************************************************************************)
(* What the decision cache promises to the request handlers, with nothing  *)
(* of how the table works: for every key and remediation, until when a     *)
(* decision is in force, and who decided.  A decision ends when its time   *)
(* is over, when LAPI deletes it, when the store is cleared, and in one    *)
(* other case only: a key without a decision is added while Capacity keys  *)
(* have one.  Module DecisionCache implements this store.                  *)
(***************************************************************************)
EXTENDS Integers, FiniteSets

CONSTANTS
  Key,            \* addresses and ranges
  Remediation,    \* ban, captcha
  Capacity,       \* how many keys the store can hold
  End,            \* when decisions may end
  Origin,         \* who may decide
  ScenarioId,     \* ids of scenarios, 0 for none
  MaxTime,        \* bound on the clock
  Nobody          \* the origin of no decision

VARIABLES
  store,          \* store[k]: what is in force for k
  now

vars == <<store, now>>

(* Nothing in force.                                                       *)
Never == [r \in Remediation |-> 0]
Nothing == [until |-> Never, origin |-> Nobody, scenario |-> 0]

(* A row at time t: what has ended is forgotten.                           *)
At(row, t) ==
  LET until == [r \in Remediation |-> IF row.until[r] > t THEN row.until[r] ELSE 0]
  IN  IF until = Never THEN Nothing ELSE [row EXCEPT !.until = until]

Later(a, b) == IF a >= b THEN a ELSE b

(* A row with one more decision.                                           *)
Extended(row, r, end, who, id) ==
  [until |-> [row.until EXCEPT ![r] = Later(@, end)],
   origin |-> who,
   scenario |-> IF id # 0 THEN id ELSE row.scenario]

Init ==
  /\ store = [k \in Key |-> Nothing]
  /\ now = 1

(* A row with some decision more.                                          *)
Extensions(row) ==
  {At(Extended(row, r, end, who, id), now) :
     r \in Remediation, end \in End, who \in Origin, id \in ScenarioId}

(* A decision about k takes the store from before to after.  If k has none *)
(* and the store is full, the decision of another key has to go.           *)
AddedTo(before, after, k) ==
  LET known == {j \in Key : before[j] # Nothing}
      stored == [before EXCEPT ![k] = after[k]]
  IN  /\ IF k \notin known /\ Cardinality(known) = Capacity
           THEN \E victim \in known : after = [stored EXCEPT ![victim] = Nothing]
           ELSE after = stored
      /\ after[k] \in Extensions(before[k])

Add(before, after) ==
  /\ UNCHANGED now
  /\ \E k \in Key : AddedTo(before, after, k)

Remove(before, after) ==
  /\ UNCHANGED now
  /\ \E k \in Key, r \in Remediation :
       after = [before EXCEPT ![k] = At([@ EXCEPT !.until[r] = 0], now)]

Clear(after) ==
  /\ UNCHANGED now
  /\ after = [k \in Key |-> Nothing]

Tick(before, after) ==
  /\ now < MaxTime
  /\ now' = now + 1
  /\ after = [k \in Key |-> At(before[k], now + 1)]

(* The actions speak of the store before and after a step by name, so that *)
(* an implementation's state is abstracted once for each.                  *)
Next ==
  \E before \in {store}, after \in {store'} :
    \/ Tick(before, after)
    \/ Clear(after)
    \/ Remove(before, after)
    \/ Add(before, after)

Spec == Init /\ [][Next]_vars
=============================================================================
