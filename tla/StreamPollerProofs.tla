------------------------- MODULE StreamPollerProofs -------------------------
(***************************************************************************)
(* Proofs about StreamPoller, for every set of decisions and every number  *)
(* of failures, lost answers and takeovers.                                *)
(***************************************************************************)
EXTENDS StreamPoller, TLAPS

(* What apply_to_shm writes into the cache are remediations of the types   *)
(* the cache can store.                                                    *)
LEMMA RemediationType ==
  ASSUME NEW d \in Decision, Applies(d)
  PROVE  Remediation(d) \in [key : Keys, type : KnownTypes]
BY DecisionAssumption, PolicyAssumption
   DEF Applies, Remediation, resolve_decision_type

LEMMA TakenType ==
  ASSUME TypeOK, NEW startup \in BOOLEAN
  PROVE  Taken(startup) \subseteq [key : Keys, type : KnownTypes]
BY RemediationType DEF TypeOK, Taken, Image

(* Type correctness of the poller's state, the attempt counter of          *)
(* poll_with_retry included.                                               *)
LEMMA PollerTypeStep ==
  ASSUME TypeOK, [Next]_vars, phase = "retry" => attempt < max_retries
  PROVE  TypeOK' /\ (phase = "retry" => attempt < max_retries)'
<1> USE PollBoundAssumption DEF TypeOK, bounds, NoBatch
<1>1. CASE UNCHANGED vars
  BY <1>1 DEF vars
<1>2. CASE Decide
  BY <1>2 DEF Decide
<1>3. CASE BecomePoller
  BY <1>3 DEF BecomePoller
<1>4. CASE StartupPoll
  BY <1>4, TakenType DEF StartupPoll, poll, Answer
<1>5. CASE Retry
  BY <1>5 DEF Retry
<1>6. CASE DeltaPoll
  BY <1>6, TakenType DEF DeltaPoll, poll, Answer
<1>7. CASE Applied
  BY <1>7 DEF Applied
<1>8. ASSUME NEW d \in Decision, ApplyDeleted(d) PROVE TypeOK' /\ phase' # "retry"
  BY <1>8 DEF ApplyDeleted
<1>9. ASSUME NEW d \in Decision, ApplyNew(d) PROVE TypeOK' /\ phase' # "retry"
  BY <1>9, RemediationType DEF ApplyNew
<1>10. CASE StartupUnreached
  BY <1>10 DEF StartupUnreached, AfterError
<1>11. CASE StartupLost
  BY <1>11 DEF StartupLost, AfterError
<1>12. CASE DeltaLost
  BY <1>12 DEF DeltaLost
<1>13. CASE Stop
  BY <1>13 DEF Stop
<1>14. CASE Crash
  BY <1>14 DEF Crash
<1> QED
  BY <1>1, <1>2, <1>3, <1>4, <1>5, <1>6, <1>7, <1>8, <1>9, <1>10, <1>11, <1>12,
     <1>13, <1>14 DEF Next, PollerStep

(* A deleted decision that is applied leaves the rest of the batch to do.  *)
LEMMA ImageWithout ==
  ASSUME NEW D \in SUBSET Decision, NEW d \in D
  PROVE  Image(D) = Image(D \ {d}) \union (IF Applies(d) THEN {Remediation(d)} ELSE {})
BY DEF Image

(* The rows of two sets of decisions together.                             *)
LEMMA ImageUnion ==
  ASSUME NEW D, NEW E
  PROVE  Image(D \union E) = Image(D) \union Image(E)
BY DEF Image

(* Every step of the poller keeps the sum of the cache and the batch.      *)
LEMMA AddsUpStep ==
  ASSUME TypeOK, AddsUp, [Next]_vars
  PROVE  AddsUp'
<1> USE DEF TypeOK, AddsUp, NoBatch
<1>0. Image({}) = {}
  BY DEF Image
<1>1. CASE UNCHANGED vars
  BY <1>1 DEF vars, Image
<1>2. CASE \/ Decide \/ BecomePoller \/ Retry \/ StartupUnreached \/ Stop
  BY <1>2 DEF Decide, BecomePoller, Retry, StartupUnreached, AfterError, Stop, bounds
<1>3. CASE StartupPoll
  <2>1. /\ batch' = [deleted |-> pulled \ lapi, new |-> lapi]
        /\ pulled' = lapi /\ cache' = {} /\ phase' = "apply_startup" /\ taken' = {}
    BY <1>3 DEF StartupPoll, poll, Answer, Taken
  <2>2. QED
    BY <2>1
<1>4. CASE DeltaPoll
  <2> DEFINE gone == pulled \ lapi
             new == lapi \ pulled
             stay == pulled \intersect lapi
  <2>1. /\ batch' = [deleted |-> gone, new |-> new]
        /\ pulled' = lapi /\ cache' = cache /\ phase' = "apply" /\ dirty' = dirty
        /\ taken' = (taken \union Image(gone)) \ Image(new)
        /\ phase = "sleep"
    BY <1>4 DEF DeltaPoll, poll, Answer, Taken
  <2>2. Image(pulled) = Image(stay) \union Image(gone)
    <3>1. pulled = stay \union gone
      OBVIOUS
    <3>2. QED
      BY <3>1, ImageUnion
  <2>3. Image(lapi) = Image(stay) \union Image(new)
    <3>1. lapi = stay \union new
      OBVIOUS
    <3>2. QED
      BY <3>1, ImageUnion
  <2>4. /\ Image(new) \intersect taken' = {}
        /\ Image(gone) \intersect Image(lapi) \subseteq taken' \union Image(new)
    BY <2>1
  <2>5. ASSUME ~dirty
        PROVE  /\ cache \subseteq (Image(lapi) \ taken') \union Image(gone)
               /\ Image(lapi) \ taken' \subseteq cache \union Image(new)
    <3>1. batch.deleted = {} /\ batch.new = {}
      BY <2>1
    <3>2. Image(batch.deleted) = {} /\ Image(batch.new) = {}
      BY <1>0, <3>1
    <3>3. /\ cache \subseteq (Image(pulled) \ taken) \union Image(batch.deleted)
          /\ Image(pulled) \ taken \subseteq cache \union Image(batch.new)
      BY <2>5
    <3>4. cache \subseteq Image(pulled) \ taken /\ Image(pulled) \ taken \subseteq cache
      BY <3>2, <3>3
    <3>5. QED
      BY <2>1, <2>2, <2>3, <3>4
  <2> HIDE DEF gone, new
  <2>6. batch'.new \subseteq pulled'
    BY <2>1 DEF new
  <2>7. QED
    BY <2>1, <2>4, <2>5, <2>6
<1>5. ASSUME NEW d \in Decision, ApplyDeleted(d) PROVE AddsUp'
  <2> DEFINE rest == batch.deleted \ {d}
  <2>1. /\ d \in batch.deleted
        /\ batch' = [batch EXCEPT !.deleted = rest]
        /\ cache' = IF Applies(d) THEN cache \ {Remediation(d)} ELSE cache
        /\ pulled' = pulled /\ phase' = phase /\ dirty' = dirty /\ taken' = taken
        /\ phase \in {"apply", "apply_startup"}
    BY <1>5 DEF ApplyDeleted
  <2>2. Image(batch.deleted) = Image(rest) \union (IF Applies(d) THEN {Remediation(d)} ELSE {})
    BY <2>1, ImageWithout
  <2>3. batch'.deleted = rest /\ batch'.new = batch.new
    BY <2>1
  <2> HIDE DEF rest
  <2>4. ASSUME ~dirty \/ phase = "apply_startup"
        PROVE  /\ cache' \subseteq (Image(pulled) \ taken) \union Image(rest)
               /\ Image(pulled) \ taken \subseteq cache' \union Image(batch.new)
    BY <2>1, <2>2, <2>4
  <2>5. Image(rest) \intersect Image(pulled) \subseteq taken \union Image(batch.new)
    BY <2>2
  <2>6. QED
    BY <2>1, <2>3, <2>4, <2>5
<1>6. ASSUME NEW d \in Decision, ApplyNew(d) PROVE AddsUp'
  <2> DEFINE rest == batch.new \ {d}
             row == IF Applies(d) THEN {Remediation(d)} ELSE {}
  <2>1. /\ d \in batch.new /\ batch.deleted = {}
        /\ batch' = [batch EXCEPT !.new = rest]
        /\ cache' = cache \union row
        /\ pulled' = pulled /\ phase' = phase /\ dirty' = dirty /\ taken' = taken
        /\ phase \in {"apply", "apply_startup"}
    BY <1>6 DEF ApplyNew
  <2>2. Image(batch.new) = Image(rest) \union row
    BY <2>1, ImageWithout
  <2>3. row \subseteq Image(pulled)
    BY <2>1 DEF Image
  <2>4. batch'.deleted = {} /\ batch'.new = rest /\ rest \subseteq pulled
    BY <2>1
  <2> HIDE DEF rest, row
  <2>5. ASSUME ~dirty \/ phase = "apply_startup"
        PROVE  /\ cache' \subseteq (Image(pulled) \ taken) \union Image(batch'.deleted)
               /\ Image(pulled) \ taken \subseteq cache' \union Image(rest)
    BY <1>0, <2>1, <2>2, <2>3, <2>4, <2>5
  <2>6. Image(rest) \intersect taken = {}
    BY <2>2
  <2>7. QED
    BY <1>0, <2>1, <2>4, <2>5, <2>6
<1>7. CASE Applied
  BY <1>7 DEF Applied
<1>8. CASE StartupLost \/ DeltaLost
  <2>1. /\ batch = NoBatch /\ batch' = NoBatch /\ cache' = cache /\ taken' = taken
        /\ phase' # "apply_startup"
    BY <1>8 DEF StartupLost, DeltaLost, AfterError
  <2>2. ~dirty' => ~dirty /\ pulled' = pulled
    BY <1>8 DEF StartupLost, DeltaLost
  <2> QED
    BY <1>0, <2>1, <2>2
<1>9. CASE Crash
  BY <1>0, <1>9 DEF Crash
<1> QED
  BY <1>1, <1>2, <1>3, <1>4, <1>5, <1>6, <1>7, <1>8, <1>9 DEF Next, PollerStep

(* The poller's state keeps its type whatever fails; poll_with_retry never *)
(* counts past max_retries.                                                *)
THEOREM PollerTypeCorrect == Spec => []TypeOK
<1> DEFINE Inv == TypeOK /\ (phase = "retry" => attempt < max_retries)
<1>1. Init => Inv
  BY PollBoundAssumption DEF Init, TypeOK, NoBatch
<1>2. Inv /\ [Next]_vars => Inv'
  BY PollerTypeStep
<1> QED
  BY <1>1, <1>2, PTL DEF Spec

(* The cache and what is left of a batch add up to what LAPI has told,     *)
(* unless an answer was lost or a poller killed while it applied a batch   *)
(* since the last full sync.                                               *)
LEMMA BatchAddsUp == Spec => []AddsUp
<1>1. Init => AddsUp
  <2> SUFFICES ASSUME Init PROVE AddsUp
    OBVIOUS
  <2>1. cache = {} /\ batch.deleted = {} /\ batch.new = {} /\ phase = "elect"
    BY DEF Init, NoBatch
  <2>2. ~dirty => pulled = {}
    BY DEF Init
  <2>3. Image({}) = {}
    BY DEF Image
  <2> QED
    BY <2>1, <2>2, <2>3 DEF AddsUp, Init
<1>2. TypeOK /\ AddsUp /\ [Next]_vars => AddsUp'
  BY AddsUpStep
<1> QED
  BY <1>1, <1>2, PollerTypeCorrect, PTL DEF Spec

(* Between two polls the cache is what LAPI has told, less the rows that a  *)
(* later deletion shares: poll and apply_to_shm forget nothing and invent  *)
(* nothing, whatever fails.                                                *)
THEOREM CacheInSync == Spec => []InSync
<1>1. AddsUp => InSync
  <2>1. Image({}) = {}
    BY DEF Image
  <2> QED
    BY <2>1 DEF AddsUp, InSync, Agrees, NoBatch
<1> QED
  BY <1>1, BatchAddsUp, PTL

(* No step outside the start of a full sync takes a decision in force out  *)
(* of the cache, not even for a moment: apply_to_shm removes what LAPI has *)
(* deleted and nothing beside it, so a decision loses its row only to the  *)
(* deletion of another one with the same row.                              *)
THEOREM CacheHeldThroughDelta == Spec => HeldThroughDelta
<1> DEFINE Held == cache \intersect Image(pulled \intersect pulled') \subseteq
                     cache' \union taken' \union Renewed
<1>1. ASSUME TypeOK, AddsUp, [Next]_vars, phase # "startup"
      PROVE  Held
  <2>1. ASSUME NEW d \in Decision, ApplyDeleted(d)
        PROVE  Held
    <3>1. /\ d \in batch.deleted /\ pulled' = pulled /\ taken' = taken
          /\ cache' = IF Applies(d) THEN cache \ {Remediation(d)} ELSE cache
      BY <2>1 DEF ApplyDeleted
    <3>2. Applies(d) => Remediation(d) \in Image(batch.deleted)
      BY <3>1 DEF Image
    <3>3. Image(batch.deleted) \intersect Image(pulled) \subseteq taken \union Renewed
      BY <1>1 DEF AddsUp, Renewed
    <3>4. pulled \intersect pulled' = pulled
      BY <3>1
    <3> QED
      BY <3>1, <3>2, <3>3, <3>4
  <2>2. CASE \A d \in Decision : ~ApplyDeleted(d)
    <3>1. cache \subseteq cache'
      BY <1>1, <2>2 DEF Next, PollerStep, vars, Decide, BecomePoller, StartupPoll, Retry,
         DeltaPoll, poll, Applied, ApplyNew, StartupUnreached, StartupLost, DeltaLost,
         Stop, Crash
    <3> QED
      BY <3>1
  <2> QED
    BY <2>1, <2>2
<1>2. TypeOK /\ AddsUp /\ [Next]_vars => [phase # "startup" => Held]_vars
  BY <1>1
<1> QED
  BY <1>2, BatchAddsUp, PollerTypeCorrect, PTL DEF Spec, HeldThroughDelta

(* If no deletion shares a row, the agreement is equality.                 *)
LEMMA AgreesWithoutShared ==
  ASSUME NEW D, taken \intersect Image(D) = {}, Agrees(D)
  PROVE  cache = Image(D)
BY DEF Agrees
=============================================================================
