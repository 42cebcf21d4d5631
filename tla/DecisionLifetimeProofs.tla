----------------------- MODULE DecisionLifetimeProofs -----------------------
(***************************************************************************)
(* Theorems about DecisionLifetime, for every length of a second, a minute *)
(* and an hour, every length of decisions and every delay.                 *)
(***************************************************************************)
EXTENDS DecisionLifetime, TLAPS

-----------------------------------------------------------------------------
(* Arithmetic.                                                             *)

LEMMA DivMod ==
  ASSUME NEW n \in Nat, NEW k \in Nat \ {0}
  PROVE  /\ n \div k \in Nat /\ n % k \in 0 .. k - 1
         /\ n = (k * (n \div k)) + (n % k)
OBVIOUS

LEMMA DivBounds ==
  ASSUME NEW n \in Nat, NEW k \in Nat \ {0}
  PROVE  /\ n \div k \in Nat /\ k * (n \div k) <= n /\ n < (k * (n \div k)) + k
BY DivMod

LEMMA Multiples ==
  ASSUME NEW k \in Nat \ {0}, NEW a \in Int, NEW b \in Int, a < b
  PROVE  k * a + k <= k * b
OBVIOUS

LEMMA MulInt ==
  ASSUME NEW k \in Int, NEW a \in Int
  PROVE  k * a \in Int
OBVIOUS

LEMMA DivMonotone ==
  ASSUME NEW k \in Nat \ {0}, NEW a \in Nat, NEW b \in Nat, a <= b
  PROVE  a \div k <= b \div k
<1>1. CASE b \div k < a \div k
  BY <1>1, DivMod, Multiples
<1> QED BY <1>1, DivMod

LEMMA WrapFits ==
  ASSUME NEW n \in Nat
  PROVE  /\ Wrap(n) \in -I64 .. I64 - 1
         /\ n < I64 => Wrap(n) = n
BY LengthAssumption DEF Wrap

-----------------------------------------------------------------------------
(* The invariant.                                                          *)

(* A decision that is in force at LAPI is so for one of the lengths.       *)
LapiEnds ==
  \A t \in Types : InForce(t) => \E n \in Lengths : lapi[t] <= now + n * Ticks

(* A text that was rounded when the answer was sent, to within half a      *)
(* second, and fits a word with every clock.                               *)
Answered(text, ends) ==
  /\ ends \in Nat /\ text \in Text
  /\ ~text.other =>
       /\ Seconds(text) + (MaxTime \div Ticks) < I64
       /\ 2 * (Ticks * Seconds(text)) <= 2 * (ends - (now - answer.age)) + Ticks
       /\ 2 * (ends - (now - answer.age)) < 2 * (Ticks * Seconds(text)) + Ticks

AnswerOK ==
  /\ answer = [sent |-> answer.sent, deleted |-> answer.deleted, new |-> answer.new,
               ends |-> answer.ends, age |-> answer.age]
  /\ answer.sent \/ answer = NoAnswer
  /\ answer.age \in 0 .. MaxDelay /\ answer.age <= now
  /\ answer.deleted \subseteq Types /\ DOMAIN answer.new \subseteq Types
  /\ \A t \in DOMAIN answer.new : Answered(answer.new[t], answer.ends[t])

(* The deadline of a remediation: none if nobody knows the end, otherwise  *)
(* late by the delay and half a second at most, early by a second and a    *)
(* half at most, unless it may have been removed by now.                   *)
Timed(r, t, end, without) ==
  /\ without <=> t \in r.types /\ r.expires[t] = 0
  /\ t \notin r.types => r.expires[t] = 0
  /\ r.expires[t] # 0 =>
       r.expires[t] > 0 /\ 2 * (Ticks * r.expires[t]) <= 2 * (end + MaxDelay) + Ticks
  /\ \/ t \in r.types /\ (r.expires[t] # 0 => 2 * (Ticks * r.expires[t]) > 2 * end - 3 * Ticks)
     \/ 2 * (end - now) <= 3 * Ticks

Row == [types : SUBSET DecisionType, expires : [DecisionType -> -I64 .. I64 - 1]]

End(t) == IF t \in Types THEN applied[t] ELSE 0

RowOK ==
  /\ row \in Row /\ row.types \subseteq Types
  /\ unread \subseteq Types
  /\ \A t \in DecisionType : Timed(row, t, End(t), t \in unread)

Clocks ==
  /\ now \in 0 .. MaxTime
  /\ lapi \in [Types -> Nat] /\ told \in [Types -> Nat] /\ applied \in [Types -> Nat]
  /\ changes \in 0 .. MaxChanges /\ lost \in 0 .. MaxLost

IInv == Clocks /\ LapiEnds /\ AnswerOK /\ RowOK

(* A deadline of seconds is reached with the tick its second begins.       *)
LEMMA Reached ==
  ASSUME now \in Nat, NEW d \in Int
  PROVE  /\ unix_now \in Nat /\ Ticks * unix_now <= now /\ now < (Ticks * unix_now) + Ticks
         /\ unix_now < d => now < Ticks * d
         /\ ~(unix_now < d) => Ticks * d <= now
<1>1. Ticks \in Nat \ {0}
  BY ClockAssumption
<1>2. /\ unix_now \in Nat /\ Ticks * unix_now <= now /\ now < (Ticks * unix_now) + Ticks
  BY <1>1, DivMod DEF unix_now
<1>3. unix_now < d => (Ticks * unix_now) + Ticks <= Ticks * d
  BY <1>1, <1>2, Multiples
<1>4. d < unix_now => (Ticks * d) + Ticks <= Ticks * unix_now
  BY <1>1, <1>2, Multiples
<1>5. Ticks * d \in Int /\ Ticks * unix_now \in Int
  BY <1>1, <1>2, MulInt
<1> QED BY <1>1, <1>2, <1>3, <1>4, <1>5

LEMMA PruneRow ==
  ASSUME NEW r \in Row
  PROVE  prune_expired(r) \in Row
<1>1. 0 \in -I64 .. I64 - 1
  BY LengthAssumption
<1> QED BY <1>1 DEF prune_expired, Row, active_mask, prune_inactive

LEMMA PruneTimed ==
  ASSUME now \in Nat, NEW r \in Row, NEW t \in DecisionType, NEW end \in Nat,
         NEW without \in BOOLEAN, Timed(r, t, end, without)
  PROVE  /\ Timed(prune_expired(r), t, end, without)
         /\ t \in prune_expired(r).types => t \in r.types
<1> DEFINE p == prune_expired(r)
<1>1. /\ t \in p.types <=> t \in r.types /\ (r.expires[t] = 0 \/ unix_now < r.expires[t])
      /\ p.expires[t] = IF t \in p.types THEN r.expires[t] ELSE 0
  BY DEF prune_expired, active_mask, prune_inactive
<1>2. r.expires[t] \in Int /\ Ticks * r.expires[t] \in Int /\ Ticks \in Nat
  BY ClockAssumption, LengthAssumption, MulInt DEF Row
<1>3. unix_now < r.expires[t] \/ Ticks * r.expires[t] <= now
  BY <1>2, Reached
<1> HIDE DEF p
<1>4. CASE t \in p.types
  BY <1>1, <1>4 DEF Timed, p
<1>5. CASE t \notin p.types /\ t \notin r.types
  BY <1>1, <1>5 DEF Timed, p
<1>6. CASE t \notin p.types /\ t \in r.types
  <2>1. r.expires[t] # 0 /\ Ticks * r.expires[t] <= now
    BY <1>1, <1>3, <1>6
  <2>2. 2 * (end - now) <= 3 * Ticks
    BY <1>2, <2>1 DEF Timed
  <2> QED BY <1>1, <1>6, <2>1, <2>2 DEF Timed, p
<1> QED BY <1>4, <1>5, <1>6

LEMMA RemoveTimed ==
  ASSUME now \in Nat, NEW r \in Row, NEW t \in DecisionType
  PROVE  /\ remove_decision_type(r, t) \in Row
         /\ remove_decision_type(r, t).types \subseteq r.types
         /\ Timed(remove_decision_type(r, t), t, 0, FALSE)
         /\ \A u \in DecisionType \ {t}, end \in Nat, without \in BOOLEAN :
              Timed(r, u, end, without) => Timed(remove_decision_type(r, t), u, end, without)
<1> DEFINE p == prune_expired(r)
           q == remove_decision_type(r, t)
<1>1. p \in Row /\ 0 \in -I64 .. I64 - 1
  BY PruneRow, LengthAssumption
<1>2. p.types \subseteq r.types
  BY DEF prune_expired, active_mask
<1>3. q.types = p.types \ {t} /\ q.expires = [p.expires EXCEPT ![t] = 0]
  BY DEF remove_decision_type, clear_bit
<1>4. q \in Row
  BY <1>1 DEF Row, remove_decision_type, clear_bit
<1>5. q.expires[t] = 0 /\ t \notin q.types
  BY <1>1, <1>3 DEF Row
<1>6. Timed(q, t, 0, FALSE)
  BY <1>5, ClockAssumption DEF Timed
<1>7. ASSUME NEW u \in DecisionType \ {t}, NEW end \in Nat, NEW without \in BOOLEAN,
             Timed(r, u, end, without)
      PROVE  Timed(q, u, end, without)
  <2>1. Timed(p, u, end, without)
    BY <1>7, PruneTimed
  <2>2. (u \in q.types <=> u \in p.types) /\ q.expires[u] = p.expires[u]
    BY <1>1, <1>3 DEF Row
  <2> HIDE DEF p, q
  <2> QED BY <2>1, <2>2 DEF Timed
<1> QED BY <1>2, <1>3, <1>4, <1>6, <1>7

(* The deadline an answer's text sets: none, or one that is Timed for the  *)
(* end the answer means.                                                   *)
LEMMA AnsweredDeadline ==
  ASSUME now \in 0 .. MaxTime, answer.age \in 0 .. MaxDelay, answer.age <= now,
         NEW text, NEW ends, Answered(text, ends)
  PROVE  LET d == deadline(parse_duration(text))
         IN  /\ d \in 0 .. I64 - 1
             /\ d = 0 <=> ~WholeSeconds(text)
             /\ d # 0 => /\ 2 * (Ticks * d) <= 2 * (ends + MaxDelay) + Ticks
                         /\ 2 * (Ticks * d) > 2 * ends - 3 * Ticks
<1> DEFINE n == Seconds(text)
<1>1. Ticks \in Nat \ {0} /\ MaxTime \in Nat /\ MaxDelay \in Nat /\ I64 \in Nat \ {0}
  BY ClockAssumption, LengthAssumption
<1>2. n \in Nat /\ text.other \in BOOLEAN
  <2>1. text.h \in Nat /\ text.m \in Nat /\ text.s \in Nat /\ text.bare \in Nat
    BY DEF Answered, Text
  <2>2. text.h * Hour \in Nat /\ text.m * Minute \in Nat
    BY <2>1, ClockAssumption
  <2> QED BY <2>1, <2>2 DEF Answered, Text, Seconds
<1>3. CASE ~WholeSeconds(text)
  BY <1>1, <1>2, <1>3 DEF WholeSeconds, parse_duration, deadline, NoDuration
<1>4. CASE WholeSeconds(text)
  <2>1. n > 0 /\ ~text.other
    BY <1>4 DEF WholeSeconds
  <2>2. unix_now \in Nat /\ unix_now <= MaxTime \div Ticks /\ MaxTime \div Ticks \in Nat
    <3>1. now \in Nat /\ now <= MaxTime
      BY <1>1
    <3> QED BY <1>1, <3>1, DivMonotone, DivMod DEF unix_now
  <2>3. n + unix_now < I64 /\ n \in 1 .. I64 - 1
    BY <1>1, <1>2, <2>1, <2>2 DEF Answered
  <2>4. parse_duration(text) = n
    BY <2>1, <2>3 DEF parse_duration
  <2>5. deadline(n) = unix_now + n
    BY <1>2, <2>1, <2>2, <2>3, WrapFits DEF deadline, NoDuration
  <2>6. Ticks * (unix_now + n) = (Ticks * unix_now) + (Ticks * n)
    BY <1>1, <1>2, <2>2
  <2>7. Ticks * unix_now \in Int /\ Ticks * n \in Int
    BY <1>1, <1>2, <2>2, MulInt
  <2>8. Ticks * unix_now <= now /\ now < (Ticks * unix_now) + Ticks
    BY Reached
  <2>9. /\ 2 * (Ticks * n) <= 2 * (ends - (now - answer.age)) + Ticks
        /\ 2 * (ends - (now - answer.age)) < 2 * (Ticks * n) + Ticks
        /\ ends \in Nat
    BY <2>1 DEF Answered
  <2> DEFINE x == Ticks * unix_now
             y == Ticks * n
  <2>10. /\ 2 * (x + y) <= 2 * (ends + MaxDelay) + Ticks
         /\ 2 * (x + y) > 2 * ends - 3 * Ticks
    <3> HIDE DEF x, y
    <3> QED BY <1>1, <2>7, <2>8, <2>9 DEF x, y
  <2> DEFINE d == unix_now + n
  <2>11. deadline(parse_duration(text)) = d
    BY <2>4, <2>5
  <2>12. d \in 1 .. I64 - 1
    BY <1>1, <1>2, <2>1, <2>2, <2>3
  <2>13. Ticks * d = x + y
    BY <2>6
  <2> HIDE DEF d, x, y
  <2> QED BY <1>4, <2>10, <2>11, <2>12, <2>13
<1> QED BY <1>3, <1>4

Later(e, f) == IF f > e THEN f ELSE e

LEMMA AddTimed ==
  ASSUME now \in 0 .. MaxTime, answer.age \in 0 .. MaxDelay, answer.age <= now,
         NEW r \in Row, NEW t \in DecisionType,
         NEW end \in Nat, NEW without \in BOOLEAN, Timed(r, t, end, without),
         NEW text, NEW ends, Answered(text, ends)
  PROVE  LET q == add_decision(r, t, parse_duration(text))
         IN  /\ q \in Row /\ q.types \subseteq r.types \union {t}
             /\ Timed(q, t, Later(end, ends), without \/ ~WholeSeconds(text))
             /\ \A u \in DecisionType \ {t}, e \in Nat, w \in BOOLEAN :
                  Timed(r, u, e, w) => Timed(q, u, e, w)
<1> DEFINE p == prune_expired(r)
           d == deadline(parse_duration(text))
           q == add_decision(r, t, parse_duration(text))
<1>0. now \in Nat /\ ends \in Nat /\ Ticks \in Nat /\ MaxDelay \in Nat /\ I64 \in Nat
  BY ClockAssumption, LengthAssumption DEF Answered
<1>1. p \in Row /\ p.types \subseteq r.types /\ Timed(p, t, end, without)
  BY <1>0, PruneRow, PruneTimed DEF prune_expired, active_mask
<1>2. /\ d \in 0 .. I64 - 1
      /\ d = 0 <=> ~WholeSeconds(text)
      /\ d # 0 => /\ 2 * (Ticks * d) <= 2 * (ends + MaxDelay) + Ticks
                  /\ 2 * (Ticks * d) > 2 * ends - 3 * Ticks
  BY AnsweredDeadline
<1>3. /\ q.types = p.types \union {t}
      /\ q.expires = [p.expires EXCEPT ![t] = IF t \in p.types THEN LaterDeadline(@, d) ELSE d]
      /\ q \in [types : {p.types \union {t}}, expires : {q.expires}]
  BY DEF add_decision, merge
<1> HIDE DEF p, d, q
<1>4. d \in -I64 .. I64 - 1
  BY <1>0, <1>2
<1>5. p.expires \in [DecisionType -> -I64 .. I64 - 1] /\ p.types \subseteq DecisionType
  BY <1>1 DEF Row
<1>6. LaterDeadline(p.expires[t], d) \in -I64 .. I64 - 1
  BY <1>0, <1>4, <1>5 DEF LaterDeadline
<1>7. q \in Row /\ q.types \subseteq r.types \union {t}
  <2>1. q.expires \in [DecisionType -> -I64 .. I64 - 1]
    BY <1>3, <1>4, <1>5, <1>6
  <2> QED BY <1>1, <1>3, <1>5, <2>1 DEF Row
<1>8. Timed(q, t, Later(end, ends), without \/ ~WholeSeconds(text))
  <2>1. q.expires[t] = (IF t \in p.types THEN LaterDeadline(p.expires[t], d) ELSE d)
        /\ t \in q.types
    BY <1>3, <1>5
  <2>2. Later(end, ends) \in Nat /\ Later(end, ends) >= end /\ Later(end, ends) >= ends
        /\ Later(end, ends) \in {end, ends}
    BY <1>0 DEF Later
  <2>3. p.expires[t] \in Int /\ Ticks * p.expires[t] \in Int /\ Ticks * d \in Int /\ d \in Int
    BY <1>0, <1>2, <1>5, MulInt
  <2>4. CASE t \notin p.types
    <3>1. /\ ~without
          /\ 2 * (end - now) <= 3 * Ticks
      BY <1>1, <2>4 DEF Timed
    <3> QED BY <1>0, <1>2, <2>1, <2>2, <2>3, <2>4, <3>1 DEF Timed
  <2>5. CASE t \in p.types /\ (p.expires[t] = 0 \/ d = 0)
    <3>1. q.expires[t] = 0
      BY <2>1, <2>5 DEF LaterDeadline
    <3>2. without <=> p.expires[t] = 0
      BY <1>1, <2>5 DEF Timed
    <3> QED BY <1>2, <2>1, <2>5, <3>1, <3>2 DEF Timed
  <2>6. CASE t \in p.types /\ p.expires[t] # 0 /\ d # 0
    <3>1. q.expires[t] = IF p.expires[t] >= d THEN p.expires[t] ELSE d
      BY <2>1, <2>6 DEF LaterDeadline
    <3>2. /\ ~without /\ p.expires[t] > 0
          /\ 2 * (Ticks * p.expires[t]) <= 2 * (end + MaxDelay) + Ticks
          /\ \/ 2 * (Ticks * p.expires[t]) > 2 * end - 3 * Ticks
             \/ 2 * (end - now) <= 3 * Ticks
      BY <1>1, <2>6 DEF Timed
    <3>3. /\ p.expires[t] <= q.expires[t] /\ d <= q.expires[t] /\ q.expires[t] > 0
          /\ q.expires[t] \in {p.expires[t], d}
      BY <1>2, <2>3, <2>6, <3>1, <3>2
    <3>4. /\ Ticks * q.expires[t] >= Ticks * p.expires[t]
          /\ Ticks * q.expires[t] >= Ticks * d
          /\ Ticks * q.expires[t] \in {Ticks * p.expires[t], Ticks * d}
      BY <2>3, <3>3, Multiples, ClockAssumption
    <3>5. 2 * (Ticks * q.expires[t]) <= 2 * (Later(end, ends) + MaxDelay) + Ticks
      BY <1>0, <1>2, <2>2, <2>3, <2>6, <3>2, <3>4
    <3>6. \/ 2 * (Ticks * q.expires[t]) > 2 * Later(end, ends) - 3 * Ticks
          \/ 2 * (Later(end, ends) - now) <= 3 * Ticks
      BY <1>0, <1>2, <2>2, <2>3, <2>6, <3>2, <3>4
    <3> QED BY <1>2, <2>1, <2>6, <3>2, <3>3, <3>5, <3>6 DEF Timed
  <2> QED BY <2>4, <2>5, <2>6
<1>9. ASSUME NEW u \in DecisionType \ {t}, NEW e \in Nat, NEW w \in BOOLEAN, Timed(r, u, e, w)
      PROVE  Timed(q, u, e, w)
  <2>1. Timed(p, u, e, w)
    BY <1>0, <1>9, PruneTimed DEF p
  <2>2. (u \in q.types <=> u \in p.types) /\ q.expires[u] = p.expires[u]
    BY <1>3, <1>5
  <2> QED BY <2>1, <2>2 DEF Timed
<1> QED BY <1>7, <1>8, <1>9 DEF q

-----------------------------------------------------------------------------
(* An answer, applied call by call.                                        *)

AllTimed(r, e, w) ==
  /\ r \in Row /\ r.types \subseteq Types
  /\ e \in [DecisionType -> Nat] /\ w \in [DecisionType -> BOOLEAN]
  /\ \A u \in DecisionType : Timed(r, u, e[u], w[u])

LEMMA DeleteTimed ==
  ASSUME now \in Nat, NEW r, NEW e, NEW w, AllTimed(r, e, w), NEW t \in DecisionType
  PROVE  AllTimed(Delete(t, r),
                  [e EXCEPT ![t] = IF t \in answer.deleted THEN 0 ELSE @],
                  [w EXCEPT ![t] = t \notin answer.deleted /\ @])
<1>1. CASE t \in answer.deleted
  <2> DEFINE q == remove_decision_type(r, t)
  <2>1. Delete(t, r) = q
    BY <1>1 DEF Delete
  <2>2. /\ q \in Row /\ q.types \subseteq r.types /\ Timed(q, t, 0, FALSE)
        /\ \A u \in DecisionType \ {t} : Timed(q, u, e[u], w[u])
    <3>1. r \in Row /\ \A u \in DecisionType \ {t} :
                          e[u] \in Nat /\ w[u] \in BOOLEAN /\ Timed(r, u, e[u], w[u])
      BY DEF AllTimed
    <3>2. /\ q \in Row /\ q.types \subseteq r.types /\ Timed(q, t, 0, FALSE)
          /\ \A u \in DecisionType \ {t}, end \in Nat, without \in BOOLEAN :
               Timed(r, u, end, without) => Timed(q, u, end, without)
      BY <3>1, RemoveTimed
    <3> HIDE DEF q
    <3> QED BY <3>1, <3>2
  <2> HIDE DEF q
  <2> QED BY <1>1, <2>1, <2>2 DEF AllTimed
<1>2. CASE t \notin answer.deleted
  <2>1. Delete(t, r) = r /\ e = [e EXCEPT ![t] = e[t]] /\ w = [w EXCEPT ![t] = w[t]]
        /\ w[t] \in BOOLEAN
    BY <1>2 DEF Delete, AllTimed
  <2> QED BY <1>2, <2>1 DEF AllTimed
<1> QED BY <1>1, <1>2

LEMMA AddAnswered ==
  ASSUME now \in 0 .. MaxTime, AnswerOK,
         NEW r, NEW e, NEW w, AllTimed(r, e, w), NEW t \in DecisionType
  PROVE  AllTimed(Add(t, r),
                  [e EXCEPT ![t] = IF t \in DOMAIN answer.new THEN Later(@, answer.ends[t]) ELSE @],
                  [w EXCEPT ![t] = @ \/ (t \in DOMAIN answer.new
                                         /\ ~WholeSeconds(answer.new[t]))])
<1>1. CASE t \in DOMAIN answer.new
  <2> DEFINE q == add_decision(r, t, parse_duration(answer.new[t]))
  <2>1. Add(t, r) = q /\ t \in Types /\ Answered(answer.new[t], answer.ends[t])
        /\ e[t] \in Nat /\ w[t] \in BOOLEAN
    BY <1>1 DEF Add, AnswerOK, AllTimed
  <2>2. /\ q \in Row /\ q.types \subseteq r.types \union {t}
        /\ Timed(q, t, Later(e[t], answer.ends[t]), w[t] \/ ~WholeSeconds(answer.new[t]))
        /\ \A u \in DecisionType \ {t} : Timed(q, u, e[u], w[u])
    BY <2>1, AddTimed DEF AllTimed, AnswerOK
  <2>3. Later(e[t], answer.ends[t]) \in Nat
    BY <2>1 DEF Later, Answered
  <2> HIDE DEF q
  <2> QED BY <1>1, <2>1, <2>2, <2>3 DEF AllTimed
<1>2. CASE t \notin DOMAIN answer.new
  <2>1. Add(t, r) = r /\ e = [e EXCEPT ![t] = e[t]] /\ w = [w EXCEPT ![t] = w[t]]
        /\ w[t] \in BOOLEAN
    BY <1>2 DEF Add, AllTimed
  <2> QED BY <1>2, <2>1 DEF AllTimed
<1> QED BY <1>1, <1>2

LEMMA ApplyRow ==
  ASSUME IInv, answer.sent, Apply
  PROVE  RowOK'
<1>1. /\ now \in 0 .. MaxTime /\ now \in Nat /\ applied \in [Types -> Nat]
      /\ unread \subseteq Types /\ AnswerOK /\ Types \subseteq DecisionType
  BY LengthAssumption, ClockAssumption DEF IInv, Clocks, RowOK
<1> DEFINE e0 == [u \in DecisionType |-> End(u)]
           w0 == [u \in DecisionType |-> u \in unread]
           Del(e, t) == [e EXCEPT ![t] = IF t \in answer.deleted THEN 0 ELSE @]
           DelW(w, t) == [w EXCEPT ![t] = t \notin answer.deleted /\ @]
           Ad(e, t) == [e EXCEPT ![t] = IF t \in DOMAIN answer.new
                                         THEN Later(@, answer.ends[t]) ELSE @]
           AdW(w, t) == [w EXCEPT ![t] = @ \/ (t \in DOMAIN answer.new
                                               /\ ~WholeSeconds(answer.new[t]))]
           r1 == Delete("ban", row)
           r2 == Delete("captcha", r1)
           r3 == Add("ban", r2)
           e2 == Del(Del(e0, "ban"), "captcha")
           w2 == DelW(DelW(w0, "ban"), "captcha")
           e4 == Ad(Ad(e2, "ban"), "captcha")
           w4 == AdW(AdW(w2, "ban"), "captcha")
<1>2. "ban" \in DecisionType /\ "captcha" \in DecisionType
  BY DEF DecisionType
<1>3. AllTimed(row, e0, w0)
  BY <1>1 DEF AllTimed, IInv, RowOK, End
<1>4. AllTimed(r2, e2, w2)
  <2>1. AllTimed(r1, Del(e0, "ban"), DelW(w0, "ban"))
    BY <1>1, <1>2, <1>3, DeleteTimed
  <2> HIDE DEF r1, e0, w0
  <2> QED BY <1>1, <1>2, <2>1, DeleteTimed
<1>5. AllTimed(apply_to_shm, e4, w4)
  <2> HIDE DEF r2, e2, w2
  <2>1. AllTimed(r3, Ad(e2, "ban"), AdW(w2, "ban"))
    BY <1>1, <1>2, <1>4, AddAnswered
  <2>2. apply_to_shm = Add("captcha", r3)
    BY DEF apply_to_shm, r2
  <2> HIDE DEF r3
  <2> QED BY <1>1, <1>2, <2>1, <2>2, AddAnswered
<1>6. row' = apply_to_shm /\ now' = now
  BY DEF Apply
<1>7. ASSUME NEW u \in DecisionType
      PROVE  e4[u] = End(u)' /\ (w4[u] <=> u \in unread')
  <2>1. u \in {"ban", "captcha"}
    BY DEF DecisionType
  <2>2. /\ e4[u] = LET kept == IF u \in answer.deleted THEN 0 ELSE End(u)
                   IN  IF u \in DOMAIN answer.new THEN Later(kept, answer.ends[u]) ELSE kept
        /\ w4[u] = ((u \notin answer.deleted /\ u \in unread)
                     \/ (u \in DOMAIN answer.new /\ ~WholeSeconds(answer.new[u])))
    BY <2>1 DEF DecisionType
  <2> HIDE DEF e4, w4
  <2>3. w4[u] <=> u \in unread'
    BY <2>2 DEF Apply
  <2>4. e4[u] = End(u)'
    <3>1. CASE u \in Types
      BY <2>2, <3>1 DEF Apply, End, Later
    <3>2. CASE u \notin Types
      BY <1>1, <2>2, <3>2 DEF AnswerOK, End
    <3> QED BY <3>1, <3>2
  <2> QED BY <2>3, <2>4
<1>8. unread' \subseteq Types
  BY <1>1 DEF Apply, AnswerOK
<1> HIDE DEF e4, w4
<1>9. ASSUME NEW u \in DecisionType
      PROVE  Timed(row, u, End(u), u \in unread)'
  <2>1. Timed(apply_to_shm, u, e4[u], w4[u]) /\ w4[u] \in BOOLEAN
    BY <1>5 DEF AllTimed
  <2> QED BY <1>6, <1>7, <2>1 DEF Timed
<1>10. row' \in Row /\ row'.types \subseteq Types
  BY <1>5, <1>6 DEF AllTimed
<1> QED BY <1>8, <1>9, <1>10 DEF RowOK, Row

-----------------------------------------------------------------------------
(* What LAPI answers.                                                      *)

(* What Go writes of a number of seconds is read as that number.           *)
LEMMA GoTextSeconds ==
  ASSUME NEW n \in Nat
  PROVE  GoText(n) \in Text /\ Seconds(GoText(n)) = n /\ GoText(n).other = FALSE
<1> DEFINE h == n \div Hour
           m == (n % Hour) \div Minute
           s == (n % Hour) % Minute
<1>1. Hour \in Nat \ {0} /\ Minute \in Nat \ {0}
  BY ClockAssumption
<1>2. h \in Nat /\ n % Hour \in Nat /\ n = (Hour * h) + (n % Hour)
  BY <1>1, DivMod
<1>3. m \in Nat /\ s \in Nat /\ n % Hour = (Minute * m) + s
  BY <1>1, <1>2, DivMod
<1>4. GoText(n) = [Zero EXCEPT !.h = h, !.m = m, !.s = s]
  BY DEF GoText
<1> HIDE DEF h, m, s
<1>5. GoText(n) = [h |-> h, m |-> m, s |-> s, bare |-> 0, other |-> FALSE]
  BY <1>4 DEF Zero
<1>6. GoText(n) \in Text /\ GoText(n).other = FALSE
  BY <1>2, <1>3, <1>5 DEF Text
<1>7. Seconds(GoText(n)) = h * Hour + m * Minute + s + 0
  BY <1>5 DEF Seconds
<1>8. h * Hour = Hour * h /\ m * Minute = Minute * m /\ h * Hour \in Nat /\ m * Minute \in Nat
  BY <1>1, <1>2, <1>3
<1> QED BY <1>2, <1>3, <1>6, <1>7, <1>8

LEMMA TextsRead ==
  ASSUME NEW t \in Types, Rounded(t) \in Nat, NEW text \in Texts(t)
  PROVE  text \in Text /\ (~text.other => Seconds(text) = Rounded(t))
<1>1. CASE text = GoText(Rounded(t))
  BY <1>1, GoTextSeconds
<1>2. CASE text = [Zero EXCEPT !.bare = Rounded(t)]
  <2>1. text = [h |-> 0, m |-> 0, s |-> 0, bare |-> Rounded(t), other |-> FALSE]
    BY <1>2 DEF Zero
  <2> QED BY <2>1, ClockAssumption DEF Text, Seconds
<1>3. CASE text = [GoText(Rounded(t)) EXCEPT !.other = TRUE]
  <2>1. GoText(Rounded(t)) \in Text
    BY GoTextSeconds
  <2>2. text \in Text /\ text.other = TRUE
    BY <1>3, <2>1 DEF Text
  <2> QED BY <2>2
<1> QED BY <1>1, <1>2, <1>3 DEF Texts

(* Half a second of rounding.                                              *)
LEMMA RoundedNear ==
  ASSUME now \in Nat, NEW t \in Types, lapi[t] \in Nat, InForce(t)
  PROVE  /\ Rounded(t) \in Nat
         /\ 2 * (Ticks * Rounded(t)) <= 2 * (lapi[t] - now) + Ticks
         /\ 2 * (lapi[t] - now) < 2 * (Ticks * Rounded(t)) + Ticks
<1> DEFINE k == 2 * Ticks
           x == 2 * (lapi[t] - now) + Ticks
<1>1. Ticks \in Nat \ {0} /\ k \in Nat \ {0} /\ x \in Nat
  BY ClockAssumption DEF InForce
<1>2. Rounded(t) = x \div k
  BY DEF Rounded
<1>3. x \div k \in Nat /\ k * (x \div k) <= x /\ x < (k * (x \div k)) + k
  <2> HIDE DEF x, k
  <2> QED BY <1>1, DivBounds
<1>4. k * Rounded(t) = 2 * (Ticks * Rounded(t))
  BY <1>1, <1>2, <1>3
<1>5. Ticks * Rounded(t) \in Nat
  BY <1>1, <1>2, <1>3
<1> QED BY <1>1, <1>2, <1>3, <1>4, <1>5

(* No more seconds than LAPI decided for, which fit a word.                *)
LEMMA RoundedFits ==
  ASSUME now \in Nat, NEW t \in Types, lapi[t] \in Nat, InForce(t), LapiEnds
  PROVE  Rounded(t) + (MaxTime \div Ticks) < I64
<1>1. PICK n \in Lengths : lapi[t] <= now + n * Ticks
  BY DEF LapiEnds
<1>2. n \in Nat /\ n + (MaxTime \div Ticks) < I64 /\ Ticks \in Nat \ {0} /\ I64 \in Nat
  BY LengthAssumption, ClockAssumption
<1>3. MaxTime \div Ticks \in Nat
  BY ClockAssumption, DivMod
<1>4. 2 * (Ticks * Rounded(t)) <= 2 * (n * Ticks) + Ticks /\ Rounded(t) \in Nat
      /\ Ticks * Rounded(t) \in Nat /\ n * Ticks \in Nat
  <2>1. n * Ticks \in Nat
    BY <1>2
  <2>2. lapi[t] - now <= n * Ticks
    BY <1>1, <2>1
  <2>3. Rounded(t) \in Nat /\ 2 * (Ticks * Rounded(t)) <= 2 * (lapi[t] - now) + Ticks
    BY RoundedNear
  <2>4. Ticks * Rounded(t) \in Nat
    BY <1>2, <2>3
  <2> QED BY <1>2, <2>1, <2>2, <2>3, <2>4
<1>5. Rounded(t) <= n
  <2>1. CASE n < Rounded(t)
    <3>1. (Ticks * n) + Ticks <= Ticks * Rounded(t)
      BY <1>2, <1>4, <2>1, Multiples
    <3>2. Ticks * n = n * Ticks
      BY <1>2
    <3> QED BY <1>2, <1>4, <3>1, <3>2
  <2> QED BY <1>2, <1>4, <2>1
<1> QED BY <1>2, <1>3, <1>4, <1>5

LEMMA PollAnswer ==
  ASSUME IInv, Poll
  PROVE  AnswerOK'
<1>1. PICK texts \in [New -> UNION {Texts(t) : t \in New}] :
        /\ \A t \in New : texts[t] \in Texts(t)
        /\ answer' = [sent |-> TRUE, deleted |-> Deleted, new |-> texts,
                      ends |-> [t \in New |-> lapi[t]], age |-> 0]
  BY DEF Poll
<1>2. now' = now /\ now \in Nat /\ lapi \in [Types -> Nat] /\ LapiEnds
  BY ClockAssumption DEF Poll, IInv, Clocks
<1>3. /\ answer'.age = 0 /\ answer'.deleted = Deleted /\ answer'.new = texts
      /\ answer'.ends = [t \in New |-> lapi[t]] /\ DOMAIN texts = New
  BY <1>1
<1>4. Deleted \subseteq Types /\ New \subseteq Types
  BY DEF Deleted, New
<1>5. ASSUME NEW t \in New
      PROVE  Answered(answer.new[t], answer.ends[t])'
  <2>1. t \in Types /\ InForce(t) /\ lapi[t] \in Nat
    BY <1>2, <1>5 DEF New
  <2>2. /\ Rounded(t) \in Nat
        /\ 2 * (Ticks * Rounded(t)) <= 2 * (lapi[t] - now) + Ticks
        /\ 2 * (lapi[t] - now) < 2 * (Ticks * Rounded(t)) + Ticks
        /\ Rounded(t) + (MaxTime \div Ticks) < I64
    BY <1>2, <2>1, RoundedNear, RoundedFits
  <2>3. texts[t] \in Text /\ (~texts[t].other => Seconds(texts[t]) = Rounded(t))
    BY <1>1, <2>1, <2>2, TextsRead
  <2>4. answer'.new[t] = texts[t] /\ answer'.ends[t] = lapi[t] /\ now' - answer'.age = now
    BY <1>2, <1>3
  <2> QED BY <2>1, <2>2, <2>3, <2>4 DEF Answered
<1>6. /\ answer' = [sent |-> answer'.sent, deleted |-> answer'.deleted, new |-> answer'.new,
                     ends |-> answer'.ends, age |-> answer'.age]
      /\ answer'.sent
  BY <1>1
<1> QED BY <1>2, <1>3, <1>4, <1>5, <1>6, ClockAssumption DEF AnswerOK

-----------------------------------------------------------------------------
(* The steps.                                                              *)

LEMMA InitIInv == Init => IInv
<1> SUFFICES ASSUME Init PROVE IInv
  OBVIOUS
<1>1. Clocks
  BY ClockAssumption DEF Init, Clocks
<1>2. LapiEnds
  BY DEF Init, LapiEnds, InForce
<1>3. AnswerOK
  BY ClockAssumption DEF Init, AnswerOK, NoAnswer
<1>4. row \in Row /\ row.types \subseteq Types
  <2>1. 0 \in -I64 .. I64 - 1
    BY LengthAssumption
  <2> QED BY <2>1 DEF Init, NoRow, NoExpiry, Row
<1>5. ASSUME NEW t \in DecisionType PROVE Timed(row, t, End(t), t \in unread)
  <2>1. row.expires[t] = 0 /\ t \notin row.types /\ End(t) = 0 /\ t \notin unread /\ now = 0
    BY DEF Init, NoRow, NoExpiry, End
  <2>2. 2 * (0 - 0) <= 3 * Ticks
    BY ClockAssumption
  <2> QED BY <2>1, <2>2 DEF Timed
<1> QED BY <1>1, <1>2, <1>3, <1>4, <1>5 DEF IInv, RowOK, Init

(* LAPI's decisions do not change the row, and extend or end what is in    *)
(* force.                                                                  *)
LEMMA LapiKeeps ==
  ASSUME IInv, NEW t \in Types, Revoke(t) \/ \E n \in Lengths : Decide(t, n)
  PROVE  IInv'
<1>1. /\ UNCHANGED <<now, told, answer, row, applied, unread, lost>>
      /\ changes < MaxChanges /\ changes' = changes + 1
  BY DEF Revoke, Decide
<1>2. \/ lapi' = [lapi EXCEPT ![t] = 0]
      \/ \E n \in Lengths : lapi' = [lapi EXCEPT ![t] = now + n * Ticks]
  BY DEF Revoke, Decide
<1>3. now \in Nat /\ lapi \in [Types -> Nat] /\ Ticks \in Nat /\ Lengths \subseteq Nat
  BY ClockAssumption, LengthAssumption DEF IInv, Clocks
<1>4. lapi' \in [Types -> Nat]
  BY <1>2, <1>3
<1>5. Clocks'
  BY <1>1, <1>4, ClockAssumption DEF IInv, Clocks
<1>6. LapiEnds'
  BY <1>1, <1>2, <1>3 DEF IInv, LapiEnds, InForce
<1>7. AnswerOK' /\ RowOK'
  BY <1>1 DEF IInv, AnswerOK, Answered, RowOK, Timed, End
<1> QED BY <1>5, <1>6, <1>7 DEF IInv

LEMMA PollKeeps ==
  ASSUME IInv, Poll
  PROVE  IInv'
<1>1. UNCHANGED <<now, lapi, row, applied, unread, changes, lost>>
  BY DEF Poll
<1>2. told' \in [Types -> Nat]
  BY DEF Poll, IInv, Clocks
<1>3. Clocks' /\ LapiEnds' /\ RowOK'
  BY <1>1, <1>2 DEF IInv, Clocks, LapiEnds, InForce, RowOK, Timed, End
<1> QED BY <1>3, PollAnswer DEF IInv

LEMMA NoAnswerOK ==
  ASSUME IInv, answer' = NoAnswer, now' = now
  PROVE  AnswerOK'
BY ClockAssumption DEF IInv, Clocks, AnswerOK, NoAnswer

LEMMA ApplyKeeps ==
  ASSUME IInv, Apply
  PROVE  IInv'
<1>1. answer.sent /\ answer' = NoAnswer /\ UNCHANGED <<now, lapi, told, changes, lost>>
  BY DEF Apply
<1>2. applied' \in [Types -> Nat]
  <2>1. \A t \in DOMAIN answer.new : answer.ends[t] \in Nat
    BY DEF IInv, AnswerOK, Answered
  <2> QED BY <2>1 DEF IInv, Clocks, Apply
<1>3. Clocks' /\ LapiEnds'
  BY <1>1, <1>2 DEF IInv, Clocks, LapiEnds, InForce
<1> QED BY <1>1, <1>3, NoAnswerOK, ApplyRow DEF IInv

LEMMA LoseKeeps ==
  ASSUME IInv, Lose
  PROVE  IInv'
<1>1. /\ answer' = NoAnswer /\ UNCHANGED <<now, lapi, told, row, applied, unread, changes>>
      /\ lost < MaxLost /\ lost' = lost + 1
  BY DEF Lose
<1>2. Clocks' /\ LapiEnds' /\ RowOK'
  BY <1>1, ClockAssumption DEF IInv, Clocks, LapiEnds, InForce, RowOK, Timed, End
<1> QED BY <1>1, <1>2, NoAnswerOK DEF IInv

LEMMA TickKeeps ==
  ASSUME IInv, Tick
  PROVE  IInv'
<1>1. /\ now < MaxTime /\ now' = now + 1 /\ (answer.sent => answer.age < MaxDelay)
      /\ UNCHANGED <<lapi, told, row, applied, unread, changes, lost>>
  BY DEF Tick
<1>2. now \in Nat /\ Ticks \in Nat /\ MaxTime \in Nat /\ MaxDelay \in Nat
      /\ lapi \in [Types -> Nat] /\ applied \in [Types -> Nat]
  BY ClockAssumption DEF IInv, Clocks
<1>3. Clocks'
  BY <1>1, <1>2 DEF IInv, Clocks
<1>4. LapiEnds'
  <2>1. ASSUME NEW t \in Types, InForce(t)' PROVE \E n \in Lengths : lapi'[t] <= now' + n * Ticks
    <3>1. InForce(t)
      BY <1>1, <1>2, <2>1 DEF InForce
    <3>2. PICK n \in Lengths : lapi[t] <= now + n * Ticks
      BY <3>1 DEF IInv, LapiEnds
    <3>3. n * Ticks \in Nat
      BY <1>2, LengthAssumption
    <3> QED BY <1>1, <1>2, <3>2, <3>3
  <2> QED BY <2>1 DEF LapiEnds
<1>5. RowOK'
  <2>1. ASSUME NEW t \in DecisionType PROVE Timed(row, t, End(t), t \in unread)'
    <3>1. Timed(row, t, End(t), t \in unread) /\ End(t) \in Nat /\ End(t)' = End(t)
      BY <1>1, <1>2 DEF IInv, RowOK, End
    <3> QED BY <1>1, <1>2, <3>1 DEF Timed
  <2> QED BY <1>1, <2>1 DEF IInv, RowOK
<1>6. AnswerOK'
  <2>1. CASE answer.sent
    <3>1. /\ answer'.age = answer.age + 1 /\ answer'.deleted = answer.deleted
          /\ answer'.new = answer.new /\ answer'.ends = answer.ends
          /\ answer'.age \in 0 .. MaxDelay /\ answer'.age <= now'
          /\ now' - answer'.age = now - answer.age
      BY <1>1, <1>2, <2>1 DEF Tick, IInv, AnswerOK
    <3>2. answer'.sent /\ answer' = [answer EXCEPT !.age = @ + 1]
      BY <2>1 DEF Tick, IInv, AnswerOK
    <3> QED BY <3>1, <3>2 DEF IInv, AnswerOK, Answered
  <2>2. CASE ~answer.sent
    <3>1. answer' = answer /\ answer = NoAnswer
      BY <2>2 DEF Tick, IInv, AnswerOK
    <3> QED BY <1>1, <1>2, <3>1 DEF AnswerOK, NoAnswer
  <2> QED BY <2>1, <2>2
<1> QED BY <1>3, <1>4, <1>5, <1>6 DEF IInv

LEMMA NextIInv == IInv /\ [Next]_vars => IInv'
<1> SUFFICES ASSUME IInv, [Next]_vars PROVE IInv'
  OBVIOUS
<1>1. ASSUME NEW t \in Types, Revoke(t) \/ \E n \in Lengths : Decide(t, n) PROVE IInv'
  BY <1>1, LapiKeeps
<1>2. CASE Poll
  BY <1>2, PollKeeps
<1>3. CASE Apply
  BY <1>3, ApplyKeeps
<1>4. CASE Lose
  BY <1>4, LoseKeeps
<1>5. CASE Tick
  BY <1>5, TickKeeps
<1>6. CASE UNCHANGED vars
  BY <1>6
  DEF vars, IInv, Clocks, LapiEnds, InForce, AnswerOK, Answered, RowOK, Timed, End
<1> QED BY <1>1, <1>2, <1>3, <1>4, <1>5, <1>6 DEF Next

-----------------------------------------------------------------------------
(* What is under way and what the row holds fit what LAPI decided.         *)
THEOREM Invariance == Spec => []IInv
BY InitIInv, NextIInv, PTL DEF Spec

(* No deadline of add_decision overflows its word, and a remediation that  *)
(* the row does not hold has none.                                         *)
THEOREM TypeCorrect == Spec => []TypeOK
<1>1. ASSUME IInv PROVE TypeOK
  <2>1. /\ row \in Row /\ row.types \subseteq Types /\ unread \subseteq Types
        /\ Types \subseteq DecisionType
    BY <1>1, LengthAssumption DEF IInv, RowOK
  <2>2. \A t \in DecisionType \ row.types : row.expires[t] = 0
    BY <1>1 DEF IInv, RowOK, Timed
  <2>3. unread \subseteq row.types
    BY <1>1, <2>1 DEF IInv, RowOK, Timed
  <2> QED BY <1>1, <2>1, <2>2, <2>3 DEF IInv, Clocks, AnswerOK, TypeOK, Row
<1> QED BY <1>1, Invariance, PTL

(* What a handler finds in force is a decision that has not ended at LAPI, *)
(* but for the delay of its answer and the rounding, whether or not its    *)
(* deletion ever arrives.                                                  *)
THEOREM NotEnforcedTooLong == Spec => []EndsOnTime
<1>1. ASSUME IInv, NEW t \in Found \ unread
      PROVE  2 * now <= 2 * (applied[t] + MaxDelay) + Ticks
  <2>1. /\ now \in Nat /\ Ticks \in Nat /\ MaxDelay \in Nat
        /\ t \in row.types /\ t \in Types /\ t \in DecisionType
        /\ applied[t] \in Nat /\ row.expires[t] \in Int
        /\ row.expires[t] = 0 \/ unix_now < row.expires[t]
    BY <1>1, ClockAssumption, LengthAssumption
    DEF IInv, Clocks, RowOK, Row, Found, active_mask
  <2>2. /\ row.expires[t] # 0
        /\ 2 * (Ticks * row.expires[t]) <= 2 * (applied[t] + MaxDelay) + Ticks
    BY <1>1, <2>1 DEF IInv, RowOK, Timed, End
  <2>3. now < Ticks * row.expires[t] /\ Ticks * row.expires[t] \in Int
    BY <2>1, <2>2, Reached, MulInt
  <2> QED BY <2>1, <2>2, <2>3
<1>2. IInv => EndsOnTime
  BY <1>1 DEF EndsOnTime
<1> QED BY <1>2, Invariance, PTL

(* A decision the row was told of is found by every handler until a second *)
(* and a half before its end, whatever else is added, merged or pruned.    *)
THEOREM NotEndedEarly == Spec => []NotEarly
<1>1. ASSUME IInv, NEW t \in Types, 2 * (applied[t] - now) > 3 * Ticks
      PROVE  t \in Found
  <2>1. /\ now \in Nat /\ Ticks \in Nat /\ t \in DecisionType
        /\ applied[t] \in Nat /\ row.expires[t] \in Int
    BY <1>1, ClockAssumption, LengthAssumption DEF IInv, Clocks, RowOK, Row
  <2>2. /\ t \in row.types
        /\ row.expires[t] # 0 => 2 * (Ticks * row.expires[t]) > 2 * applied[t] - 3 * Ticks
    BY <1>1, <2>1 DEF IInv, RowOK, Timed, End
  <2>3. CASE ~(row.expires[t] = 0 \/ unix_now < row.expires[t])
    <3>1. Ticks * row.expires[t] <= now /\ Ticks * row.expires[t] \in Int
      BY <2>1, <2>3, Reached, MulInt
    <3> QED BY <1>1, <2>1, <2>2, <2>3, <3>1
  <2> QED BY <2>2, <2>3 DEF Found, active_mask
<1>2. IInv => NotEarly
  BY <1>1 DEF NotEarly
<1> QED BY <1>2, Invariance, PTL
=============================================================================
