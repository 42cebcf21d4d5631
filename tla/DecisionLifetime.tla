-------------------------- MODULE DecisionLifetime --------------------------
(***************************************************************************)
(* How long a decision is enforced: LAPI writes the time that is left as a *)
(* text, parse_duration (src/stream.rs) reads it, add_decision (src/shm.rs) *)
(* turns it into a deadline, and a handler compares the deadline with its  *)
(* own clock.  The row is one key's; its deadlines are in module           *)
(* DecisionExpiry.  Answers take time, and may not arrive at all.          *)
(*                                                                         *)
(* Time runs in ticks, several to the second; the code reads whole seconds.*)
(***************************************************************************)
EXTENDS DecisionExpiry, Integers

CONSTANTS
  Ticks,         \* ticks of a second
  Minute, Hour,  \* seconds: 60 and 3600 in the code
  I64,           \* signed words are -I64 .. I64 - 1: 2^63 in the code
  Types,         \* remediations LAPI decides
  Lengths,       \* seconds LAPI decides for
  MaxDelay,      \* bound on the ticks an answer is under way
  MaxTime,       \* bound on the clock, in ticks
  MaxChanges,    \* bound on what LAPI decides
  MaxLost        \* bound on answers that do not arrive

ASSUME ClockAssumption ==
  /\ {Ticks, Minute, Hour} \subseteq Nat \ {0} /\ Minute < Hour
  /\ {MaxDelay, MaxTime, MaxChanges, MaxLost} \subseteq Nat

(* LAPI's durations are nanoseconds in a signed word of 64 bits, so that a *)
(* deadline in seconds is far from the end of such a word.                 *)
ASSUME LengthAssumption ==
  /\ Types \subseteq DecisionType
  /\ I64 \in Nat \ {0} /\ Lengths \subseteq Nat \ {0}
  /\ \A n \in Lengths : n + MaxTime \div Ticks < I64

VARIABLES
  now,         \* the clock
  lapi,        \* lapi[t]: the tick LAPI's decision ends at, 0 if there is none
  told,        \* told[t]: the end LAPI has answered last, 0 if none
  answer,      \* the answer that is under way
  row,         \* the row in shared memory
  applied,     \* auxiliary: applied[t]: the end the row was told of
  unread,      \* auxiliary: remediations told without whole seconds left
  changes, lost

vars == <<now, lapi, told, answer, row, applied, unread, changes, lost>>

-----------------------------------------------------------------------------
NoDuration == 0

(* A text is the number before each unit, the digits at its end that have  *)
(* none, and whether it has a byte that is no unit, as a sign or a point.  *)
Text == [h : Nat, m : Nat, s : Nat, bare : Nat, other : BOOLEAN]

Seconds(text) == text.h * Hour + text.m * Minute + text.s + text.bare

(* A slip: a component replaces what was read before it.                   *)
parse_duration_Last(text) == IF text.other THEN NoDuration ELSE text.s + text.bare

(* A slip: minutes count as hours.                                         *)
parse_duration_Minutes(text) ==
  IF text.other THEN NoDuration ELSE (text.h + text.m) * Hour + text.s + text.bare

(* parse_duration: None if a byte is no unit, on overflow, and for zero.   *)
parse_duration(text) ==
  IF ~text.other /\ Seconds(text) \in 1 .. I64 - 1 THEN Seconds(text) ELSE NoDuration

(* unix_now.                                                               *)
unix_now == now \div Ticks

Wrap(n) == ((n + I64) % (2 * I64)) - I64

(* A slip: the sum is kept in a word half as wide.                         *)
deadline_Narrow(d) ==
  IF d = NoDuration THEN 0 ELSE (unix_now + d) % (I64 \div 2)

(* A slip: the sum is kept in milliseconds.                                *)
deadline_Millis(d) == IF d = NoDuration THEN 0 ELSE (unix_now + d) * 1000

(* The deadline of add_decision and add_cidr_decision: no duration, no     *)
(* deadline.  The sum wraps around in a release build.                     *)
deadline(d) == IF d = NoDuration THEN 0 ELSE Wrap(unix_now + d)

-----------------------------------------------------------------------------
NoRow == [types |-> {}, expires |-> NoExpiry]

(* DecisionEntry::prune_expired.                                           *)
prune_expired(r) ==
  [types   |-> active_mask(r.expires, r.types, unix_now),
   expires |-> prune_inactive(r.expires, r.types, unix_now)]

(* add_decision: merge with what is in force, or insert.                   *)
add_decision(r, t, d) ==
  LET old == prune_expired(r)
  IN  [types   |-> old.types \union {t},
       expires |-> merge(old.expires, old.types, t, deadline(d))]

(* A slip: the deadline is cleared, the bit stays.                         *)
remove_decision_type_Bit(r, t) ==
  LET old == prune_expired(r) IN [old EXCEPT !.expires = clear_bit(@, t)]

(* remove_decision_type.                                                   *)
remove_decision_type(r, t) ==
  LET old == prune_expired(r)
  IN  [types |-> old.types \ {t}, expires |-> clear_bit(old.expires, t)]

(* What a handler finds.                                                   *)
Found == active_mask(row.expires, row.types, unix_now)

-----------------------------------------------------------------------------
InForce(t) == now < lapi[t]

(* Go's Duration.Round(time.Second), halves up.                            *)
Rounded(t) == (2 * (lapi[t] - now) + Ticks) \div (2 * Ticks)

Zero == [h |-> 0, m |-> 0, s |-> 0, bare |-> 0, other |-> FALSE]

(* Go's Duration.String of n seconds.                                      *)
GoText(n) ==
  [Zero EXCEPT !.h = n \div Hour, !.m = (n % Hour) \div Minute, !.s = (n % Hour) % Minute]

(* The texts a duration may have: rounded to seconds as LAPI writes it, a  *)
(* bare number, or with a fraction, as Go writes what is not rounded.      *)
Texts(t) ==
  {GoText(Rounded(t)), [Zero EXCEPT !.bare = Rounded(t)],
   [GoText(Rounded(t)) EXCEPT !.other = TRUE]}

NoAnswer == [sent |-> FALSE, deleted |-> {}, new |-> <<>>, ends |-> <<>>, age |-> 0]

Init ==
  /\ now = 0
  /\ lapi = [t \in Types |-> 0]
  /\ told = [t \in Types |-> 0]
  /\ answer = NoAnswer
  /\ row = NoRow
  /\ applied = [t \in Types |-> 0]
  /\ unread = {}
  /\ changes = 0 /\ lost = 0

(* LAPI decides; of two decisions the longer counts.                       *)
Decide(t, n) ==
  /\ changes < MaxChanges
  /\ changes' = changes + 1
  /\ now + n * Ticks > lapi[t]
  /\ lapi' = [lapi EXCEPT ![t] = now + n * Ticks]
  /\ UNCHANGED <<now, told, answer, row, applied, unread, lost>>

(* A decision is deleted at LAPI before its end.                           *)
Revoke(t) ==
  /\ InForce(t) /\ changes < MaxChanges
  /\ changes' = changes + 1
  /\ lapi' = [lapi EXCEPT ![t] = 0]
  /\ UNCHANGED <<now, told, answer, row, applied, unread, lost>>

Deleted == {t \in Types : told[t] # 0 /\ (told[t] <= now \/ lapi[t] < told[t])}

New == {t \in Types : InForce(t) /\ lapi[t] # told[t]}

(* LAPI answers a poll, and takes the answer as told.                      *)
Poll ==
  /\ ~answer.sent /\ Deleted \union New # {}
  /\ \E texts \in [New -> UNION {Texts(t) : t \in New}] :
       /\ \A t \in New : texts[t] \in Texts(t)
       /\ answer' = [sent |-> TRUE, deleted |-> Deleted, new |-> texts,
                     ends |-> [t \in New |-> lapi[t]], age |-> 0]
  /\ told' = [t \in Types |->
                IF t \in New THEN lapi[t] ELSE IF t \in Deleted THEN 0 ELSE told[t]]
  /\ UNCHANGED <<now, lapi, row, applied, unread, changes, lost>>

(* apply_to_shm for this row: what is deleted, then what is new, call by   *)
(* call.                                                                   *)
Delete(t, r) == IF t \in answer.deleted THEN remove_decision_type(r, t) ELSE r

Add(t, r) ==
  IF t \in DOMAIN answer.new THEN add_decision(r, t, parse_duration(answer.new[t])) ELSE r

apply_to_shm == Add("captcha", Add("ban", Delete("captcha", Delete("ban", row))))

(* Whether a text says how many whole seconds are left.                    *)
WholeSeconds(text) == ~text.other /\ Seconds(text) > 0

Apply ==
  /\ answer.sent
  /\ answer' = NoAnswer
  /\ row' = apply_to_shm
  /\ LET new == DOMAIN answer.new
     IN  /\ applied' = [t \in Types |->
               LET kept == IF t \in answer.deleted THEN 0 ELSE applied[t]
               IN  IF t \in new /\ answer.ends[t] > kept THEN answer.ends[t] ELSE kept]
         /\ unread' = (unread \ answer.deleted)
                        \union {t \in new : ~WholeSeconds(answer.new[t])}
  /\ UNCHANGED <<now, lapi, told, changes, lost>>

(* The answer does not arrive: a timeout, a bad answer, a killed poller.   *)
Lose ==
  /\ answer.sent /\ lost < MaxLost
  /\ lost' = lost + 1
  /\ answer' = NoAnswer
  /\ UNCHANGED <<now, lapi, told, row, applied, unread, changes>>

Tick ==
  /\ now < MaxTime
  /\ answer.sent => answer.age < MaxDelay
  /\ now' = now + 1
  /\ answer' = IF answer.sent THEN [answer EXCEPT !.age = @ + 1] ELSE answer
  /\ UNCHANGED <<lapi, told, row, applied, unread, changes, lost>>

Next ==
  \/ \E t \in Types : Revoke(t) \/ (\E n \in Lengths : Decide(t, n))
  \/ Poll \/ Apply \/ Lose \/ Tick

(* The poller polls again and again, and applies what arrives.             *)
Spec == Init /\ [][Next]_vars /\ WF_vars(Poll) /\ WF_vars(Apply)

-----------------------------------------------------------------------------
(* The row holds words and no deadline of a remediation it does not hold.  *)
TypeOK ==
  /\ now \in 0 .. MaxTime
  /\ lapi \in [Types -> Nat] /\ told \in [Types -> Nat]
  /\ row.types \subseteq Types
  /\ row.expires \in [DecisionType -> -I64 .. I64 - 1]
  /\ \A t \in DecisionType \ row.types : row.expires[t] = 0
  /\ applied \in [Types -> Nat] /\ unread \subseteq row.types
  /\ answer.age \in 0 .. MaxDelay
  /\ changes \in 0 .. MaxChanges /\ lost \in 0 .. MaxLost

(* A decision is not enforced longer than LAPI meant, but for the time its *)
(* answer was under way and half a second of rounding, whether or not its  *)
(* deletion ever arrives.  Only a text that parse_duration cannot read, or *)
(* one of no whole seconds, makes a decision without end.                  *)
EndsOnTime ==
  \A t \in Found \ unread : 2 * now <= 2 * (applied[t] + MaxDelay) + Ticks

(* A decision the row was told of is enforced until a second and a half    *)
(* before its end: one for rounding the clock down, half for rounding the  *)
(* duration.                                                               *)
NotEarly ==
  \A t \in Types : 2 * (applied[t] - now) > 3 * Ticks => t \in Found

(* Every decision that has ended at LAPI is gone from the cache at last,   *)
(* also one that was stored without an end, as long as no answer is lost.  *)
EndedRemoved ==
  \A t \in Types : ~InForce(t) ~> (lost > 0 \/ InForce(t) \/ t \notin Found)
=============================================================================
