---------------------------- MODULE StreamPoller ----------------------------
(***************************************************************************)
(* The elected poller (src/stream.rs) keeps the decision cache equal to    *)
(* what LAPI decides: a full answer at startup replaces the cache, then    *)
(* every poll brings what is new and what is deleted since the last one.   *)
(*                                                                         *)
(* LAPI is external: it remembers what it has told this bouncer (pulled),  *)
(* whether or not the answer arrives.  It keeps one decision per value and *)
(* type.  The cache is the set of remediations in force per key, without   *)
(* their ends, which module DecisionCache is about; each call of src/shm.rs *)
(* is one step.  A poller stops or is killed, another worker takes over    *)
(* (module PollerElection) and finds the cache as it was left.             *)
(***************************************************************************)
EXTENDS Naturals, FiniteSets

CONSTANTS
  Decision,      \* LAPI's decisions: [value, type, simulated]
  Keys,          \* addresses and ranges
  Parse,         \* Parse[v]: the key a value means, or Unparsable
  Unparsable,
  KnownTypes,    \* types the cache can store: ban, captcha
  Fallback,      \* crowdsec_fallback_remediation: allow, ban or captcha
  max_retries,   \* crowdsec_max_retries
  MaxChanges,    \* bound on changes LAPI makes
  MaxFailures,   \* bound on polls that LAPI does not get
  MaxLost,       \* bound on answers of LAPI that do not arrive
  MaxTakeovers   \* bound on changes of the poller

ASSUME DecisionAssumption ==
  /\ Decision \subseteq [value : DOMAIN Parse, type : STRING, simulated : BOOLEAN]
  /\ Parse \in [DOMAIN Parse -> Keys \union {Unparsable}]
  /\ Unparsable \notin Keys
ASSUME PolicyAssumption ==
  /\ KnownTypes \subseteq STRING /\ "allow" \notin KnownTypes
  /\ Fallback \in KnownTypes \union {"allow"}
ASSUME PollBoundAssumption ==
  {max_retries, MaxChanges, MaxFailures, MaxLost, MaxTakeovers} \subseteq Nat

VARIABLES
  lapi,        \* decisions in force at LAPI
  pulled,      \* decisions LAPI has told this bouncer of
  cache,       \* remediations in force in shared memory
  phase,       \* where the polling thread is
  attempt,     \* attempt of poll_with_retry
  batch,       \* what is still to be applied of an answer
  dirty,       \* auxiliary: LAPI and the cache disagree on what was told
  taken,       \* auxiliary: the rows a deletion took after they were told
  changes, failures, lost, takeovers

bounds == <<changes, failures, lost, takeovers>>
vars == <<lapi, pulled, cache, phase, attempt, batch, dirty, taken, bounds>>

-----------------------------------------------------------------------------
(* resolve_unknown_type: the remediation a type is stored as, "allow" if   *)
(* it is not stored.                                                       *)
resolve_decision_type(type) == IF type \in KnownTypes THEN type ELSE Fallback

(* The decisions apply_to_shm does not skip.                               *)
Applies(d) ==
  /\ ~d.simulated
  /\ resolve_decision_type(d.type) # "allow"
  /\ Parse[d.value] # Unparsable

Remediation(d) == [key |-> Parse[d.value], type |-> resolve_decision_type(d.type)]

(* What a set of decisions is in the cache.                                *)
Image(D) == {Remediation(d) : d \in {e \in D : Applies(e)}}

NoBatch == [deleted |-> {}, new |-> {}]

(* A worker starts to poll an empty cache; LAPI may know this bouncer from *)
(* before nginx was started.                                               *)
Init ==
  /\ lapi \in SUBSET Decision
  /\ pulled \in {{}, lapi}
  /\ cache = {}
  /\ phase = "elect"
  /\ attempt = 0
  /\ batch = NoBatch
  /\ dirty = (pulled # {})
  /\ taken = {}
  /\ changes = 0 /\ failures = 0 /\ lost = 0 /\ takeovers = 0

-----------------------------------------------------------------------------
(* LAPI decides, or a decision ends.                                       *)
Decide ==
  /\ changes < MaxChanges
  /\ changes' = changes + 1
  /\ \E d \in Decision : lapi' = IF d \in lapi THEN lapi \ {d} ELSE lapi \union {d}
  /\ UNCHANGED <<pulled, cache, phase, attempt, batch, dirty, taken, failures, lost, takeovers>>

(* try_become_poller succeeds; the initial sync begins.                    *)
BecomePoller ==
  /\ phase = "elect"
  /\ phase' = "startup"
  /\ attempt' = 0
  /\ UNCHANGED <<lapi, pulled, cache, batch, dirty, taken, bounds>>

(* LAPI's answer: everything or the difference, and what is deleted.       *)
Answer(startup) ==
  [deleted |-> pulled \ lapi, new |-> IF startup THEN lapi ELSE lapi \ pulled]

(* The rows that a deletion takes although a decision LAPI has told before *)
(* has them: what is new in the same answer is stored after it.            *)
Taken(startup) ==
  IF startup THEN {} ELSE (taken \union Image(pulled \ lapi)) \ Image(lapi \ pulled)

(* A slip: the cache is not emptied before a full answer is applied.       *)
poll_Unclear(startup) ==
  /\ batch' = Answer(startup)
  /\ pulled' = lapi
  /\ taken' = Taken(startup)
  /\ UNCHANGED cache

(* poll: on an answer, clear_all at startup and then apply_to_shm.         *)
poll(startup) ==
  /\ batch' = Answer(startup)
  /\ pulled' = lapi
  /\ taken' = Taken(startup)
  /\ cache' = IF startup THEN {} ELSE cache

(* poll_with_retry, one attempt that succeeds.                             *)
StartupPoll ==
  /\ phase = "startup"
  /\ poll(TRUE)
  /\ phase' = "apply_startup"
  /\ UNCHANGED <<lapi, attempt, dirty, bounds>>

(* A slip: after the last attempt the poller starts over.                  *)
AfterError_Endless ==
  /\ phase' = "retry"
  /\ UNCHANGED attempt

(* poll_with_retry after an error: sleep before the next attempt, or give  *)
(* up the initial sync and go on to the polling loop.                      *)
AfterError ==
  /\ phase' = IF attempt < max_retries THEN "retry" ELSE "sleep"
  /\ UNCHANGED attempt

StartupUnreached ==
  /\ phase = "startup" /\ failures < MaxFailures
  /\ failures' = failures + 1
  /\ AfterError
  /\ UNCHANGED <<lapi, pulled, cache, batch, dirty, taken, changes, lost, takeovers>>

StartupLost ==
  /\ phase = "startup" /\ lost < MaxLost
  /\ lost' = lost + 1
  /\ pulled' = lapi
  /\ dirty' = (dirty \/ pulled # lapi)
  /\ AfterError
  /\ UNCHANGED <<lapi, cache, batch, taken, changes, failures, takeovers>>

Retry ==
  /\ phase = "retry"
  /\ attempt' = attempt + 1
  /\ phase' = "startup"
  /\ UNCHANGED <<lapi, pulled, cache, batch, dirty, taken, bounds>>

(* A slip: the loop asks for everything, every time.                       *)
DeltaPoll_Startup ==
  /\ phase = "sleep"
  /\ poll(TRUE)
  /\ phase' = "apply"
  /\ UNCHANGED <<lapi, attempt, dirty, bounds>>

(* The polling loop: after poll_interval, poll(false).                     *)
DeltaPoll ==
  /\ phase = "sleep"
  /\ poll(FALSE)
  /\ phase' = "apply"
  /\ UNCHANGED <<lapi, attempt, dirty, bounds>>

(* The loop only counts an error: LAPI got the poll or it did not.         *)
DeltaLost ==
  /\ phase = "sleep" /\ lost < MaxLost
  /\ lost' = lost + 1
  /\ pulled' = lapi
  /\ dirty' = (dirty \/ pulled # lapi)
  /\ UNCHANGED <<lapi, cache, phase, attempt, batch, taken, changes, failures, takeovers>>

-----------------------------------------------------------------------------
(* apply_to_shm: first what is deleted, one decision at a time.            *)

(* A slip: simulated decisions are not skipped.                            *)
ApplyDeleted_Simulated(d) ==
  /\ phase \in {"apply", "apply_startup"}
  /\ d \in batch.deleted
  /\ cache' = cache \ {Remediation(d)}
  /\ batch' = [batch EXCEPT !.deleted = @ \ {d}]
  /\ UNCHANGED <<lapi, pulled, phase, attempt, dirty, taken, bounds>>

ApplyDeleted(d) ==
  /\ phase \in {"apply", "apply_startup"}
  /\ d \in batch.deleted
  /\ cache' = IF Applies(d) THEN cache \ {Remediation(d)} ELSE cache
  /\ batch' = [batch EXCEPT !.deleted = @ \ {d}]
  /\ UNCHANGED <<lapi, pulled, phase, attempt, dirty, taken, bounds>>

(* A slip: what is new is added before all that is deleted is removed.     *)
ApplyNew_First(d) ==
  /\ phase \in {"apply", "apply_startup"}
  /\ d \in batch.new
  /\ cache' = IF Applies(d) THEN cache \union {Remediation(d)} ELSE cache
  /\ batch' = [batch EXCEPT !.new = @ \ {d}]
  /\ UNCHANGED <<lapi, pulled, phase, attempt, dirty, taken, bounds>>

ApplyNew(d) ==
  /\ phase \in {"apply", "apply_startup"}
  /\ batch.deleted = {} /\ d \in batch.new
  /\ cache' = IF Applies(d) THEN cache \union {Remediation(d)} ELSE cache
  /\ batch' = [batch EXCEPT !.new = @ \ {d}]
  /\ UNCHANGED <<lapi, pulled, phase, attempt, dirty, taken, bounds>>

Applied ==
  /\ phase \in {"apply", "apply_startup"}
  /\ batch = NoBatch
  /\ phase' = "sleep"
  /\ dirty' = (dirty /\ phase = "apply")
  /\ UNCHANGED <<lapi, pulled, cache, attempt, batch, taken, bounds>>

-----------------------------------------------------------------------------
(* The poller ends and another worker waits to take over.  A stopped       *)
(* poller leaves from its sleeps only, so with its batch applied; a killed *)
(* one leaves from anywhere.                                               *)
Stop ==
  /\ phase \in {"retry", "sleep"} /\ takeovers < MaxTakeovers
  /\ takeovers' = takeovers + 1
  /\ phase' = "elect"
  /\ UNCHANGED <<lapi, pulled, cache, attempt, batch, dirty, taken, changes, failures, lost>>

Crash ==
  /\ phase # "elect" /\ takeovers < MaxTakeovers
  /\ takeovers' = takeovers + 1
  /\ phase' = "elect"
  /\ batch' = NoBatch
  /\ dirty' = (dirty \/ phase \in {"apply", "apply_startup"})
  /\ UNCHANGED <<lapi, pulled, cache, attempt, taken, changes, failures, lost>>

PollerStep ==
  \/ BecomePoller \/ StartupPoll \/ Retry \/ DeltaPoll \/ Applied
  \/ \E d \in Decision : ApplyDeleted(d) \/ ApplyNew(d)

Next ==
  \/ Decide
  \/ PollerStep
  \/ StartupUnreached \/ StartupLost \/ DeltaLost
  \/ Stop \/ Crash

Spec == Init /\ [][Next]_vars

(* The thread is scheduled, and LAPI answers when it does not fail.        *)
FairSpec == Spec /\ WF_vars(PollerStep)

-----------------------------------------------------------------------------
TypeOK ==
  /\ lapi \subseteq Decision /\ pulled \subseteq Decision
  /\ cache \subseteq [key : Keys, type : KnownTypes]
  /\ phase \in {"elect", "startup", "retry", "apply_startup", "sleep", "apply"}
  /\ attempt \in 0 .. max_retries
  /\ batch \in [deleted : SUBSET Decision, new : SUBSET Decision]
  /\ dirty \in BOOLEAN /\ taken \subseteq [key : Keys, type : KnownTypes]
  /\ {changes, failures, lost, takeovers} \subseteq Nat

(* The cache holds the row of every decision of D, unless the deletion of  *)
(* another decision with that row (an unknown type that is stored as a     *)
(* known one, an address or a range that is written in another way) came   *)
(* after the last of them was told; and nothing else.                      *)
Agrees(D) == cache = Image(D) \ taken

(* Between two polls the cache holds just what LAPI has told, unless an    *)
(* answer was lost or a poller killed since the last full sync: a delta    *)
(* applied one call at a time, deletions first, adds up, also when it      *)
(* deletes and adds decisions of one row.                                  *)
InSync == phase = "sleep" /\ ~dirty => Agrees(pulled)

(* Rows that the answer in hand deletes and has anew: they are away for a  *)
(* moment.                                                                 *)
Renewed == Image(batch.deleted) \intersect Image(batch.new)

(* A decision that was told and still is stays in the cache for the        *)
(* handlers, also while a delta is applied, an answer lost or a poller     *)
(* killed: only clear_all at the start of a full sync lets them through,   *)
(* and a deletion of another decision with the same row.                   *)
HeldThroughDelta ==
  [][phase # "startup" =>
       cache \intersect Image(pulled \intersect pulled') \subseteq
         cache' \union taken' \union Renewed]_vars

(* Once LAPI is quiet the cache comes to hold its decisions, through       *)
(* retries and takeovers, also when the initial sync fails for good,       *)
(* unless dirt outlives the last full sync.                                *)
CatchesUp == <>[](dirty \/ Agrees(lapi))

(* What makes InSync inductive: while a batch is applied, the cache and    *)
(* what is left of the batch add up to what LAPI has told.                 *)
AddsUp ==
  /\ phase \in {"elect", "startup", "retry", "sleep"} => batch = NoBatch
  /\ batch.new \subseteq pulled
  /\ Image(batch.new) \intersect taken = {}
  /\ Image(batch.deleted) \intersect Image(pulled) \subseteq taken \union Image(batch.new)
  /\ ~dirty \/ phase = "apply_startup" =>
       /\ cache \subseteq (Image(pulled) \ taken) \union Image(batch.deleted)
       /\ Image(pulled) \ taken \subseteq cache \union Image(batch.new)
=============================================================================
