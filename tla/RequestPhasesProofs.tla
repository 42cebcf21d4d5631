------------------------- MODULE RequestPhasesProofs -------------------------
(***************************************************************************)
(* Theorems about RequestPhases: its safety invariants, for every set of   *)
(* location configurations and requests.  First what the outcomes of each  *)
(* handler look like, then the invariant, then one lemma per action.       *)
(***************************************************************************)
EXTENDS RequestPhases, TLAPS

-----------------------------------------------------------------------------
(* Outcomes of handlers.                                                   *)

Waits == {"no", "body", "appsec", "captcha", "nobody"}
Answers == {"none", "ban", "captcha", "challenge", "redirect", "empty", "forbidden"}
Says == {"no", "allowed", "failed", "blocked"}
Contexts == [owner : {"none", "appsec", "captcha"}, stored : Stored, shm_ban : BOOLEAN]

Outcomes ==
  [res : {"declined", "forbidden", "error", "done", "pending"}, answer : Answers,
   dropped : {0, 1}, waits : Waits, ctx : Contexts, inspected : Says]

(* The outcome of a handler that neither waits nor asks AppSec.            *)
Settled(o) ==
  /\ o \in Outcomes /\ o.res # "pending"
  /\ o.waits = "no" /\ o.ctx = ctx

BanAnswer(o) == o.answer \in {"none", "ban", "forbidden"}

(* A client that is refused, unless nothing can be sent.                   *)
Ban(o) ==
  /\ Settled(o) /\ BanAnswer(o)
  /\ o.dropped = 1 => o.res # "declined"
  /\ Enforceable => o.res \in {"done", "forbidden"}

(* What an inspection that did not end in a verdict comes to.              *)
Inspection(o) ==
  /\ o \in Outcomes /\ BanAnswer(o)
  /\ o.ctx = ctx \/ (o.ctx.owner = "appsec" /\ o.ctx.stored \in {"unset", o.res})
  /\ o.ctx.owner = "appsec" => o.ctx.shm_ban = AppSecContext.shm_ban
  /\ o.res = "pending" =>
       /\ o.waits \in {"appsec", "body"}
       /\ o.ctx.owner = "appsec" /\ o.ctx.stored = "unset"
       /\ o.dropped = 0 /\ o.inspected = inspected
  /\ o.res # "pending" => o.waits = "no" /\ o.inspected \in {inspected, "failed"}
  /\ o.res = "declined" => o.dropped = 0 /\ o.inspected = "failed"
  /\ Enforceable => o.res # "error"
  /\ Enforceable /\ o.res = "declined" => failure_action = "passthrough"

(* A captcha decision: nothing that is sent may fail to end the request.   *)
Captcha(o) ==
  /\ o \in Outcomes /\ o.inspected = inspected
  /\ o.ctx \in {ctx, CaptchaContext}
  /\ o.res = "pending" => o.waits = "body" /\ o.ctx = CaptchaContext
  /\ o.res # "pending" => o.waits = "no"
  /\ Enforceable /\ o.dropped = 1 /\ o.res \in {"declined", "error"} =>
       o.ctx = CaptchaContext

LEMMA ContextTypes ==
  ASSUME TypeOK
  PROVE  ctx \in Contexts /\ NoContext \in Contexts /\ CaptchaContext \in Contexts
         /\ AppSecContext \in Contexts /\ inspected \in Says
BY DEF TypeOK, Contexts, NoContext, CaptchaContext, AppSecContext, Context, Stored, Says

LEMMA ResultSettled ==
  ASSUME TypeOK, NEW r \in {"declined", "forbidden", "error", "done"}
  PROVE  /\ Settled(Result(r)) /\ Result(r).res = r /\ Result(r).dropped = 0
         /\ Result(r).answer = "none" /\ Result(r).inspected = inspected
BY ContextTypes DEF Settled, Result, Outcomes, Waits, Answers

LEMMA DoneSettled ==
  ASSUME TypeOK, NEW what \in Answers, NEW o \in Done(what)
  PROVE  /\ Settled(o) /\ o.res = "done" /\ o.dropped = 0 /\ o.answer = what
         /\ o.inspected = inspected
BY ContextTypes DEF Done, Settled, Result, Outcomes, Waits, Answers

LEMMA ForbiddenSettled ==
  ASSUME TypeOK, NEW o \in Forbidden
  PROVE  /\ Settled(o) /\ o.res = "forbidden" /\ o.dropped = 0 /\ o.answer = "forbidden"
         /\ o.inspected = inspected
BY ContextTypes DEF Forbidden, Settled, Result, Outcomes, Waits, Answers

LEMMA PendingOutcomes ==
  ASSUME TypeOK, NEW w \in Waits, NEW c \in Contexts, NEW o \in Pending(w, c)
  PROVE  /\ o \in Outcomes /\ o.res = "pending" /\ o.waits = w /\ o.ctx = c
         /\ o.answer = "none" /\ o.dropped = 0 /\ o.inspected = inspected
BY ContextTypes DEF Pending, Result, Outcomes, Answers

LEMMA CountedOutcomes ==
  ASSUME NEW S \in SUBSET Outcomes, \A o \in S : o.dropped = 0, NEW p \in Counted(S)
  PROVE  \E o \in S :
           /\ p \in Outcomes /\ p.dropped = 1
           /\ p.res = o.res /\ p.answer = o.answer /\ p.waits = o.waits /\ p.ctx = o.ctx
           /\ p.inspected = o.inspected
BY DEF Counted, Outcomes

LEMMA WithContextOutcomes ==
  ASSUME NEW S \in SUBSET Outcomes, NEW c \in Contexts, NEW p \in WithContext(S, c)
  PROVE  \E o \in S :
           /\ p \in Outcomes /\ p.ctx = c
           /\ p.res = o.res /\ p.answer = o.answer /\ p.waits = o.waits
           /\ p.dropped = o.dropped /\ p.inspected = o.inspected
BY DEF WithContext, Outcomes

LEMMA SaidOutcomes ==
  ASSUME NEW S \in SUBSET Outcomes, NEW what \in Says, NEW p \in Said(S, what)
  PROVE  \E o \in S :
           /\ p \in Outcomes /\ p.inspected = what
           /\ p.res = o.res /\ p.answer = o.answer /\ p.waits = o.waits
           /\ p.dropped = o.dropped /\ p.ctx = o.ctx
BY DEF Said, Outcomes

LEMMA BlockBanOutcomes ==
  ASSUME TypeOK, NEW o \in finish_block_ban
  PROVE  /\ Settled(o) /\ BanAnswer(o) /\ o.dropped = 0 /\ o.inspected = inspected
         /\ o.res # "declined"
         /\ Enforceable => o.res \in {"done", "forbidden"}
<1>1. CASE o \in Done("ban")
  BY <1>1, DoneSettled DEF Answers, BanAnswer
<1>2. CASE o \in Forbidden
  BY <1>2, ForbiddenSettled DEF BanAnswer
<1>3. CASE o \in Error /\ NoMemory /\ ~conf.status403
  BY <1>3, ResultSettled DEF Error, BanAnswer, Enforceable
<1> QED
  BY <1>1, <1>2, <1>3 DEF finish_block_ban, OrFails

LEMMA UnenforceableOutcomes ==
  ASSUME TypeOK, NEW o \in apply_unenforceable_action
  PROVE  /\ Settled(o) /\ BanAnswer(o) /\ o.dropped = 0 /\ o.inspected = inspected
         /\ Enforceable => o.res # "error"
         /\ Enforceable /\ NoMemory => o.res \in {"done", "forbidden"}
<1>1. CASE o \in finish_block_ban /\ conf.block
  BY <1>1, BlockBanOutcomes
<1>2. CASE o \in Declined /\ ~conf.block
  BY <1>2, ResultSettled DEF Declined, BanAnswer, Enforceable
<1> QED
  BY <1>1, <1>2 DEF apply_unenforceable_action

LEMMA BanDecisionOutcomes ==
  ASSUME TypeOK, NEW o \in handle_ban_decision
  PROVE  Ban(o) /\ o.inspected = inspected
<1>1. CASE o \in Counted(finish_block_ban)
  BY <1>1, CountedOutcomes, BlockBanOutcomes DEF Settled, Ban, BanAnswer
<1>2. CASE o \in Counted(Done("ban"))
  BY <1>2, CountedOutcomes, DoneSettled DEF Settled, Ban, BanAnswer, Answers
<1>3. CASE o \in apply_unenforceable_action /\ NoMemory
  BY <1>3, UnenforceableOutcomes DEF Ban, Settled
<1> QED
  BY <1>1, <1>2, <1>3 DEF handle_ban_decision, send_ban_response, OrFails

LEMMA FailClosedOutcomes ==
  ASSUME TypeOK, NEW action, NEW o \in fail_closed(action)
  PROVE  /\ Settled(o) /\ BanAnswer(o) /\ o.inspected = "failed"
         /\ o.res = "declined" => o.dropped = 0
         /\ Enforceable => o.res # "error"
         /\ Enforceable /\ o.res = "declined" => action # "deny"
<1>1. CASE action = "deny"
  <2>1. handle_ban_decision \in SUBSET Outcomes
    BY BanDecisionOutcomes DEF Ban, Settled
  <2> QED
    BY <1>1, <2>1, SaidOutcomes, BanDecisionOutcomes
    DEF fail_closed, Says, Ban, Settled, BanAnswer, Outcomes
<1>2. CASE action # "deny"
  <2>1. Declined \in SUBSET Outcomes
    BY ResultSettled DEF Declined, Settled
  <2> QED
    BY <1>2, <2>1, SaidOutcomes, ResultSettled
    DEF fail_closed, Declined, Says, Settled, BanAnswer
<1> QED
  BY <1>1, <1>2

(* No context that waits for a result may have one when an inspection of a *)
(* request begins or is taken up again by a callback.                      *)
NoResult == ctx.owner = "appsec" => ctx.stored = "unset"

LEMMA AppSecContextFacts ==
  ASSUME TypeOK, NoResult
  PROVE  /\ AppSecContext.owner = "appsec" /\ AppSecContext.stored = "unset"
         /\ AppSecContext \in Contexts
         /\ ctx.owner = "appsec" => AppSecContext = ctx
         /\ ctx.owner # "appsec" => AppSecContext.shm_ban = (decision = "ban")
<1>1. CASE ctx.owner = "appsec"
  BY <1>1, ContextTypes DEF AppSecContext, NoResult
<1>2. CASE ctx.owner # "appsec"
  BY <1>2, ContextTypes DEF AppSecContext, Context
<1> QED
  BY <1>1, <1>2

LEMMA PendingInspection ==
  ASSUME TypeOK, NoResult, NEW w \in {"appsec", "body"}, NEW o \in Pending(w, AppSecContext)
  PROVE  Inspection(o)
<1>1. /\ o \in Outcomes /\ o.res = "pending" /\ o.waits = w /\ o.ctx = AppSecContext
      /\ o.answer = "none" /\ o.dropped = 0 /\ o.inspected = inspected
  BY PendingOutcomes, AppSecContextFacts DEF Waits
<1> QED
  BY <1>1, AppSecContextFacts DEF Inspection, BanAnswer

LEMMA FailedInspection ==
  ASSUME TypeOK, NoResult, NEW action, NEW o \in fail_closed(action),
         action \in {"deny", failure_action}
  PROVE  Inspection(o)
BY FailClosedOutcomes, AppSecContextFacts DEF Settled, Inspection, Outcomes, failure_action

LEMMA FailedInspectionContext ==
  ASSUME TypeOK, NoResult, NEW action, NEW o \in fail_closed(action),
         action \in {"deny", failure_action},
         NEW p \in Outcomes, NEW c,
         c \in {AppSecContext, [AppSecContext EXCEPT !.stored = o.res]},
         p.ctx = c, p.res = o.res, p.answer = o.answer, p.waits = o.waits,
         p.dropped = o.dropped, p.inspected = o.inspected
  PROVE  Inspection(p)
<1>1. /\ c.owner = "appsec" /\ c.shm_ban = AppSecContext.shm_ban
      /\ c.stored \in {"unset", o.res}
  BY AppSecContextFacts DEF Contexts
<1> QED
  BY <1>1, FailClosedOutcomes DEF Settled, Inspection, BanAnswer, failure_action

LEMMA FailClosedTypes ==
  ASSUME TypeOK, NEW action
  PROVE  fail_closed(action) \in SUBSET Outcomes
BY FailClosedOutcomes DEF Settled

LEMMA FailureActions == failure_action \in {"deny", "passthrough"}
BY DEF failure_action

LEMMA InspectWithBodyOutcomes ==
  ASSUME TypeOK, NoResult, NEW o \in inspect_with_body
  PROVE  Inspection(o)
<1> DEFINE Full(p) == WithContext({p}, IF p.res = "done" THEN AppSecContext
                                       ELSE [AppSecContext EXCEPT !.stored = p.res])
<1>1. CASE o \in Pending("appsec", AppSecContext)
  BY <1>1, PendingInspection
<1>2. ASSUME NEW p \in fail_closed(failure_action), o \in Full(p) PROVE Inspection(o)
  <2> DEFINE c == IF p.res = "done" THEN AppSecContext
                  ELSE [AppSecContext EXCEPT !.stored = p.res]
  <2>1. p \in Outcomes /\ p.res # "pending"
    BY FailClosedOutcomes DEF Settled
  <2>2. c \in Contexts
    BY <2>1, AppSecContextFacts DEF Contexts, Outcomes, Stored
  <2>3. PICK q \in {p} :
           /\ o \in Outcomes /\ o.ctx = c
           /\ o.res = q.res /\ o.answer = q.answer /\ o.waits = q.waits
           /\ o.dropped = q.dropped /\ o.inspected = q.inspected
    <3>1. {p} \in SUBSET Outcomes /\ o \in WithContext({p}, c)
      BY <1>2, <2>1
    <3> HIDE DEF c
    <3> QED BY <3>1, <2>2, WithContextOutcomes
  <2>4. c \in {AppSecContext, [AppSecContext EXCEPT !.stored = p.res]}
    OBVIOUS
  <2> HIDE DEF c
  <2> QED BY <2>3, <2>4, FailedInspectionContext
<1>3. CASE o \in fail_closed(failure_action) /\ ctx.owner # "appsec"
  BY <1>3, FailedInspection
<1> QED
  BY <1>1, <1>2, <1>3 DEF inspect_with_body

LEMMA DropOutcomes ==
  ASSUME TypeOK, NoResult, NEW o \in inspect_or_drop_unforwardable_body
  PROVE  Inspection(o)
BY InspectWithBodyOutcomes, FailedInspection DEF inspect_or_drop_unforwardable_body

LEMMA InitiateBodyReadOutcomes ==
  ASSUME TypeOK, NoResult, NEW o \in initiate_appsec_body_read
  PROVE  Inspection(o)
<1>1. CASE o \in Pending("body", AppSecContext)
  BY <1>1, PendingInspection
<1>2. CASE o \in fail_closed(failure_action)
  BY <1>2, FailedInspection
<1>3. CASE o \in WithContext(Forbidden \union fail_closed(failure_action), AppSecContext)
  <2>1. Forbidden \union fail_closed(failure_action) \in SUBSET Outcomes
    BY ForbiddenSettled, FailClosedTypes DEF Settled
  <2>2. PICK p \in Forbidden \union fail_closed(failure_action) :
           /\ o \in Outcomes /\ o.ctx = AppSecContext
           /\ o.res = p.res /\ o.answer = p.answer /\ o.waits = p.waits
           /\ o.dropped = p.dropped /\ o.inspected = p.inspected
    BY <1>3, <2>1, AppSecContextFacts, WithContextOutcomes
  <2>3. CASE p \in Forbidden
    BY <2>2, <2>3, ForbiddenSettled, AppSecContextFacts DEF Inspection, BanAnswer, Settled
  <2>4. CASE p \in fail_closed(failure_action)
    BY <2>2, <2>4, FailedInspectionContext
  <2> QED BY <2>2, <2>3, <2>4
<1> QED
  BY <1>1, <1>2, <1>3 DEF initiate_appsec_body_read, OrFails

LEMMA InspectRequestBodyOutcomes ==
  ASSUME TypeOK, NoResult, NEW o \in inspect_request_body
  PROVE  Inspection(o)
BY InspectWithBodyOutcomes, DropOutcomes, InitiateBodyReadOutcomes DEF inspect_request_body

(* An inspection that begins.                                              *)
LEMMA InspectOutcomes ==
  ASSUME TypeOK, ctx.owner # "appsec", NEW o \in inspect
  PROVE  Inspection(o)
<1>1. NoResult
  BY DEF NoResult
<1>2. CASE o \in Forbidden
  BY <1>2, ForbiddenSettled DEF Inspection, BanAnswer, Settled
<1>3. CASE o \in fail_closed(failure_action)
  BY <1>1, <1>3, FailedInspection
<1>4. CASE o \in inspect_with_body \/ o \in inspect_request_body
  BY <1>1, <1>4, InspectWithBodyOutcomes, InspectRequestBodyOutcomes
<1> QED
  BY <1>2, <1>3, <1>4 DEF inspect

-----------------------------------------------------------------------------
(* The captcha decision.                                                   *)

LEMMA SettledCaptcha ==
  ASSUME NEW o, Settled(o), o.inspected = inspected, o.dropped = 0
  PROVE  Captcha(o)
BY DEF Captcha, Settled

LEMMA EmptyAnswerOutcomes ==
  ASSUME TypeOK, NEW o \in OrFails(Done("empty"), apply_unenforceable_action)
  PROVE  Captcha(o)
BY DoneSettled, UnenforceableOutcomes, SettledCaptcha DEF OrFails, Answers

LEMMA CaptchaPageOutcomes ==
  ASSUME TypeOK, NEW o \in try_send_captcha_page
  PROVE  /\ Settled(o) /\ o.inspected = inspected /\ o.dropped = 0
         /\ Enforceable /\ conf.captcha # "no_template" => o.res \in {"done", "forbidden"}
BY DoneSettled, UnenforceableOutcomes
DEF try_send_captcha_page, send_captcha_page, OrFails, Answers

LEMMA CaptchaReadOutcomes ==
  ASSUME TypeOK, NEW o \in initiate_body_read
  PROVE  /\ Captcha(o) /\ o.dropped = 0
         /\ Enforceable /\ o.res \in {"declined", "error"} => o.ctx = CaptchaContext
<1>1. CASE o \in Pending("body", CaptchaContext)
  BY <1>1, PendingOutcomes, ContextTypes DEF Captcha, Waits
<1>2. CASE o \in apply_unenforceable_action /\ NoMemory
  BY <1>2, UnenforceableOutcomes, SettledCaptcha
<1>3. CASE o \in WithContext(apply_unenforceable_action, CaptchaContext)
  <2>1. apply_unenforceable_action \in SUBSET Outcomes
    BY UnenforceableOutcomes DEF Settled
  <2> QED
    BY <1>3, <2>1, WithContextOutcomes, ContextTypes, UnenforceableOutcomes
    DEF Captcha, Settled
<1> QED
  BY <1>1, <1>2, <1>3 DEF initiate_body_read, OrFails

LEMMA CaptchaPostOutcomes ==
  ASSUME TypeOK, conf.captcha # "no_template", NEW o \in Counted(handle_captcha_post)
  PROVE  Captcha(o)
<1>1. \A p \in handle_captcha_post :
        /\ Captcha(p) /\ p.dropped = 0
        /\ Enforceable /\ p.res \in {"declined", "error"} => p.ctx = CaptchaContext
  BY CaptchaReadOutcomes, CaptchaPageOutcomes, SettledCaptcha DEF handle_captcha_post
<1>2. handle_captcha_post \in SUBSET Outcomes
  BY <1>1 DEF Captcha
<1> QED
  BY <1>1, <1>2, CountedOutcomes DEF Captcha

LEMMA AskForCaptchaOutcomes ==
  ASSUME TypeOK, NEW o \in AskForCaptcha
  PROVE  Captcha(o)
<1>1. CASE o \in apply_unenforceable_action
  BY <1>1, UnenforceableOutcomes, SettledCaptcha
<1>2. CASE conf.captcha # "no_template" /\ o \in Counted(handle_captcha_post)
  BY <1>2, CaptchaPostOutcomes
<1>3. ASSUME NEW p \in try_send_captcha_page,
             o \in IF p.res = "done" THEN Counted({p}) ELSE {p}
      PROVE  Captcha(o)
  <2>1. CASE p.res = "done"
    <3>1. o \in Counted({p}) /\ {p} \in SUBSET Outcomes /\ \A q \in {p} : q.dropped = 0
      BY <1>3, <2>1, CaptchaPageOutcomes DEF Settled
    <3> QED BY <2>1, <3>1, CountedOutcomes, CaptchaPageOutcomes DEF Captcha, Settled
  <2>2. CASE p.res # "done"
    BY <1>3, <2>2, CaptchaPageOutcomes, SettledCaptcha
  <2> QED BY <2>1, <2>2
<1> QED
  BY <1>1, <1>2, <1>3 DEF AskForCaptcha

LEMMA CaptchaDecisionOutcomes ==
  ASSUME TypeOK, ctx.owner # "captcha", NEW o \in handle_captcha_decision
  PROVE  Captcha(o)
<1>1. CASE o \in OrFails(Done("empty"), apply_unenforceable_action)
  BY <1>1, EmptyAnswerOutcomes
<1>2. CASE o \in apply_unenforceable_action
  BY <1>2, UnenforceableOutcomes, SettledCaptcha
<1>3. CASE o \in Declined
  BY <1>3, ResultSettled, SettledCaptcha DEF Declined
<1>4. CASE o \in AskForCaptcha
  BY <1>4, AskForCaptchaOutcomes
<1> QED
  BY <1>1, <1>2, <1>3, <1>4 DEF handle_captcha_decision

-----------------------------------------------------------------------------
(* The invariant.                                                          *)

(* What a request waits for and what its slot holds belong together.  In   *)
(* ACCESS the handler finds either no context or the one of a verification *)
(* that failed open; the context of an inspection appears in PRECONTENT.   *)
Slot ==
  /\ decision \in seen
  /\ waits # "no" => phase \in {"access", "precontent"}
  /\ waits = "appsec" => ctx.owner = "appsec"
  /\ waits = "captcha" => ctx.owner = "captcha"
  /\ waits = "body" => ctx.owner # "none"
  /\ waits \in {"appsec", "captcha", "body"} => ctx.stored = "unset"
  /\ ctx.owner = "appsec" => phase # "access"
  /\ ctx.owner = "captcha" => ctx.stored \in {"unset", "declined"} /\ "captcha" \in seen
  /\ ctx.owner = "none" => ctx = NoContext
  /\ phase = "access" /\ waits = "no" => ctx = NoContext \/ ctx.stored = "declined"

(* An inspection that lets a request pass allowed it, or failed under a    *)
(* policy that passes it.                                                  *)
Passed(what) == what = "allowed" \/ (what = "failed" /\ failure_action = "passthrough")

StoredResult ==
  Enforceable =>
    /\ ctx.stored # "error"
    /\ ctx.owner = "appsec" /\ ctx.stored = "declined" => Passed(inspected)

BlockedCloses == Enforceable /\ inspected = "blocked" => phase = "closed"

(* A ban that is not carried out in ACCESS was left to AppSec, and an      *)
(* inspection remembers it.                                                *)
BanDeferred ==
  Guarded /\ Enforceable /\ seen = {"ban"} =>
    /\ answer \in {"none", "ban", "forbidden"}
    /\ phase # "origin"
    /\ phase = "precontent" => should_run_appsec
    /\ ctx.owner = "appsec" => ctx.shm_ban

PassedToOrigin ==
  Guarded /\ Enforceable /\ seen = {"none"} /\ conf.appsec /\ phase = "origin" =>
    Passed(inspected)

Processed ==
  /\ phase = "access" /\ waits = "no" /\ ctx = NoContext => processed = 0
  /\ processed <= 1 \/ (processed = 2 /\ phase # "access")
  /\ processed = 2 => ctx.owner = "captcha" /\ ctx.stored = "declined"

(* A request that has been counted is not counted again: it is over, its   *)
(* remediation was a captcha, AppSec failed to refuse it, or AppSec does   *)
(* not inspect it.                                                         *)
Dropped ==
  seen = {decision} /\ (req.challenge => Enforceable) =>
    /\ dropped <= 1
    /\ dropped = 1 =>
         \/ phase \in {"origin", "closed"}
         \/ ctx.owner = "captcha"
         \/ waits = "no" /\ ctx.owner = "appsec" /\ ctx.stored = "error"
         \/ /\ phase = "precontent" /\ waits = "no" /\ ctx.owner = "none"
            /\ ~should_run_appsec /\ ~req.challenge

IInv ==
  /\ TypeOK /\ Slot /\ StoredResult /\ BlockedCloses /\ BanDeferred /\ PassedToOrigin
  /\ Processed /\ Dropped

LEMMA InitIInv == Init => IInv
<1> SUFFICES ASSUME Init PROVE IInv
  OBVIOUS
<1>1. TypeOK
  BY DEF Init, TypeOK, NoContext, Context, Stored
<1>2. ctx.owner = "none" /\ ctx.stored = "unset"
  BY DEF Init, NoContext, Context
<1> QED
  BY <1>1, <1>2
  DEF Init, IInv, Slot, StoredResult, BlockedCloses, BanDeferred, PassedToOrigin, Processed,
      Dropped

-----------------------------------------------------------------------------
(* The handlers of the phases.                                             *)

LEMMA RemediationOutcomes ==
  ASSUME IInv, NEW o \in apply_lookup_remediation
  PROVE  /\ o \in Outcomes /\ o.inspected = inspected
         /\ o.ctx = ctx \/ (decision = "captcha" /\ o.ctx = CaptchaContext /\ ctx.owner # "captcha")
         /\ o.res = "pending" /\ ctx.owner # "captcha" => o.waits = "body" /\ o.ctx = CaptchaContext
         /\ o.res = "pending" /\ ctx.owner = "captcha" => ctx.stored = "unset"
         /\ o.res # "pending" => o.waits = "no"
         /\ decision = "none" => o.res = "declined" /\ o.dropped = 0 /\ o.answer = "none"
         /\ decision = "ban" => Ban(o)
         /\ ctx.owner = "captcha" /\ decision = "captcha" => o.dropped = 0
         /\ Enforceable /\ o.dropped = 1 /\ o.res \in {"declined", "error"} =>
              o.ctx = CaptchaContext
<1>0. TypeOK /\ Slot
  BY DEF IInv
<1>1. CASE decision = "none"
  <2>1. o = Result("declined")
    BY <1>1 DEF apply_lookup_remediation, Declined
  <2> QED BY <1>0, <1>1, <2>1, ResultSettled DEF Settled
<1>2. CASE decision = "ban"
  BY <1>0, <1>2, BanDecisionOutcomes DEF apply_lookup_remediation, Ban, Settled
<1>3. CASE decision = "captcha" /\ ctx.owner # "captcha"
  <2>1. Captcha(o)
    BY <1>0, <1>3, CaptchaDecisionOutcomes DEF apply_lookup_remediation
  <2>2. CaptchaContext.owner = "captcha" /\ CaptchaContext.stored = "unset"
    BY DEF CaptchaContext, Context
  <2> QED BY <1>3, <2>1, <2>2 DEF Captcha
<1>4. CASE decision = "captcha" /\ ctx.owner = "captcha"
  <2>1. o \in Resumed
    BY <1>4 DEF apply_lookup_remediation, handle_captcha_decision
  <2>2. CASE ctx.stored = "unset"
    <3>1. o \in Pending("nobody", ctx)
      BY <2>1, <2>2 DEF Resumed
    <3> QED BY <1>0, <1>4, <2>2, <3>1, PendingOutcomes, ContextTypes DEF Waits
  <2>3. CASE ctx.stored = "declined"
    <3>1. o = Result("declined")
      BY <2>1, <2>3 DEF Resumed
    <3> QED BY <1>0, <1>4, <3>1, ResultSettled DEF Settled
  <2> QED BY <1>0, <1>4, <2>2, <2>3 DEF Slot
<1>5. decision \in {"none", "ban", "captcha"}
  BY <1>0, DecisionAssumption DEF TypeOK
<1> QED
  BY <1>1, <1>2, <1>3, <1>4, <1>5

LEMMA ContextFields ==
  /\ CaptchaContext.owner = "captcha" /\ CaptchaContext.stored = "unset"
  /\ NoContext.owner = "none" /\ NoContext.stored = "unset"
BY DEF CaptchaContext, NoContext, Context

LEMMA AccessKeeps ==
  ASSUME IInv, handle_access
  PROVE  IInv'
<1> DEFINE deferred == ~conf.enabled \/ conf.bypass \/ should_run_appsec
<1>0. /\ TypeOK /\ Slot /\ phase = "access" /\ waits = "no"
      /\ UNCHANGED <<conf, req, decision, read, gone, seen, changes>>
  BY DEF IInv, handle_access, Runs
<1>1. PICK o \in IF deferred THEN Declined ELSE apply_lookup_remediation :
        /\ Outcome(o) /\ ctx' = o.ctx
        /\ o.res \in {"declined", "error"} => phase' = "precontent"
        /\ o.res \in {"forbidden", "done"} => phase' = "closed"
        /\ o.res = "pending" => phase' = "access"
  BY <1>0 DEF handle_access, Finish, Following
<1>2. ctx = NoContext \/ (ctx.owner = "captcha" /\ ctx.stored = "declined" /\ "captcha" \in seen)
  BY <1>0, ContextFields DEF Slot, TypeOK
<1>3. /\ o \in Outcomes /\ o.inspected = inspected
      /\ o.ctx = ctx \/ (~deferred /\ decision = "captcha" /\ o.ctx = CaptchaContext)
      /\ o.res = "pending" => o.waits = "body" /\ o.ctx = CaptchaContext /\ ctx = NoContext
      /\ o.res # "pending" => o.waits = "no"
      /\ deferred \/ decision = "none" => o.res = "declined" /\ o.dropped = 0 /\ o.answer = "none"
      /\ ~deferred /\ decision = "ban" => Ban(o)
      /\ ctx.owner = "captcha" => o.ctx = ctx
      /\ ctx.owner = "captcha" /\ decision = "captcha" => o.dropped = 0
      /\ Enforceable /\ o.dropped = 1 /\ o.res \in {"declined", "error"} =>
           o.ctx = CaptchaContext
  <2>1. CASE deferred
    <3>1. o = Result("declined")
      BY <1>1, <2>1 DEF Declined
    <3> QED BY <1>0, <2>1, <3>1, ResultSettled DEF Settled
  <2>2. CASE ~deferred
    <3>1. o \in apply_lookup_remediation
      BY <1>1, <2>2
    <3> QED BY <1>2, <2>2, <3>1, RemediationOutcomes, ContextFields
  <2> QED BY <2>1, <2>2
<1> HIDE DEF deferred
<1>4. /\ o.res \in {"declined", "error", "forbidden", "done", "pending"} /\ o.dropped \in {0, 1}
      /\ answer' = o.answer /\ dropped' = dropped + o.dropped /\ waits' = o.waits
      /\ ctx' = o.ctx /\ inspected' = o.inspected
      /\ processed' = processed + (IF conf.enabled THEN 1 ELSE 0)
  BY <1>1, <1>3 DEF Outcome, Outcomes, handle_access
<1>5. TypeOK'
  BY <1>0, <1>1, <1>3, <1>4 DEF TypeOK, Outcomes, Answers, Waits, Says, Contexts
<1>6. ctx'.owner # "appsec"
  BY <1>2, <1>3, <1>4, ContextFields
<1>7. Slot'
  BY <1>0, <1>1, <1>2, <1>3, <1>4, ContextFields DEF Slot
<1>8. StoredResult'
  BY <1>2, <1>3, <1>4, <1>6, ContextFields DEF StoredResult
<1>9. BlockedCloses'
  BY <1>0, <1>3, <1>4 DEF IInv, BlockedCloses, Enforceable
<1>10. BanDeferred'
  <2>1. CASE Guarded /\ Enforceable /\ seen = {"ban"}
    <3>1. decision = "ban"
      BY <1>0, <2>1 DEF Slot
    <3>2. CASE deferred
      <4>1. should_run_appsec
        BY <2>1, <3>2 DEF deferred, Guarded
      <4> QED
        BY <1>0, <1>1, <1>3, <1>4, <1>6, <2>1, <3>2, <4>1
        DEF BanDeferred, should_run_appsec
    <3>3. CASE ~deferred
      BY <1>0, <1>1, <1>3, <1>4, <1>6, <2>1, <3>1, <3>3 DEF BanDeferred, Ban, BanAnswer
    <3> QED BY <3>2, <3>3
  <2> QED BY <1>0, <2>1 DEF BanDeferred, Guarded, Enforceable
<1>11. PassedToOrigin'
  BY <1>1, <1>4 DEF PassedToOrigin
<1>12. Processed'
  BY <1>0, <1>1, <1>2, <1>3, <1>4, ContextFields DEF IInv, Processed, TypeOK
<1>13. Dropped'
  <2>1. CASE seen = {decision} /\ (req.challenge => Enforceable)
    <3>1. dropped <= 1 /\ (dropped = 1 => ctx.owner = "captcha" /\ decision = "captcha")
      BY <1>0, <1>2, <2>1, ContextFields DEF IInv, Dropped
    <3>2. dropped' <= 1
      BY <1>0, <1>3, <1>4, <3>1 DEF TypeOK
    <3>3. CASE dropped = 1
      BY <1>1, <1>3, <1>4, <3>1, <3>2, <3>3 DEF Dropped
    <3>4. CASE o.dropped = 1 /\ o.res \in {"declined", "error"}
      <4>1. ~deferred
        BY <1>3, <3>4
      <4>2. ~should_run_appsec
        BY <4>1 DEF deferred
      <4> QED
        BY <1>0, <1>1, <1>2, <1>3, <1>4, <2>1, <3>2, <3>4, <4>2, ContextFields
        DEF Dropped, should_run_appsec
    <3>5. CASE o.dropped = 1 /\ o.res \notin {"declined", "error"}
      BY <1>1, <1>3, <1>4, <3>2, <3>5, ContextFields DEF Dropped
    <3>6. CASE dropped = 0 /\ o.dropped = 0
      BY <1>4, <3>2, <3>6 DEF Dropped
    <3> QED BY <1>0, <1>4, <3>1, <3>3, <3>4, <3>5, <3>6 DEF TypeOK
  <2> QED BY <1>0, <2>1 DEF Dropped, Enforceable
<1> QED
  BY <1>5, <1>7, <1>8, <1>9, <1>10, <1>11, <1>12, <1>13 DEF IInv

(* An inspection in PRECONTENT: the first one, or the result of one.       *)
LEMMA PrecontentInspection ==
  ASSUME IInv, ctx.owner # "captcha", phase = "precontent", NEW d \in inspect
  PROVE  /\ d \in Outcomes /\ BanAnswer(d) /\ d.inspected \in {inspected, "failed"}
         /\ d.ctx = ctx \/ d.ctx.owner = "appsec"
         /\ d.ctx.owner = "appsec" => d.ctx.shm_ban = AppSecContext.shm_ban
         /\ d.res = "pending" =>
              /\ d.waits \in {"appsec", "body", "nobody"} /\ d.dropped = 0
              /\ d.ctx.owner = "appsec" /\ d.ctx.stored = "unset"
         /\ d.res # "pending" => d.waits = "no"
         /\ d.res = "declined" => d.dropped = 0
         /\ ctx.owner = "appsec" /\ ctx.stored = "error" => d.res = "error" /\ d.dropped = 0
         /\ Enforceable =>
              /\ d.res # "error" /\ d.ctx.stored # "error"
              /\ d.res = "declined" => Passed(d.inspected)
              /\ d.ctx.owner = "appsec" /\ d.ctx.stored = "declined" => Passed(d.inspected)
<1>0. TypeOK /\ Slot /\ StoredResult
  BY DEF IInv
<1>1. CASE ctx.owner = "appsec"
  <2>1. d \in Resumed /\ AppSecContext = ctx
    BY <1>1 DEF inspect, AppSecContext
  <2>2. CASE ctx.stored = "unset"
    <3>1. d \in Pending("nobody", ctx)
      BY <2>1, <2>2 DEF Resumed
    <3> QED
      BY <1>0, <1>1, <2>1, <2>2, <3>1, PendingOutcomes, ContextTypes
      DEF Waits, BanAnswer
  <2>3. CASE ctx.stored # "unset"
    <3>1. d = Result(ctx.stored) /\ ctx.stored \in {"declined", "forbidden", "error"}
      BY <1>0, <2>1, <2>3 DEF Resumed, TypeOK, Stored
    <3> QED
      BY <1>0, <1>1, <2>1, <3>1, ResultSettled DEF Settled, BanAnswer, StoredResult
  <2> QED BY <2>2, <2>3
<1>2. CASE ctx.owner # "appsec"
  <2>1. Inspection(d)
    BY <1>0, <1>2, InspectOutcomes
  <2>2. ctx.owner = "none" /\ ctx.stored = "unset"
    BY <1>0, <1>2, ContextFields DEF TypeOK, Slot
  <2> QED BY <1>2, <2>1, <2>2 DEF Inspection, Passed
<1> QED BY <1>1, <1>2

LEMMA RemediateOutcomes ==
  ASSUME NEW S \in SUBSET Outcomes, apply_lookup_remediation \in SUBSET Outcomes,
         NEW o \in ThenRemediate(S)
  PROVE  \/ o \in S /\ o.res # "declined"
         \/ \E d \in S, r \in apply_lookup_remediation :
              /\ d.res = "declined"
              /\ o \in Outcomes /\ o.res = r.res /\ o.answer = r.answer
              /\ o.dropped = r.dropped /\ o.waits = r.waits
              /\ o.ctx = IF r.ctx = ctx THEN d.ctx ELSE r.ctx
              /\ o.inspected = d.inspected
<1>1. CASE o \in S /\ o.res # "declined"
  BY <1>1
<1>2. CASE \E d \in S, r \in apply_lookup_remediation : d.res = "declined" /\ o = After(d, r)
  BY <1>2 DEF After, Outcomes
<1>3. \/ o \in S /\ o.res # "declined"
      \/ \E d \in S, r \in apply_lookup_remediation : d.res = "declined" /\ o = After(d, r)
  BY DEF ThenRemediate
<1> QED BY <1>1, <1>2, <1>3

LEMMA PrecontentOutcomes ==
  ASSUME IInv, ctx.owner # "captcha", phase = "precontent", NEW o \in ThenRemediate(inspect)
  PROVE  /\ o \in Outcomes /\ o.inspected \in {inspected, "failed"}
         /\ \/ o.ctx = ctx \/ o.ctx.owner = "appsec"
            \/ o.ctx = CaptchaContext /\ decision = "captcha"
         /\ o.ctx.owner = "appsec" => o.ctx.shm_ban = AppSecContext.shm_ban
         /\ o.res = "pending" =>
              /\ o.waits \in {"appsec", "body", "nobody"}
              /\ o.ctx.owner # "none" /\ o.ctx.stored = "unset"
              /\ o.waits = "appsec" => o.ctx.owner = "appsec"
              /\ o.dropped = 1 => o.ctx.owner = "captcha"
         /\ o.res # "pending" => o.waits = "no"
         /\ ctx.owner = "appsec" /\ ctx.stored = "error" => o.res = "error" /\ o.dropped = 0
         /\ Enforceable =>
              /\ o.ctx.stored # "error"
              /\ o.ctx.owner = "appsec" /\ o.ctx.stored = "declined" => Passed(o.inspected)
              /\ decision = "none" /\ o.res \in {"declined", "error"} => Passed(o.inspected)
              /\ decision = "ban" => o.res \in {"done", "forbidden", "pending"} /\ BanAnswer(o)
<1>1. inspect \in SUBSET Outcomes /\ apply_lookup_remediation \in SUBSET Outcomes
  BY PrecontentInspection, RemediationOutcomes
<1>2. CASE o \in inspect /\ o.res # "declined"
  <2>1. ctx.owner = "none" => ctx = NoContext
    BY DEF IInv, Slot
  <2>2. o.res \in {"forbidden", "error", "done", "pending"}
    BY <1>1, <1>2 DEF Outcomes
  <2> QED BY <1>2, <2>2, PrecontentInspection
<1>3. ASSUME NEW d \in inspect, NEW r \in apply_lookup_remediation,
             d.res = "declined",
             o \in Outcomes, o.res = r.res, o.answer = r.answer,
             o.dropped = r.dropped, o.waits = r.waits,
             o.ctx = IF r.ctx = ctx THEN d.ctx ELSE r.ctx,
             o.inspected = d.inspected
      PROVE  /\ o.inspected \in {inspected, "failed"}
             /\ \/ o.ctx = d.ctx
                \/ o.ctx = CaptchaContext /\ decision = "captcha"
             /\ o.res = "pending" => o.waits = "body" /\ o.ctx = CaptchaContext
             /\ o.res # "pending" => o.waits = "no"
             /\ ~(ctx.owner = "appsec" /\ ctx.stored = "error")
             /\ Enforceable => Passed(o.inspected)
             /\ Enforceable /\ decision = "ban" => o.res \in {"done", "forbidden"} /\ BanAnswer(o)
  <2>1. d.ctx.owner # "captcha"
    BY <1>3, PrecontentInspection
  <2>2. r.res = "pending" => r.ctx = CaptchaContext /\ r.ctx # ctx
    BY RemediationOutcomes, ContextFields
  <2>3. decision = "ban" => Ban(r)
    BY RemediationOutcomes
  <2>4. Enforceable /\ decision = "ban" => o.res \in {"done", "forbidden"} /\ BanAnswer(o)
    BY <1>3, <2>3 DEF Ban, BanAnswer
  <2> QED BY <1>3, <2>2, <2>4, RemediationOutcomes, PrecontentInspection
<1>4. CASE ~(o \in inspect /\ o.res # "declined")
  <2>1. PICK d \in inspect, r \in apply_lookup_remediation :
          /\ d.res = "declined"
          /\ o \in Outcomes /\ o.res = r.res /\ o.answer = r.answer
          /\ o.dropped = r.dropped /\ o.waits = r.waits
          /\ o.ctx = IF r.ctx = ctx THEN d.ctx ELSE r.ctx
          /\ o.inspected = d.inspected
    BY <1>1, <1>4, RemediateOutcomes
  <2>2. /\ o.inspected \in {inspected, "failed"}
        /\ \/ o.ctx = d.ctx
           \/ o.ctx = CaptchaContext /\ decision = "captcha"
        /\ o.res = "pending" => o.waits = "body" /\ o.ctx = CaptchaContext
        /\ o.res # "pending" => o.waits = "no"
        /\ ~(ctx.owner = "appsec" /\ ctx.stored = "error")
        /\ Enforceable => Passed(o.inspected)
        /\ Enforceable /\ decision = "ban" => o.res \in {"done", "forbidden"} /\ BanAnswer(o)
    BY <1>3, <2>1
  <2> QED BY <2>1, <2>2, PrecontentInspection, ContextFields
<1> QED BY <1>2, <1>4

LEMMA PrecontentKeeps ==
  ASSUME IInv, handle_precontent
  PROVE  IInv'
<1> DEFINE skipped == conf.bypass \/ (~should_run_appsec /\ ~req.challenge)
           outcomes ==
             CASE ~conf.enabled -> Declined
               [] conf.enabled /\ ctx.owner = "captcha" -> Resumed
               [] OTHER -> IF skipped THEN Declined ELSE ThenRemediate(inspect)
<1>0. /\ TypeOK /\ Slot /\ phase = "precontent" /\ waits = "no"
      /\ UNCHANGED <<conf, req, decision, read, gone, processed, seen, changes>>
  BY DEF IInv, handle_precontent, Runs
<1>1. PICK o \in outcomes :
        /\ Outcome(o) /\ ctx' = o.ctx
        /\ o.res \in {"declined", "error"} => phase' = "origin"
        /\ o.res \in {"forbidden", "done"} => phase' = "closed"
        /\ o.res = "pending" => phase' = "precontent"
  BY <1>0 DEF handle_precontent, Finish, Following
(* Without an inspection the request passes, or waits for ever.            *)
<1>2. CASE ~conf.enabled \/ ctx.owner = "captcha" \/ skipped
  <2>1. /\ o \in Outcomes /\ o.dropped = 0 /\ o.answer = "none" /\ o.inspected = inspected
        /\ o.ctx = ctx
        /\ \/ o.res = "declined" /\ o.waits = "no"
           \/ /\ o.res = "pending" /\ o.waits = "nobody"
              /\ ctx.owner = "captcha" /\ ctx.stored = "unset"
    <3>1. CASE o \in Declined
      BY <1>0, <3>1, ResultSettled DEF Settled, Declined
    <3>2. CASE ctx.owner = "captcha" /\ ctx.stored = "unset" /\ o \in Resumed
      <4>1. o \in Pending("nobody", ctx)
        BY <3>2 DEF Resumed
      <4> QED BY <1>0, <3>2, <4>1, PendingOutcomes, ContextTypes DEF Waits
    <3>3. CASE ctx.owner = "captcha" /\ ctx.stored = "declined" /\ o \in Resumed
      <4>1. o = Result("declined")
        BY <3>3 DEF Resumed
      <4> QED BY <1>0, <4>1, ResultSettled DEF Settled
    <3> QED BY <1>0, <1>1, <1>2, <3>1, <3>2, <3>3 DEF Slot
  <2>2. /\ answer' = "none" /\ dropped' = dropped /\ ctx' = ctx /\ inspected' = inspected
        /\ \/ waits' = "no" /\ phase' = "origin"
           \/ waits' = "nobody" /\ phase' = "precontent" /\ ctx.owner = "captcha"
    BY <1>0, <1>1, <2>1 DEF Outcome, TypeOK
  <2>3. TypeOK' /\ Slot'
    BY <1>0, <2>2 DEF TypeOK, Slot
  <2>4. StoredResult' /\ BlockedCloses'
    BY <1>0, <2>2
    DEF IInv, StoredResult, BlockedCloses, Enforceable, Passed, failure_action
  <2>5. BanDeferred'
    <3>1. ~(Guarded /\ Enforceable /\ seen = {"ban"})
      BY <1>0, <1>2 DEF IInv, Guarded, BanDeferred, Slot
    <3> QED BY <1>0, <3>1 DEF BanDeferred, Guarded, Enforceable
  <2>6. PassedToOrigin'
    <3>1. ~(Guarded /\ seen = {"none"} /\ conf.appsec)
      BY <1>0, <1>2 DEF Guarded, Slot, should_run_appsec
    <3> QED BY <1>0, <3>1 DEF PassedToOrigin, Guarded
  <2>7. Processed' /\ Dropped'
    BY <1>0, <2>2 DEF IInv, Processed, Dropped, Enforceable
  <2> QED BY <2>3, <2>4, <2>5, <2>6, <2>7 DEF IInv
<1>3. CASE ~(~conf.enabled \/ ctx.owner = "captcha" \/ skipped)
  <2>0. o \in ThenRemediate(inspect)
    BY <1>1, <1>3
  <2> HIDE DEF outcomes, skipped
  <2>1. /\ o \in Outcomes /\ o.inspected \in {inspected, "failed"}
        /\ \/ o.ctx = ctx \/ o.ctx.owner = "appsec"
           \/ o.ctx = CaptchaContext /\ decision = "captcha"
        /\ o.ctx.owner = "appsec" => o.ctx.shm_ban = AppSecContext.shm_ban
        /\ o.res = "pending" =>
             /\ o.waits \in {"appsec", "body", "nobody"}
             /\ o.ctx.owner # "none" /\ o.ctx.stored = "unset"
             /\ o.waits = "appsec" => o.ctx.owner = "appsec"
             /\ o.dropped = 1 => o.ctx.owner = "captcha"
        /\ o.res # "pending" => o.waits = "no"
        /\ ctx.owner = "appsec" /\ ctx.stored = "error" => o.res = "error" /\ o.dropped = 0
        /\ Enforceable =>
             /\ o.ctx.stored # "error"
             /\ o.ctx.owner = "appsec" /\ o.ctx.stored = "declined" => Passed(o.inspected)
             /\ decision = "none" /\ o.res \in {"declined", "error"} => Passed(o.inspected)
             /\ decision = "ban" => o.res \in {"done", "forbidden", "pending"} /\ BanAnswer(o)
    BY <1>0, <1>3, <2>0, PrecontentOutcomes
  <2>2. /\ o.res \in {"declined", "error", "forbidden", "done", "pending"} /\ o.dropped \in {0, 1}
        /\ answer' = o.answer /\ dropped' = dropped + o.dropped /\ waits' = o.waits
        /\ ctx' = o.ctx /\ inspected' = o.inspected
    BY <1>1, <2>1 DEF Outcome, Outcomes
  <2>3. TypeOK'
    BY <1>0, <1>1, <2>1, <2>2 DEF TypeOK, Outcomes, Answers, Waits, Says, Contexts
  <2>4. Slot'
    BY <1>0, <1>1, <1>3, <2>1, <2>2, ContextFields DEF Slot
  <2>5. StoredResult'
    BY <1>0, <2>1, <2>2 DEF StoredResult, Passed, Enforceable, failure_action
  <2>6. BlockedCloses'
    BY <1>0, <2>1, <2>2 DEF IInv, BlockedCloses, Enforceable
  <2>7. BanDeferred'
    <3>1. CASE Guarded /\ Enforceable /\ seen = {"ban"}
      <4>1. decision = "ban" /\ should_run_appsec /\ (ctx.owner = "appsec" => ctx.shm_ban)
        BY <1>0, <3>1 DEF IInv, BanDeferred, Slot
      <4>2. AppSecContext.shm_ban
        BY <4>1 DEF AppSecContext, Context
      <4>3. phase' \in {"closed", "precontent"} /\ answer' \in {"none", "ban", "forbidden"}
        BY <1>1, <2>1, <2>2, <3>1, <4>1 DEF BanAnswer
      <4>4. ctx'.owner = "appsec" => ctx'.shm_ban
        BY <2>1, <2>2, <4>2
      <4>5. should_run_appsec'
        BY <1>0, <4>1 DEF should_run_appsec
      <4> QED BY <4>3, <4>4, <4>5 DEF BanDeferred
    <3> QED BY <1>0, <3>1 DEF BanDeferred, Guarded, Enforceable
  <2>8. PassedToOrigin'
    <3>1. CASE Guarded /\ Enforceable /\ seen = {"none"} /\ phase' = "origin"
      <4>1. decision = "none" /\ o.res \in {"declined", "error"}
        BY <1>0, <1>1, <2>2, <3>1 DEF Slot
      <4>2. Passed(o.inspected)
        BY <2>1, <3>1, <4>1
      <4> QED BY <1>0, <2>2, <4>2 DEF PassedToOrigin, Passed, failure_action
    <3> QED BY <1>0, <3>1 DEF PassedToOrigin, Guarded, Enforceable
  <2>9. Processed'
    BY <1>0, <1>1, <1>3, <2>2 DEF IInv, Processed
  <2>10. Dropped'
    <3>1. CASE seen = {decision} /\ (req.challenge => Enforceable)
      <4>1. /\ dropped <= 1
            /\ dropped = 1 => ctx.owner = "appsec" /\ ctx.stored = "error"
        BY <1>0, <1>3, <3>1 DEF IInv, Dropped, skipped
      <4>2. CASE dropped = 1
        BY <1>1, <2>1, <2>2, <4>1, <4>2 DEF Dropped
      <4>3. CASE dropped = 0
        BY <1>1, <2>1, <2>2, <4>3 DEF Dropped
      <4> QED BY <1>0, <4>1, <4>2, <4>3 DEF TypeOK
    <3> QED BY <1>0, <3>1 DEF Dropped, Enforceable
  <2> QED BY <2>3, <2>4, <2>5, <2>6, <2>7, <2>8, <2>9, <2>10 DEF IInv
<1> QED BY <1>2, <1>3

-----------------------------------------------------------------------------
(* The callbacks of AppSec.                                                *)

LEMMA VerdictOutcomes ==
  ASSUME TypeOK, NEW v, NEW o \in apply_appsec_response(v)
  PROVE  /\ Settled(o)
         /\ o.res = "declined" => o.dropped = 0
         /\ ctx.shm_ban => BanAnswer(o)
         /\ Enforceable =>
              /\ o.res # "error"
              /\ o.inspected = "blocked" => o.res \in {"done", "forbidden"}
              /\ o.res = "declined" => Passed(o.inspected)
<1>1. CASE o \in Said(Declined, "allowed")
  <2>1. Declined \in SUBSET Outcomes
    BY ResultSettled DEF Declined, Settled
  <2> QED
    BY <1>1, <2>1, SaidOutcomes, ResultSettled
    DEF Declined, Says, Settled, BanAnswer, Passed
<1>2. CASE o \in fail_closed(failure_action)
  BY <1>2, FailClosedOutcomes, FailureActions DEF Settled, Passed
<1>3. CASE o \in Said(handle_ban_decision, "blocked")
  <2>1. handle_ban_decision \in SUBSET Outcomes
    BY BanDecisionOutcomes DEF Ban, Settled
  <2>2. PICK p \in handle_ban_decision :
          /\ o \in Outcomes /\ o.inspected = "blocked"
          /\ o.res = p.res /\ o.answer = p.answer /\ o.waits = p.waits
          /\ o.dropped = p.dropped /\ o.ctx = p.ctx
    BY <1>3, <2>1, SaidOutcomes DEF Says
  <2>3. Ban(p)
    BY BanDecisionOutcomes
  <2>4. o.dropped \in {0, 1}
    BY <2>2 DEF Outcomes
  <2> QED BY <2>2, <2>3, <2>4 DEF Ban, Settled, BanAnswer
<1>4. ASSUME NEW S, S = Forbidden \/ (S = OrFails(Done("challenge"), Forbidden) /\ ~ctx.shm_ban),
             o \in Said(Counted(S), "blocked")
      PROVE  /\ Settled(o) /\ o.res \in {"done", "forbidden"} /\ o.inspected = "blocked"
             /\ ctx.shm_ban => BanAnswer(o)
  <2>1. \A p \in S : /\ Settled(p) /\ p.res \in {"done", "forbidden"} /\ p.dropped = 0
                     /\ ctx.shm_ban => BanAnswer(p)
    BY <1>4, ForbiddenSettled, DoneSettled DEF OrFails, Answers, BanAnswer
  <2>2. S \in SUBSET Outcomes /\ \A p \in S : p.dropped = 0
    BY <2>1 DEF Settled
  <2>3. \A q \in Counted(S) : /\ Settled(q) /\ q.res \in {"done", "forbidden"}
                              /\ ctx.shm_ban => BanAnswer(q)
    BY <2>1, <2>2, CountedOutcomes DEF Settled, BanAnswer
  <2>4. Counted(S) \in SUBSET Outcomes
    BY <2>3 DEF Settled
  <2> QED BY <1>4, <2>3, <2>4, SaidOutcomes DEF Says, Settled, BanAnswer
<1>5. CASE \/ o \in Said(Counted(Forbidden), "blocked")
           \/ ~ctx.shm_ban /\ o \in Said(Counted(OrFails(Done("challenge"), Forbidden)), "blocked")
  BY <1>4, <1>5
<1> QED
  BY <1>1, <1>2, <1>3, <1>5 DEF apply_appsec_response

(* What a callback of AppSec may leave: the answer of the inspection, to   *)
(* be stored in the context of the request or sent already.                *)
FromAppSec(o) ==
  /\ o \in Outcomes
  /\ o.ctx.owner = "appsec" /\ (ctx.shm_ban => o.ctx.shm_ban /\ BanAnswer(o))
  /\ o.ctx.stored \in {"unset", o.res}
  /\ o.res = "pending" => o.waits \in {"appsec", "body"} /\ o.ctx.stored = "unset"
  /\ o.res \in {"pending", "declined"} => o.dropped = 0
  /\ o.res # "pending" => o.waits = "no"
  /\ Enforceable =>
       /\ o.res # "error"
       /\ o.inspected = "blocked" => o.res \in {"done", "forbidden"}
       /\ o.res = "declined" => Passed(o.inspected)

LEMMA StoreResult ==
  ASSUME NEW o, FromAppSec(o)
  PROVE  /\ store_result(o) \in Contexts
         /\ store_result(o).owner = "appsec" /\ (ctx.shm_ban => store_result(o).shm_ban)
         /\ o.res \in {"done", "pending"} => store_result(o) = o.ctx
         /\ o.res \notin {"done", "pending"} => store_result(o).stored = o.res
<1>1. CASE o.res \in {"done", "pending"}
  BY <1>1 DEF store_result, FromAppSec, Outcomes
<1>2. CASE o.res \notin {"done", "pending"}
  BY <1>2 DEF store_result, FromAppSec, Outcomes, Contexts, Stored
<1> QED BY <1>1, <1>2

LEMMA FinishAppSecKeeps ==
  ASSUME IInv, phase # "access", waits # "no", ctx.owner = "appsec", ctx.stored = "unset",
         NEW S, \A o \in S : FromAppSec(o), FinishAppSec(S),
         UNCHANGED <<conf, req, decision, gone, processed, seen, changes>>,
         read' \in {"no", "usable", "unusable"}
  PROVE  IInv'
<1>0. TypeOK /\ Slot /\ phase = "precontent"
  BY DEF IInv, Slot
<1>1. PICK o \in S :
        /\ Outcome(o) /\ ctx' = store_result(o)
        /\ phase' = IF o.res \in {"forbidden", "done"} THEN "closed" ELSE phase
  BY DEF FinishAppSec
<1>2. FromAppSec(o)
  OBVIOUS
<1>3. /\ o.res \in {"declined", "error", "forbidden", "done", "pending"} /\ o.dropped \in {0, 1}
      /\ answer' = o.answer /\ dropped' = dropped + o.dropped /\ waits' = o.waits
      /\ inspected' = o.inspected
  BY <1>1, <1>2 DEF Outcome, FromAppSec, Outcomes
<1>4. /\ ctx' \in Contexts /\ ctx'.owner = "appsec" /\ (ctx.shm_ban => ctx'.shm_ban)
      /\ o.res \in {"done", "pending"} => ctx' = o.ctx
      /\ o.res \notin {"done", "pending"} => ctx'.stored = o.res
  BY <1>1, <1>2, StoreResult
<1>5. TypeOK'
  BY <1>0, <1>1, <1>2, <1>3, <1>4 DEF TypeOK, FromAppSec, Outcomes, Answers, Waits, Says, Contexts
<1>6. Slot'
  BY <1>0, <1>1, <1>2, <1>3, <1>4 DEF Slot, FromAppSec
<1>7. StoredResult'
  <2>1. CASE Enforceable
    <3>1. ctx'.stored # "error" /\ (ctx'.stored = "declined" => o.res = "declined")
      BY <1>2, <1>3, <1>4, <2>1 DEF FromAppSec
    <3>2. o.res = "declined" => Passed(inspected')
      BY <1>2, <1>3, <2>1 DEF FromAppSec
    <3> QED BY <3>1, <3>2 DEF StoredResult, Passed, failure_action
  <2> QED BY <2>1 DEF StoredResult, Enforceable
<1>8. BlockedCloses'
  BY <1>1, <1>2, <1>3 DEF BlockedCloses, FromAppSec, Enforceable
<1>9. BanDeferred'
  <2>1. CASE Guarded /\ Enforceable /\ seen = {"ban"}
    <3>1. ctx.shm_ban /\ should_run_appsec
      BY <1>0, <2>1 DEF IInv, BanDeferred
    <3>2. answer' \in {"none", "ban", "forbidden"}
      BY <1>2, <1>3, <3>1 DEF FromAppSec, BanAnswer
    <3> QED BY <1>0, <1>1, <1>4, <3>1, <3>2 DEF BanDeferred, should_run_appsec
  <2> QED BY <2>1 DEF BanDeferred, Guarded, Enforceable
<1>10. PassedToOrigin'
  BY <1>0, <1>1 DEF PassedToOrigin
<1>11. Processed'
  BY <1>0, <1>1 DEF IInv, Processed, TypeOK
<1>12. Dropped'
  <2>1. CASE seen = {decision} /\ (req.challenge => Enforceable)
    <3>1. dropped = 0
      BY <1>0, <2>1 DEF IInv, Dropped, TypeOK
    <3> QED BY <1>1, <1>2, <1>3, <1>4, <3>1 DEF Dropped, FromAppSec
  <2> QED BY <2>1 DEF Dropped, Enforceable
<1> QED
  BY <1>5, <1>6, <1>7, <1>8, <1>9, <1>10, <1>11, <1>12 DEF IInv

LEMMA BodyIsRead ==
  ASSUME TypeOK, BodyRead
  PROVE  read' \in {"no", "usable", "unusable"}
BY DEF TypeOK, BodyRead

LEMMA AppSecBodyKeeps ==
  ASSUME IInv, appsec_body_handler
  PROVE  IInv'
<1> DEFINE S == IF read' = "usable" THEN inspect_with_body
                ELSE inspect_or_drop_unforwardable_body
<1>1. /\ TypeOK /\ Slot /\ waits = "body" /\ ctx.owner = "appsec" /\ ctx.stored = "unset"
      /\ BodyRead /\ FinishAppSec(S)
      /\ UNCHANGED <<conf, req, decision, gone, processed, seen, changes>>
  BY DEF IInv, Slot, appsec_body_handler
<1>2. phase = "precontent" /\ NoResult
  BY <1>1 DEF Slot, NoResult
<1>3. Enforceable => inspected # "blocked"
  BY <1>2 DEF IInv, BlockedCloses
<1>4. ASSUME NEW o \in S PROVE FromAppSec(o)
  <2>1. Inspection(o)
    BY <1>1, <1>2, <1>4, InspectWithBodyOutcomes, DropOutcomes
  <2> QED
    BY <1>1, <1>2, <1>3, <2>1, AppSecContextFacts DEF Inspection, FromAppSec, Passed
<1> HIDE DEF S
<1> QED
  BY <1>1, <1>2, <1>4, BodyIsRead, FinishAppSecKeeps

LEMMA AppSecDoneKeeps ==
  ASSUME IInv, AppSecDone
  PROVE  IInv'
<1>1. PICK v \in Verdict : FinishAppSec(apply_appsec_response(v))
  BY DEF AppSecDone
<1>2. /\ TypeOK /\ Slot /\ waits = "appsec" /\ ctx.owner = "appsec" /\ ctx.stored = "unset"
      /\ UNCHANGED <<conf, req, decision, read, gone, processed, seen, changes>>
  BY DEF IInv, Slot, AppSecDone
<1>3. phase = "precontent" /\ read' \in {"no", "usable", "unusable"}
  BY <1>2 DEF Slot, TypeOK
<1>4. ASSUME NEW o \in apply_appsec_response(v) PROVE FromAppSec(o)
  BY <1>2, <1>4, VerdictOutcomes DEF Settled, FromAppSec
<1> QED
  BY <1>1, <1>2, <1>3, <1>4, FinishAppSecKeeps

-----------------------------------------------------------------------------
(* The callbacks of a captcha.                                             *)

(* An answer is sent, the verification is posted, or it failed open.       *)
FromCaptcha(o) ==
  /\ o \in Outcomes /\ o.ctx = ctx /\ o.dropped = 0 /\ o.inspected = inspected
  /\ \/ o.res = "done" /\ o.waits = "no"
     \/ o.res = "declined" /\ o.waits = "no"
     \/ o.res = "pending" /\ o.waits = "captcha"

LEMMA FinishCaptchaKeeps ==
  ASSUME IInv, waits # "no", ctx.owner = "captcha", ctx.stored = "unset",
         NEW S, \A o \in S : FromCaptcha(o), FinishCaptcha(S),
         UNCHANGED <<conf, req, decision, gone, processed, seen, changes>>,
         read' \in {"no", "usable", "unusable"}
  PROVE  IInv'
<1>0. TypeOK /\ Slot /\ phase \in {"access", "precontent"} /\ "captcha" \in seen
  BY DEF IInv, Slot
<1>1. PICK o \in S :
        /\ Outcome(IF o.res = "error" THEN [o EXCEPT !.answer = "forbidden"] ELSE o)
        /\ ctx' = store_result(o)
        /\ phase' = IF o.res \in {"declined", "pending"} THEN phase ELSE "closed"
  BY DEF FinishCaptcha
<1>2. FromCaptcha(o)
  OBVIOUS
<1>3. Outcome(o)
  BY <1>1, <1>2 DEF FromCaptcha
<1>4. /\ answer' = o.answer /\ answer' \in Answers /\ dropped' = dropped
      /\ waits' = o.waits /\ inspected' = inspected
  BY <1>0, <1>2, <1>3 DEF Outcome, FromCaptcha, Outcomes, TypeOK
<1>5. /\ ctx' \in Contexts /\ ctx'.owner = "captcha"
      /\ o.res \in {"done", "pending"} => ctx' = ctx
      /\ o.res = "declined" => ctx'.stored = "declined"
  BY <1>0, <1>1, <1>2 DEF store_result, FromCaptcha, Outcomes, Contexts, TypeOK, Stored
<1>6. TypeOK'
  BY <1>0, <1>1, <1>2, <1>4, <1>5
  DEF TypeOK, FromCaptcha, Outcomes, Answers, Waits, Says, Contexts
<1>7. Slot'
  BY <1>0, <1>1, <1>2, <1>4, <1>5 DEF Slot, FromCaptcha
<1>8. StoredResult' /\ BlockedCloses' /\ PassedToOrigin'
  BY <1>0, <1>1, <1>2, <1>4, <1>5, <1>7
  DEF IInv, StoredResult, BlockedCloses, PassedToOrigin, Slot, Enforceable
<1>9. BanDeferred' /\ Processed'
  BY <1>0, <1>1, <1>2, <1>4, <1>5
  DEF IInv, BanDeferred, Processed, FromCaptcha, TypeOK, NoContext, Context
<1>10. Dropped'
  BY <1>4, <1>5 DEF IInv, Dropped, Enforceable
<1> QED
  BY <1>6, <1>7, <1>8, <1>9, <1>10 DEF IInv

LEMMA CaptchaBodyKeeps ==
  ASSUME IInv, captcha_body_handler
  PROVE  IInv'
<1> DEFINE S == send_captcha_error_page \union
                IF read' = "usable" THEN Pending("captcha", ctx) ELSE {}
<1>1. /\ TypeOK /\ waits = "body" /\ ctx.owner = "captcha" /\ ctx.stored = "unset"
      /\ BodyRead /\ FinishCaptcha(S)
      /\ UNCHANGED <<conf, req, decision, gone, processed, seen, changes>>
  BY DEF IInv, Slot, captcha_body_handler
<1>2. ASSUME NEW o \in S PROVE FromCaptcha(o)
  <2>1. CASE o \in Done("captcha")
    BY <1>1, <2>1, DoneSettled DEF Answers, Settled, FromCaptcha
  <2>2. CASE o \in Pending("captcha", ctx)
    BY <1>1, <2>2, PendingOutcomes, ContextTypes DEF Waits, FromCaptcha
  <2> QED BY <1>2, <2>1, <2>2 DEF send_captcha_error_page
<1> HIDE DEF S
<1> QED
  BY <1>1, <1>2, BodyIsRead, FinishCaptchaKeeps

LEMMA CaptchaDoneKeeps ==
  ASSUME IInv, CaptchaDone
  PROVE  IInv'
<1>1. PICK v \in VerifyResult : FinishCaptcha(complete_verification(v))
  BY DEF CaptchaDone
<1>2. /\ TypeOK /\ waits = "captcha" /\ ctx.owner = "captcha" /\ ctx.stored = "unset"
      /\ UNCHANGED <<conf, req, decision, read, gone, processed, seen, changes>>
  BY DEF IInv, Slot, CaptchaDone
<1>3. ASSUME NEW o \in complete_verification(v) PROVE FromCaptcha(o)
  <2>1. CASE o \in Done("captcha") \/ o \in Done("redirect")
    BY <1>2, <2>1, DoneSettled DEF Answers, Settled, FromCaptcha
  <2>2. CASE o \in Declined
    BY <1>2, <2>2, ResultSettled DEF Declined, Settled, FromCaptcha
  <2> QED BY <1>3, <2>1, <2>2 DEF complete_verification, send_captcha_error_page
<1> QED
  BY <1>1, <1>2, <1>3, FinishCaptchaKeeps DEF TypeOK

-----------------------------------------------------------------------------
(* The poller and the client.                                              *)

(* A request the module has closed keeps everything but what it waits for. *)
Closes ==
  /\ phase' = "closed" /\ waits' = "no"
  /\ UNCHANGED <<conf, req, decision, ctx, read, answer, processed, dropped, seen,
                 inspected, changes>>

LEMMA ClosesKeeps ==
  ASSUME IInv, Closes, gone' \in BOOLEAN
  PROVE  IInv'
<1>1. TypeOK' /\ Slot' /\ StoredResult' /\ BlockedCloses'
  BY DEF IInv, Closes, TypeOK, Slot, StoredResult, BlockedCloses, Enforceable, Passed,
         failure_action
<1>2. BanDeferred' /\ PassedToOrigin'
  BY DEF IInv, Closes, BanDeferred, PassedToOrigin, Guarded, Enforceable
<1>3. Processed' /\ Dropped'
  BY DEF IInv, Closes, Processed, Dropped, Enforceable
<1> QED BY <1>1, <1>2, <1>3 DEF IInv

LEMMA DecideKeeps ==
  ASSUME IInv, Decide
  PROVE  IInv'
<1>1. /\ TypeOK /\ Slot /\ decision' \in Decisions /\ decision' # decision
      /\ seen' = seen \union {decision'} /\ decision \in seen /\ changes' = changes + 1
      /\ UNCHANGED <<conf, req, phase, waits, ctx, read, gone, answer, processed, dropped,
                     inspected>>
  BY DEF IInv, Slot, Decide
<1>2. TypeOK' /\ Slot'
  BY <1>1 DEF TypeOK, Slot
<1>3. StoredResult' /\ BlockedCloses' /\ Processed'
  BY <1>1
  DEF IInv, StoredResult, BlockedCloses, Processed, Enforceable, Passed, failure_action
(* Two decisions have been seen now.                                       *)
<1>4. \A d : seen' # {d}
  BY <1>1
<1>5. BanDeferred' /\ PassedToOrigin' /\ Dropped'
  BY <1>4 DEF BanDeferred, PassedToOrigin, Dropped
<1> QED BY <1>2, <1>3, <1>5 DEF IInv

LEMMA DisconnectKeeps ==
  ASSUME IInv, Disconnect
  PROVE  IInv'
<1>1. CASE waits \in Tasks
  <2>1. UNCHANGED <<conf, req, decision, phase, waits, ctx, read, answer, processed, dropped,
                    seen, inspected, changes>> /\ gone' = TRUE
    BY <1>1 DEF Disconnect, Blocked
  <2>2. TypeOK' /\ Slot' /\ StoredResult' /\ BlockedCloses'
    BY <2>1 DEF IInv, TypeOK, Slot, StoredResult, BlockedCloses, Enforceable, Passed,
                failure_action
  <2>3. BanDeferred' /\ PassedToOrigin'
    BY <2>1 DEF IInv, BanDeferred, PassedToOrigin, Guarded, Enforceable, Passed,
                failure_action, should_run_appsec
  <2>4. Processed' /\ Dropped'
    BY <2>1 DEF IInv, Processed, Dropped, Enforceable, should_run_appsec
  <2> QED BY <2>2, <2>3, <2>4 DEF IInv
<1>2. CASE waits \notin Tasks
  BY <1>2, ClosesKeeps DEF Disconnect, Blocked, Closes
<1> QED BY <1>1, <1>2

LEMMA StutterKeeps ==
  ASSUME IInv, UNCHANGED vars
  PROVE  IInv'
<1>1. TypeOK' /\ Slot' /\ StoredResult' /\ BlockedCloses'
  BY DEF vars, IInv, TypeOK, Slot, StoredResult, BlockedCloses, Enforceable, Passed,
         failure_action
<1>2. BanDeferred' /\ PassedToOrigin'
  BY DEF vars, IInv, BanDeferred, PassedToOrigin, Guarded, Enforceable, Passed,
         failure_action, should_run_appsec
<1>3. Processed' /\ Dropped'
  BY DEF vars, IInv, Processed, Dropped, Enforceable, should_run_appsec
<1> QED BY <1>1, <1>2, <1>3 DEF IInv

LEMMA NextIInv == IInv /\ [Next]_vars => IInv'
<1> SUFFICES ASSUME IInv, [Next]_vars PROVE IInv'
  OBVIOUS
<1>1. CASE handle_access
  BY <1>1, AccessKeeps
<1>2. CASE handle_precontent
  BY <1>2, PrecontentKeeps
<1>3. CASE appsec_body_handler
  BY <1>3, AppSecBodyKeeps
<1>4. CASE captcha_body_handler
  BY <1>4, CaptchaBodyKeeps
<1>5. CASE AppSecDone
  BY <1>5, AppSecDoneKeeps
<1>6. CASE CaptchaDone
  BY <1>6, CaptchaDoneKeeps
<1>7. CASE TaskDoneGone
  BY <1>7, ClosesKeeps DEF TaskDoneGone, Closes, IInv, TypeOK
<1>8. CASE Decide
  BY <1>8, DecideKeeps
<1>9. CASE Disconnect
  BY <1>9, DisconnectKeeps
<1>10. CASE UNCHANGED vars
  BY <1>10, StutterKeeps
<1> QED
  BY <1>1, <1>2, <1>3, <1>4, <1>5, <1>6, <1>7, <1>8, <1>9, <1>10 DEF Next, ModuleStep, Over

-----------------------------------------------------------------------------
(* The request, its slot, its counts and what AppSec said stay consistent  *)
(* in every step; the theorems below follow.                               *)
THEOREM Invariance == Spec => []IInv
BY InitIInv, NextIInv, PTL DEF Spec

(* Every step of the handlers, callbacks, poller and client keeps the      *)
(* request, its context slot and its counts within their types.            *)
THEOREM TypeCorrect == Spec => []TypeOK
BY Invariance, PTL DEF IInv

(* The completion of a task on the thread pool (thread_task.rs) finds its  *)
(* request: Disconnect does not close it while a task is blocked on it.    *)
THEOREM TaskFindsRequest == Spec => []TaskKeepsRequest
<1>1. IInv => TaskKeepsRequest
  BY DEF IInv, Slot, TaskKeepsRequest, Tasks
<1> QED BY <1>1, Invariance, PTL

(* A client that is banned throughout is not let through and gets no page  *)
(* but the ban's: if ACCESS defers the ban, handle_precontent inspects,    *)
(* and applies it whatever AppSec says.                                    *)
THEOREM BanIsFinal == Spec => []BanHolds
<1>1. IInv => BanHolds
  BY DEF IInv, BanDeferred, BanHolds
<1> QED BY <1>1, Invariance, PTL

(* A request AppSec blocks is closed in the callback that hears of it, so  *)
(* neither a new decision nor another run of the phase can pass it on.     *)
THEOREM BlockIsFinal == Spec => []BlockHolds
<1>1. IInv => BlockHolds
  BY DEF IInv, BlockedCloses, BlockHolds
<1> QED BY <1>1, Invariance, PTL

(* Without a decision about its client a request gets to the origin only   *)
(* if an inspection allowed it or failed under the policy to pass.         *)
THEOREM OriginInspected == Spec => []InspectedFirst
<1>1. IInv => InspectedFirst
  BY DEF IInv, PassedToOrigin, InspectedFirst, Passed
<1> QED BY <1>1, Invariance, PTL

(* record_processed runs once, and once more only after a verification     *)
(* that failed open.                                                       *)
THEOREM CountedAsProcessed == Spec => []ProcessedOnce
<1>1. IInv => ProcessedOnce
  BY DEF IInv, TypeOK, Processed, ProcessedOnce
<1> QED BY <1>1, Invariance, PTL

(* record_dropped and record_appsec_dropped run at most once between them  *)
(* while the decision about the client stays.                              *)
THEOREM CountedAsDropped == Spec => []CountedOnce
<1>1. IInv => CountedOnce
  BY DEF IInv, Dropped, CountedOnce
<1> QED BY <1>1, Invariance, PTL
=============================================================================
