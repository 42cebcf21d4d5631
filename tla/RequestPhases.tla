---------------------------- MODULE RequestPhases ----------------------------
(***************************************************************************)
(* One request on its way through the module (src/handler.rs, appsec.rs,   *)
(* captcha/body.rs, thread_task.rs): the ACCESS handler, the PRECONTENT    *)
(* handler, body reads, AppSec inspections and captcha verifications on    *)
(* the thread pool, and the re-entry of a phase when one of these allows   *)
(* the request.  The poller changes the decision about the client at any   *)
(* time, the client goes away at any time.                                 *)
(*                                                                         *)
(* External: nginx runs the handler of a phase again when a handler that   *)
(* returned NGX_DONE resumes the phases, keeps a request while a task is   *)
(* blocked on it, and calls back at once if the body is already read.      *)
(* Left out: the metrics page, subrequests and requests without a client   *)
(* address (declined in both phases), the type Unknown, which the stream   *)
(* never stores, and what answers look like.                               *)
(***************************************************************************)
EXTENDS Naturals, FiniteSets

CONSTANTS
  Confs,         \* location configurations
  Requests,      \* requests
  Decisions,     \* what the cache may hold about the client
  NoMemory,      \* allocations in the request pool may fail
  MaxChanges     \* bound on changes of the decision

(* LocConfig after inheritance, and of MainConfig what concerns a request. *)
(* captcha: no keys, keys without template, or all of it; status403: the   *)
(* ban status is 403.                                                      *)
LocConfig ==
  [enabled : BOOLEAN, bypass : BOOLEAN, appsec : BOOLEAN, url : BOOLEAN,
   always : BOOLEAN, deny : BOOLEAN, drop_unreadable : BOOLEAN, bot_challenge : BOOLEAN,
   captcha : {"off", "no_template", "on"}, fail_open : BOOLEAN,
   block : BOOLEAN, status403 : BOOLEAN]

(* nginx refuses to block captchas it has keys and no page for.            *)
validate_enforcement(c) == c.enabled /\ c.captcha = "no_template" => ~c.block

ASSUME ConfAssumption ==
  Confs \subseteq LocConfig /\ \A c \in Confs : validate_enforcement(c)
ASSUME RequestAssumption ==
  Requests \subseteq
    [post : BOOLEAN, body : {"none", "small", "big", "chunked"}, form : BOOLEAN,
     static : BOOLEAN, session : BOOLEAN, challenge : BOOLEAN, broken : BOOLEAN]
ASSUME DecisionAssumption == Decisions \subseteq {"none", "ban", "captcha"}
ASSUME MayFailAssumption ==
  NoMemory \in BOOLEAN /\ MaxChanges \in Nat

VARIABLES
  conf, req,
  decision,    \* what lookup_ip finds
  phase,       \* where nginx is: a phase, the origin, or the request is closed
  waits,       \* what a handler that returned NGX_DONE waits for
  ctx,         \* the request context in the module's slot
  read,        \* the request body: not read, or usable or not once read
  gone,        \* the client has closed the connection
  answer,      \* what was sent
  processed,   \* record_processed calls
  dropped,     \* record_dropped and record_appsec_dropped calls
  seen,        \* auxiliary: the decisions the cache held so far
  inspected,   \* auxiliary: what AppSec said
  changes

vars == <<conf, req, decision, phase, waits, ctx, read, gone, answer, processed,
          dropped, seen, inspected, changes>>

-----------------------------------------------------------------------------
(* AppSecBodyContext, CaptchaPostContext: the magic, stored_result and, of *)
(* AppSec, whether the client was banned when the inspection began.        *)
Context(owner, stored, shm_ban) ==
  [owner |-> owner, stored |-> stored, shm_ban |-> shm_ban]
NoContext == Context("none", "unset", FALSE)
CaptchaContext == Context("captcha", "unset", FALSE)
AppSecContext ==
  IF ctx.owner = "appsec" THEN ctx ELSE Context("appsec", "unset", decision = "ban")

(* Outcomes of a handler: its HandlerResult, what was sent, how often it   *)
(* was counted as dropped, what a pending one waits for, the context it    *)
(* leaves, and what AppSec has said.                                       *)
Result(res) ==
  [res |-> res, answer |-> "none", dropped |-> 0, waits |-> "no", ctx |-> ctx,
   inspected |-> inspected]
Declined == {Result("declined")}
Forbidden == {[Result("forbidden") EXCEPT !.answer = "forbidden"]}
Error == {Result("error")}
Done(what) == {[Result("done") EXCEPT !.answer = what]}
Pending(what, context) == {[Result("pending") EXCEPT !.waits = what, !.ctx = context]}

Counted(outcomes) == {[o EXCEPT !.dropped = @ + 1] : o \in outcomes}
WithContext(outcomes, context) == {[o EXCEPT !.ctx = context] : o \in outcomes}
Said(outcomes, what) == {[o EXCEPT !.inspected = what] : o \in outcomes}
OrFails(outcomes, otherwise) == outcomes \union (IF NoMemory THEN otherwise ELSE {})

-----------------------------------------------------------------------------
(* The remediation of a decision.                                          *)

(* A path for which no page is rendered.                                   *)
is_static_asset_request == req.static

(* The cookie holds a token that is signed, not over, and this client's.   *)
captcha_session_valid == req.session

finish_block_ban ==
  OrFails(Done("ban"), IF conf.status403 THEN Forbidden ELSE Error)

apply_unenforceable_action == IF conf.block THEN finish_block_ban ELSE Declined

(* The redirect, the ban page or an empty answer.                          *)
send_ban_response(otherwise) == OrFails(Counted(Done("ban")), otherwise)

handle_ban_decision ==
  IF is_static_asset_request
  THEN Counted(finish_block_ban)
  ELSE send_ban_response(apply_unenforceable_action)

send_captcha_page(otherwise) == OrFails(Done("captcha"), otherwise)

(* In a callback: a page that cannot be sent ends in an internal error.    *)
send_captcha_error_page == Done("captcha")

try_send_captcha_page ==
  IF conf.captcha = "no_template"
  THEN apply_unenforceable_action
  ELSE send_captcha_page(apply_unenforceable_action)

(* nginx may report an error when it is asked for the body.                *)
ReadMayFail == req.broken

(* captcha::body::initiate_body_read: unless there is no memory for it the *)
(* context is in the slot, whether or not nginx can read the body.         *)
initiate_body_read ==
  OrFails(Pending("body", CaptchaContext), apply_unenforceable_action)
    \union IF ReadMayFail
           THEN WithContext(apply_unenforceable_action, CaptchaContext)
           ELSE {}

handle_captcha_post ==
  IF req.form /\ req.body = "small" THEN initiate_body_read ELSE try_send_captcha_page

(* Without a valid session the client gets the page, which is counted once *)
(* sent; a POST is counted before anything is decided about it.            *)
AskForCaptcha ==
  IF req.post
  THEN IF conf.captcha = "no_template"
       THEN apply_unenforceable_action
       ELSE Counted(handle_captcha_post)
  ELSE UNION {IF o.res = "done" THEN Counted({o}) ELSE {o} : o \in try_send_captcha_page}

(* resume_body_read of a context: its result, or wait for who is to store  *)
(* one.  nginx has run the phase again, so nobody is.                      *)
Resumed == IF ctx.stored = "unset" THEN Pending("nobody", ctx) ELSE {Result(ctx.stored)}

(* A slip: the context of an earlier run of the phase is not looked for.   *)
handle_captcha_decision_Anew ==
  IF is_static_asset_request THEN OrFails(Done("empty"), apply_unenforceable_action)
  ELSE IF conf.captcha = "off" THEN apply_unenforceable_action
  ELSE IF captcha_session_valid THEN Declined
  ELSE AskForCaptcha

handle_captcha_decision ==
  CASE ctx.owner = "captcha" -> Resumed
    [] ctx.owner # "captcha" /\ is_static_asset_request ->
         OrFails(Done("empty"), apply_unenforceable_action)
    [] OTHER ->
         IF conf.captcha = "off" THEN apply_unenforceable_action
         ELSE IF captcha_session_valid THEN Declined
         ELSE AskForCaptcha

apply_lookup_remediation ==
  CASE decision = "none"    -> Declined
    [] decision = "ban"     -> handle_ban_decision
    [] decision = "captcha" -> handle_captcha_decision

-----------------------------------------------------------------------------
(* AppSec.                                                                 *)

should_run_appsec == conf.appsec /\ (decision = "none" \/ conf.always)

(* A path of the challenge is denied on failure.                           *)
failure_action == IF req.challenge \/ conf.deny THEN "deny" ELSE "passthrough"

(* A slip: the policy is forgotten.                                        *)
fail_closed_Open(action) == Said(Declined, "failed")

fail_closed(action) ==
  Said(IF action = "deny" THEN handle_ban_decision ELSE Declined, "failed")

(* inspect_with_body: post the call to the thread pool.  If the queue is   *)
(* full the result of the failure policy is stored.                        *)
inspect_with_body ==
  Pending("appsec", AppSecContext)
    \union (UNION {WithContext({o}, IF o.res = "done" THEN AppSecContext
                                    ELSE [AppSecContext EXCEPT !.stored = o.res]) :
                     o \in fail_closed(failure_action)})
    \union IF NoMemory /\ ctx.owner # "appsec" THEN fail_closed(failure_action) ELSE {}

inspect_or_drop_unforwardable_body ==
  IF conf.drop_unreadable THEN fail_closed("deny") ELSE inspect_with_body

(* initiate_appsec_body_read.                                              *)
initiate_appsec_body_read ==
  OrFails(Pending("body", AppSecContext), fail_closed(failure_action))
    \union IF ReadMayFail
           THEN WithContext(Forbidden \union fail_closed(failure_action), AppSecContext)
           ELSE {}

inspect_request_body ==
  CASE read = "usable" -> inspect_with_body
    [] read = "unusable" \/ (read = "no" /\ req.body = "big") ->
         inspect_or_drop_unforwardable_body
    [] OTHER -> initiate_appsec_body_read

(* appsec_context, inspect.                                                *)
inspect ==
  CASE ctx.owner = "appsec" -> Resumed
    [] ctx.owner # "appsec" /\ req.challenge /\ ~(conf.appsec /\ conf.bot_challenge) ->
         Forbidden
    [] OTHER ->
         IF ~conf.url THEN (IF req.challenge THEN Forbidden ELSE fail_closed(failure_action))
         ELSE IF req.body = "none" THEN inspect_with_body
         ELSE inspect_request_body

-----------------------------------------------------------------------------
(* The phase handlers, and what nginx does with their result.              *)

Following == [access |-> "precontent", precontent |-> "origin"]

Outcome(o) ==
  /\ answer' = o.answer
  /\ dropped' = dropped + o.dropped
  /\ waits' = o.waits
  /\ inspected' = o.inspected

Finish(outcomes) ==
  \E o \in outcomes :
    /\ Outcome(o)
    /\ ctx' = o.ctx
    /\ phase' = CASE o.res \in {"declined", "error"} -> Following[phase]
                  [] o.res \in {"forbidden", "done"} -> "closed"
                  [] o.res = "pending" -> phase

Runs(p) == phase = p /\ waits = "no"

handle_access ==
  /\ Runs("access")
  /\ processed' = processed + (IF conf.enabled THEN 1 ELSE 0)
  /\ Finish(IF ~conf.enabled \/ conf.bypass \/ should_run_appsec
            THEN Declined
            ELSE apply_lookup_remediation)
  /\ UNCHANGED <<conf, req, decision, read, gone, seen, changes>>

(* Only if AppSec declines is the remediation applied.                     *)
After(d, o) ==
  [o EXCEPT !.ctx = IF @ = ctx THEN d.ctx ELSE @, !.inspected = d.inspected]

ThenRemediate(outcomes) ==
  {o \in outcomes : o.res # "declined"}
    \union {After(d, o) : d \in {p \in outcomes : p.res = "declined"},
                          o \in apply_lookup_remediation}

(* A slip: PRECONTENT counts the request as well.                          *)
handle_precontent_Counts ==
  /\ Runs("precontent")
  /\ processed' = processed + (IF conf.enabled THEN 1 ELSE 0)
  /\ Finish(IF ~conf.enabled \/ conf.bypass \/ ~should_run_appsec
            THEN Declined ELSE ThenRemediate(inspect))
  /\ UNCHANGED <<conf, req, decision, read, gone, seen, changes>>

handle_precontent ==
  /\ Runs("precontent")
  /\ Finish(CASE ~conf.enabled -> Declined
              [] conf.enabled /\ ctx.owner = "captcha" -> Resumed
              [] OTHER ->
                   IF conf.bypass \/ (~should_run_appsec /\ ~req.challenge)
                   THEN Declined
                   ELSE ThenRemediate(inspect))
  /\ UNCHANGED <<conf, req, decision, read, gone, processed, seen, changes>>

-----------------------------------------------------------------------------
(* Callbacks.  A result other than Done is stored, then the phases are run *)
(* again or the request is refused.                                        *)

(* A slip: the result is not stored, or stored while it is pending.        *)
store_result_Never(o) == o.ctx
store_result_Always(o) == [o.ctx EXCEPT !.stored = o.res]

(* A sent answer may have freed the request, a queued task stores later.   *)
store_result(o) ==
  IF o.res \in {"done", "pending"} THEN o.ctx ELSE [o.ctx EXCEPT !.stored = o.res]

(* AppSecBodyContext::finish, finalize_async_result.                       *)
FinishAppSec(outcomes) ==
  \E o \in outcomes :
    /\ Outcome(o)
    /\ ctx' = store_result(o)
    /\ phase' = IF o.res \in {"forbidden", "done"} THEN "closed" ELSE phase

(* CaptchaPostContext::finish: an error is refused.                        *)
FinishCaptcha(outcomes) ==
  \E o \in outcomes :
    /\ Outcome(IF o.res = "error" THEN [o EXCEPT !.answer = "forbidden"] ELSE o)
    /\ ctx' = store_result(o)
    /\ phase' = IF o.res \in {"declined", "pending"} THEN phase ELSE "closed"

BodyRead == \E r \in IF read = "no" THEN {"usable", "unusable"} ELSE {read} : read' = r

(* appsec_body_handler.                                                    *)
appsec_body_handler ==
  /\ waits = "body" /\ ctx.owner = "appsec"
  /\ BodyRead
  /\ FinishAppSec(IF read' = "usable" THEN inspect_with_body
                  ELSE inspect_or_drop_unforwardable_body)
  /\ UNCHANGED <<conf, req, decision, gone, processed, seen, changes>>

(* captcha_body_handler: an error page, or post the verification.  A body  *)
(* without captcha response or a full queue end in the page too.           *)
captcha_body_handler ==
  /\ waits = "body" /\ ctx.owner = "captcha"
  /\ BodyRead
  /\ FinishCaptcha(send_captcha_error_page \union
                   IF read' = "usable" THEN Pending("captcha", ctx) ELSE {})
  /\ UNCHANGED <<conf, req, decision, gone, processed, seen, changes>>

(* What AppSec answers: 200 or "allow"; "ban" or no envelope; "captcha";   *)
(* "challenge"; another action; another status or no answer.               *)
Verdict == {"allow", "ban", "captcha", "challenge", "other", "failure"}

(* A slip: the ban the inspection began with is forgotten.                 *)
apply_appsec_response_NoShmBan(v) ==
  CASE v = "allow" -> Said(Declined, "allowed")
    [] v = "failure" -> fail_closed(failure_action)
    [] v \in {"ban", "captcha"} -> Said(handle_ban_decision, "blocked")
    [] v = "challenge" /\ conf.bot_challenge ->
         Said(Counted(OrFails(Done("challenge"), Forbidden)), "blocked")
    [] OTHER -> Said(Counted(Forbidden), "blocked")

(* A slip: a captcha of AppSec is answered like a captcha decision.        *)
apply_appsec_response_Captcha(v) ==
  CASE v = "allow" -> Said(Declined, "allowed")
    [] v = "failure" -> fail_closed(failure_action)
    [] v = "captcha" -> Said(handle_captcha_decision, "blocked")
    [] v = "ban" \/ (v = "challenge" /\ ctx.shm_ban) -> Said(handle_ban_decision, "blocked")
    [] v = "challenge" /\ ~ctx.shm_ban /\ conf.bot_challenge ->
         Said(Counted(OrFails(Done("challenge"), Forbidden)), "blocked")
    [] OTHER -> Said(Counted(Forbidden), "blocked")

(* A challenge without a body is refused, like any other action.           *)
apply_appsec_response(v) ==
  CASE v = "allow" -> Said(Declined, "allowed")
    [] v = "failure" -> fail_closed(failure_action)
    [] v \in {"ban", "captcha"} \/ (v = "challenge" /\ ctx.shm_ban) ->
         Said(handle_ban_decision, "blocked")
    [] v = "challenge" /\ ~ctx.shm_ban /\ conf.bot_challenge ->
         Said(Counted(OrFails(Done("challenge"), Forbidden)), "blocked")
    [] OTHER -> Said(Counted(Forbidden), "blocked")

(* complete_verification: the provider is "unavailable" after a network,   *)
(* timeout or provider error; what it says may be no answer at all.  After *)
(* a success the token may not be created.                                 *)
VerifyResult == {"success", "failed", "unavailable", "invalid"}

complete_verification(v) ==
  CASE v = "success" -> Done("redirect") \union send_captcha_error_page
    [] v = "unavailable" /\ conf.fail_open -> Declined
    [] OTHER -> send_captcha_error_page

Tasks == {"appsec", "captcha"}

(* thread_task::done: the completion runs unless the client has gone.      *)
AppSecDone ==
  /\ waits = "appsec" /\ ~gone
  /\ \E v \in Verdict : FinishAppSec(apply_appsec_response(v))
  /\ UNCHANGED <<conf, req, decision, read, gone, processed, seen, changes>>

CaptchaDone ==
  /\ waits = "captcha" /\ ~gone
  /\ \E v \in VerifyResult : FinishCaptcha(complete_verification(v))
  /\ UNCHANGED <<conf, req, decision, read, gone, processed, seen, changes>>

TaskDoneGone ==
  /\ waits \in Tasks /\ gone
  /\ waits' = "no"
  /\ phase' = "closed"
  /\ UNCHANGED <<conf, req, decision, ctx, read, gone, answer, processed, dropped, seen,
                 inspected, changes>>

-----------------------------------------------------------------------------
(* The poller changes the cache.                                           *)
Decide ==
  /\ phase \in {"access", "precontent"} /\ changes < MaxChanges
  /\ changes' = changes + 1
  /\ decision' \in Decisions \ {decision}
  /\ seen' = seen \union {decision'}
  /\ UNCHANGED <<conf, req, phase, waits, ctx, read, gone, answer, processed, dropped,
                 inspected>>

(* A slip: thread_task::post does not count the task as blocking.          *)
Blocked_Never == FALSE

Blocked == waits \in Tasks

(* The client goes away.  nginx keeps a request that a task is blocked on. *)
Disconnect ==
  /\ phase \in {"access", "precontent"} /\ ~gone /\ waits # "no"
  /\ gone' = TRUE
  /\ phase' = IF Blocked THEN phase ELSE "closed"
  /\ waits' = IF waits \in Tasks THEN waits ELSE "no"
  /\ UNCHANGED <<conf, req, decision, ctx, read, answer, processed, dropped, seen,
                 inspected, changes>>

Init ==
  /\ conf \in Confs /\ req \in Requests
  /\ decision \in Decisions
  /\ phase = "access"
  /\ waits = "no"
  /\ ctx = NoContext
  /\ read = "no"
  /\ gone = FALSE
  /\ answer = "none"
  /\ processed = 0 /\ dropped = 0
  /\ seen = {decision}
  /\ inspected = "no"
  /\ changes = 0

ModuleStep ==
  \/ handle_access \/ handle_precontent
  \/ appsec_body_handler \/ captcha_body_handler
  \/ AppSecDone \/ CaptchaDone \/ TaskDoneGone

(* The request has left the module.                                        *)
Over == phase \in {"origin", "closed"} /\ UNCHANGED vars

Next == ModuleStep \/ Decide \/ Disconnect \/ Over

Spec == Init /\ [][Next]_vars

(* nginx runs handlers and callbacks; bodies arrive or time out, and       *)
(* AppSec and the captcha provider answer or time out.                     *)
FairSpec == Spec /\ WF_vars(ModuleStep)

-----------------------------------------------------------------------------
Stored == {"unset", "declined", "forbidden", "error"}

TypeOK ==
  /\ conf \in Confs /\ req \in Requests
  /\ decision \in Decisions /\ seen \subseteq Decisions
  /\ phase \in {"access", "precontent", "origin", "closed"}
  /\ waits \in {"no", "body", "appsec", "captcha", "nobody"}
  /\ ctx \in [owner : {"none", "appsec", "captcha"}, stored : Stored, shm_ban : BOOLEAN]
  /\ read \in {"no", "usable", "unusable"}
  /\ gone \in BOOLEAN
  /\ answer \in {"none", "ban", "captcha", "challenge", "redirect", "empty", "forbidden"}
  /\ processed \in Nat /\ dropped \in Nat /\ changes \in Nat
  /\ inspected \in {"no", "allowed", "failed", "blocked"}

Guarded == conf.enabled /\ ~conf.bypass

(* A ban can be carried out also if no answer can be sent.                 *)
Enforceable == NoMemory => conf.block /\ conf.status403

(* A client that is banned throughout never gets past the module, nor any  *)
(* page but the ban's, however AppSec, its queue and its body read answer: *)
(* crowdsec_appsec_always only defers the ban.                             *)
BanHolds ==
  Guarded /\ Enforceable /\ seen = {"ban"} =>
    phase # "origin" /\ answer \in {"none", "ban", "forbidden"}

(* What AppSec blocks never reaches the origin, also when the decision     *)
(* about the client changes, the phase is run again, or the client holds a *)
(* valid captcha session.                                                  *)
BlockHolds == Enforceable /\ inspected = "blocked" => phase # "origin"

(* A client without decision throughout gets to the origin through AppSec  *)
(* only: it allowed the request, or failed and the policy is to pass.      *)
InspectedFirst ==
  Guarded /\ Enforceable /\ conf.appsec /\ seen = {"none"} /\ phase = "origin" =>
    inspected = "allowed" \/ (inspected = "failed" /\ failure_action = "passthrough")

(* The completion of a task on the thread pool finds its request: it is    *)
(* not closed before, whenever the client goes away.                       *)
TaskKeepsRequest == waits \in Tasks => phase # "closed"

(* While the decision about the client stays, a request is counted as      *)
(* dropped at most once, though ACCESS counts a captcha POST, is run again *)
(* after its verification, and PRECONTENT and AppSec count as well.  The   *)
(* exception is a path of the challenge, which AppSec inspects even if     *)
(* ACCESS has counted it and could send nothing.                           *)
CountedOnce == seen = {decision} /\ (req.challenge => Enforceable) => dropped <= 1

(* A request is counted as processed once, whichever phase it is resumed   *)
(* in.  Only the verification of a captcha that fails open in ACCESS runs  *)
(* the counting part of handle_access again.                               *)
ProcessedOnce ==
  processed <= IF ctx.owner = "captcha" /\ ctx.stored = "declined" THEN 2 ELSE 1

(* The request is answered or passed to the origin: on_complete and the    *)
(* body callbacks always finish a request they have kept.                  *)
RequestEnds == <>(phase \in {"origin", "closed"})

(* It is if nginx can read its body, whatever AppSec, the provider, the    *)
(* queue of the thread pool, the poller and the client do.                 *)
ReadableRequestEnds == ~ReadMayFail => RequestEnds
=============================================================================
