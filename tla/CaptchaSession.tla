--------------------------- MODULE CaptchaSession ---------------------------
(***************************************************************************)
(* The session a client earns with a captcha (src/captcha/jwt.rs,          *)
(* cookie.rs, handler.rs and body.rs): a signed token in a cookie, issued  *)
(* when the verification of a POST completes and checked by every later    *)
(* request of a client with a captcha decision.                            *)
(*                                                                         *)
(* A POST keeps a copy of the configuration and of the address it began    *)
(* with, while nginx is reloaded, the client moves to another address, the *)
(* decision about it comes and goes and the wall clock is set back.        *)
(* Workers of the old and the new configuration serve side by side.        *)
(*                                                                         *)
(* External: HMAC (a token verifies under the key that signed it and under *)
(* no other), the browser and its cookies, the captcha provider.  Left     *)
(* out: the claims typ, which has one value, and uri and nonce, which are  *)
(* not checked.                                                            *)
(***************************************************************************)
EXTENDS Integers

CONSTANTS
  Browsers,     \* clients
  Addr,         \* client addresses
  Configs,      \* captcha configurations of the location
  Names,        \* cookie names
  None,         \* no cookie, no POST under way, nothing earned
  Leeway,       \* seconds a token may come from the future
  MaxTime,      \* bound on the clock
  MaxSolves,    \* bound on captchas solved
  MaxFaults     \* bound on reloads, moves, copies and clock steps together

(* CaptchaConfig, the fields a session depends on.                         *)
ASSUME ConfigAssumption ==
  Configs \subseteq
    [signing_key : STRING, cookie_name : Names, bind_ip : BOOLEAN, expiry_secs : Nat \ {0}]
ASSUME AddrAssumption == "anonymous" \notin Addr

Token ==
  [sub : Addr \union {"anonymous"}, iat : Nat, exp : Nat, key : STRING]

ASSUME NoneAssumption == None \notin Token
ASSUME SessionBoundAssumption ==
  /\ Leeway \in Nat /\ MaxTime \in Nat /\ MaxSolves \in Nat /\ MaxFaults \in Nat

VARIABLES
  now,          \* the wall clock of the server
  serving,      \* configurations some worker serves with
  captcha,      \* addresses with a captcha decision
  addr,         \* addr[b]: the address b comes from
  jar,          \* jar[b][n]: the token b keeps under cookie name n
  post,         \* post[b]: the CaptchaPostContext of the POST of b
  solved,       \* auxiliary: captchas solved
  earned,       \* auxiliary: earned[b]: the last one of b nothing has come between
  solves, faults

vars == <<now, serving, captcha, addr, jar, post, solved, earned, solves, faults>>

-----------------------------------------------------------------------------
(* Tokens.                                                                 *)

(* A slip: a session that is nobody's has no subject.                      *)
new_token_Nobody(c, ip, t) ==
  [sub |-> IF c.bind_ip THEN ip ELSE None, iat |-> t,
   exp |-> t + c.expiry_secs, key |-> c.signing_key]

(* The claims CaptchaClaims::new makes at time t, and the key create_token *)
(* signs them with.                                                        *)
new_token(c, ip, t) ==
  [sub |-> IF c.bind_ip THEN ip ELSE "anonymous", iat |-> t,
   exp |-> t + c.expiry_secs, key |-> c.signing_key]

(* verify_token: the signature.                                            *)
verify_token(token, c) == token.key = c.signing_key

(* A slip: the subject is compared unless the token is anybody's.          *)
verify_and_validate_Anonymous(token, c, ip) ==
  /\ verify_token(token, c)
  /\ ~(now > token.exp)
  /\ ~(token.iat > now + Leeway)
  /\ c.bind_ip => token.sub \in {ip, "anonymous"}

(* A slip: no leeway for a clock that was set back.                        *)
verify_and_validate_Strict(token, c, ip) ==
  /\ verify_token(token, c)
  /\ ~(now > token.exp)
  /\ ~(token.iat > now)
  /\ c.bind_ip => token.sub = ip

(* JwtManager::verify_and_validate.                                        *)
verify_and_validate(token, c, ip) ==
  /\ verify_token(token, c)
  /\ ~(now > token.exp)
  /\ ~(token.iat > now + Leeway)
  /\ c.bind_ip => token.sub = ip

(* get_cookie: the token a browser sends under the configured name.        *)
get_cookie(b, c) == jar[b][c.cookie_name]

captcha_session_valid(b, c) ==
  /\ get_cookie(b, c) # None
  /\ verify_and_validate(get_cookie(b, c), c, addr[b])

Init ==
  /\ now = 0
  /\ \E c \in Configs : serving = {c}
  /\ captcha \in SUBSET Addr
  /\ addr \in [Browsers -> Addr]
  /\ jar = [b \in Browsers |-> [n \in Names |-> None]]
  /\ post = [b \in Browsers |-> None]
  /\ solved = {}
  /\ earned = [b \in Browsers |-> None]
  /\ solves = 0 /\ faults = 0

(* Cookie n of b becomes token; what b had earned under that name is void. *)
SetCookie(b, n, token) ==
  /\ jar' = [jar EXCEPT ![b][n] = token]
  /\ earned' = [earned EXCEPT ![b] =
       IF @ # None /\ @.conf.cookie_name = n THEN None ELSE @]

-----------------------------------------------------------------------------
(* Requests.                                                               *)

(* maybe_clear_stale_captcha_cookie: a request of a client without         *)
(* decision loses the cookie.                                              *)
ClearStaleCookie(b, c) ==
  /\ addr[b] \notin captcha
  /\ get_cookie(b, c) # None
  /\ SetCookie(b, c.cookie_name, None)
  /\ UNCHANGED <<now, serving, captcha, addr, post, solved, solves, faults>>

(* handle_captcha_decision: a POST without a valid session begins a        *)
(* verification, with a copy of the configuration and of the address       *)
(* (CaptchaPostContext::from_config).                                      *)
BeginPost(b, c) ==
  /\ addr[b] \in captcha
  /\ ~captcha_session_valid(b, c)
  /\ post[b] = None /\ solves < MaxSolves
  /\ post' = [post EXCEPT ![b] = [conf |-> c, ip |-> addr[b]]]
  /\ UNCHANGED <<now, serving, captcha, addr, jar, solved, earned, solves, faults>>

(* A slip: the token is for the address the client has by now.             *)
send_success_redirect_Moved(b) ==
  jar' = [jar EXCEPT ![b][post[b].conf.cookie_name] = new_token(post[b].conf, addr[b], now)]

(* send_success_redirect: the new token replaces the cookie of that name.  *)
send_success_redirect(b) ==
  jar' = [jar EXCEPT ![b][post[b].conf.cookie_name] = new_token(post[b].conf, post[b].ip, now)]

(* complete_verification of a success: the context's configuration and     *)
(* address, the clock of the completion.                                   *)
CompleteSuccess(b) ==
  /\ post[b] # None
  /\ send_success_redirect(b)
  /\ solves' = solves + 1
  /\ solved' = solved \union
       {[ip |-> post[b].ip, key |-> post[b].conf.signing_key, bind |-> post[b].conf.bind_ip,
         at |-> now, until |-> now + post[b].conf.expiry_secs]}
  /\ earned' = [earned EXCEPT ![b] =
       IF post[b].ip = addr[b]
       THEN [conf |-> post[b].conf, at |-> now, until |-> now + post[b].conf.expiry_secs]
       ELSE None]
  /\ post' = [post EXCEPT ![b] = None]
  /\ UNCHANGED <<now, serving, captcha, addr, faults>>

(* A failure, an error, failing open, a client that has gone: no token.    *)
CompleteOtherwise(b) ==
  /\ post[b] # None
  /\ post' = [post EXCEPT ![b] = None]
  /\ UNCHANGED <<now, serving, captcha, addr, jar, solved, earned, solves, faults>>

-----------------------------------------------------------------------------
(* What happens around them.                                               *)

Fault == faults < MaxFaults /\ faults' = faults + 1

(* The browser drops a cookie whose Max-Age is over.                       *)
Forget(b, n) ==
  /\ jar[b][n] # None /\ now >= jar[b][n].exp
  /\ SetCookie(b, n, None)
  /\ UNCHANGED <<now, serving, captcha, addr, post, solved, solves, faults>>

(* A client changes its address, or presents the cookie of another.        *)
Move(b) ==
  /\ Fault
  /\ \E a \in Addr \ {addr[b]} : addr' = [addr EXCEPT ![b] = a]
  /\ earned' = [earned EXCEPT ![b] = None]
  /\ UNCHANGED <<now, serving, captcha, jar, post, solved, solves>>

CopyCookie(b, from, n) ==
  /\ Fault
  /\ b # from /\ jar[from][n] # None
  /\ SetCookie(b, n, jar[from][n])
  /\ UNCHANGED <<now, serving, captcha, addr, post, solved, solves>>

(* nginx is reloaded; the workers of an older configuration end later.     *)
Reload(c) ==
  /\ Fault
  /\ c \notin serving
  /\ serving' = serving \union {c}
  /\ UNCHANGED <<now, captcha, addr, jar, post, solved, earned, solves>>

Retire(c) ==
  /\ c \in serving /\ serving # {c}
  /\ serving' = serving \ {c}
  /\ UNCHANGED <<now, captcha, addr, jar, post, solved, earned, solves, faults>>

(* The poller adds or removes a decision.                                  *)
Decide(a) ==
  /\ captcha' = IF a \in captcha THEN captcha \ {a} ELSE captcha \union {a}
  /\ UNCHANGED <<now, serving, addr, jar, post, solved, earned, solves, faults>>

Tick ==
  /\ now < MaxTime
  /\ now' = now + 1
  /\ UNCHANGED <<serving, captcha, addr, jar, post, solved, earned, solves, faults>>

(* The wall clock is set back.                                             *)
StepBack ==
  /\ Fault
  /\ \E t \in 0 .. now - 1 : now' = t
  /\ UNCHANGED <<serving, captcha, addr, jar, post, solved, earned, solves>>

Next ==
  \/ \E b \in Browsers :
       \/ \E c \in serving : ClearStaleCookie(b, c) \/ BeginPost(b, c)
       \/ CompleteSuccess(b) \/ CompleteOtherwise(b) \/ Move(b)
       \/ \E n \in Names : Forget(b, n) \/ \E from \in Browsers : CopyCookie(b, from, n)
  \/ \E c \in Configs : Reload(c) \/ Retire(c)
  \/ \E a \in Addr : Decide(a)
  \/ Tick \/ StepBack

Spec == Init /\ [][Next]_vars

-----------------------------------------------------------------------------
(* A verified captcha ends in one token: the configuration and the address *)
(* of the POST decide what it is good for.                                 *)
TypeOK ==
  /\ now \in Nat
  /\ serving \subseteq Configs /\ captcha \subseteq Addr
  /\ addr \in [Browsers -> Addr]
  /\ jar \in [Browsers -> [Names -> Token \union {None}]]
  /\ post \in [Browsers -> [conf : Configs, ip : Addr] \union {None}]
  /\ solved \subseteq [ip : Addr, key : STRING, bind : BOOLEAN, at : Nat, until : Nat]
  /\ earned \in [Browsers -> [conf : Configs, at : Nat, until : Nat] \union {None}]
  /\ solves \in Nat /\ faults \in Nat

(* A request passes with a session only if a captcha was solved under its  *)
(* signing key and is not over; where bind_ip is on, by a client of the    *)
(* same address, under a configuration that bound it.  So it is whichever  *)
(* workers, old or new, began, completed and check it, and whatever cookie *)
(* the client sends.                                                       *)
SessionEarned ==
  \A b \in Browsers, c \in Configs : captcha_session_valid(b, c) =>
    \E s \in solved :
      /\ s.key = c.signing_key /\ now <= s.until
      /\ c.bind_ip => s.bind /\ s.ip = addr[b]

(* A client that has solved the captcha is not asked again before the      *)
(* session is over, by a worker of the configuration it was solved under,  *)
(* unless it moves, replaces its cookie or loses it in a request without   *)
(* decision, or the clock is set back by more than the leeway: the time    *)
(* the verification takes does not count.                                  *)
SolvedHonoured ==
  \A b \in Browsers :
    earned[b] # None /\ now <= earned[b].until /\ earned[b].at <= now + Leeway =>
      captcha_session_valid(b, earned[b].conf)

-----------------------------------------------------------------------------
(* What makes them inductive: every cookie is a token of a solved captcha, *)
(* and the cookie of what a browser has earned is the token of that.       *)
Issued(token, S) ==
  \E s \in S :
    /\ token.key = s.key /\ token.iat = s.at /\ token.exp = s.until
    /\ token.sub = IF s.bind THEN s.ip ELSE "anonymous"

SessionInv ==
  /\ TypeOK
  /\ \A b \in Browsers, n \in Names : jar[b][n] # None => Issued(jar[b][n], solved)
  /\ \A b \in Browsers : earned[b] # None =>
       LET e == earned[b]
       IN  jar[b][e.conf.cookie_name] =
             [sub |-> IF e.conf.bind_ip THEN addr[b] ELSE "anonymous",
              iat |-> e.at, exp |-> e.until, key |-> e.conf.signing_key]
=============================================================================
