------------------------ MODULE CaptchaSessionProofs ------------------------
(***************************************************************************)
(* Proofs about CaptchaSession, for every set of clients, addresses,       *)
(* configurations and cookie names, and any number of reloads.             *)
(***************************************************************************)
EXTENDS CaptchaSession, TLAPS

(* The parts of the invariant beyond the types: cookies are tokens of      *)
(* solved captchas, and what is earned is what the cookie says.            *)
CookiesIssued ==
  \A b \in Browsers, n \in Names : jar[b][n] # None => Issued(jar[b][n], solved)

EarnedToken(b) ==
  [sub |-> IF earned[b].conf.bind_ip THEN addr[b] ELSE "anonymous",
   iat |-> earned[b].at, exp |-> earned[b].until, key |-> earned[b].conf.signing_key]

EarnedHeld ==
  \A b \in Browsers : earned[b] # None =>
    jar[b][earned[b].conf.cookie_name] = EarnedToken(b)

LEMMA SessionInvParts == SessionInv <=> TypeOK /\ CookiesIssued /\ EarnedHeld
BY DEF SessionInv, CookiesIssued, EarnedHeld, EarnedToken

(* Before the first request nobody has a cookie.                           *)
LEMMA SessionInit == Init => SessionInv
<1> SUFFICES ASSUME Init PROVE TypeOK /\ CookiesIssued /\ EarnedHeld
  BY SessionInvParts
<1>1. TypeOK
  BY DEF Init, TypeOK
<1>2. CookiesIssued /\ EarnedHeld
  BY DEF Init, CookiesIssued, EarnedHeld
<1> QED
  BY <1>1, <1>2

(* CaptchaClaims::new and create_token make tokens.                        *)
LEMMA NewTokenType ==
  ASSUME NEW c \in Configs, NEW ip \in Addr, NEW t \in Nat
  PROVE  new_token(c, ip, t) \in Token
BY ConfigAssumption DEF new_token, Token

(* A cookie that is set to an issued token, or cleared, keeps the          *)
(* invariant: what was earned under its name is forgotten.                 *)
LEMMA SetCookieStep ==
  ASSUME TypeOK, CookiesIssued, EarnedHeld,
         NEW b \in Browsers, NEW n \in Names, NEW token \in Token \union {None},
         token # None => Issued(token, solved), SetCookie(b, n, token),
         UNCHANGED <<addr, solved>>
  PROVE  /\ jar' \in [Browsers -> [Names -> Token \union {None}]]
         /\ earned' \in [Browsers -> [conf : Configs, at : Nat, until : Nat] \union {None}]
         /\ CookiesIssued' /\ EarnedHeld'
<1> USE DEF TypeOK, SetCookie
<1>1. jar' = [jar EXCEPT ![b] = [jar[b] EXCEPT ![n] = token]]
  OBVIOUS
<1>2. jar' \in [Browsers -> [Names -> Token \union {None}]]
  BY <1>1
<1>3. earned' \in [Browsers -> [conf : Configs, at : Nat, until : Nat] \union {None}]
  OBVIOUS
<1>4. CookiesIssued'
  <2> SUFFICES ASSUME NEW d \in Browsers, NEW m \in Names, jar'[d][m] # None
               PROVE  Issued(jar'[d][m], solved)
    BY DEF CookiesIssued
  <2>1. jar'[d][m] = token \/ jar'[d][m] = jar[d][m]
    BY <1>1
  <2> QED
    BY <2>1 DEF CookiesIssued
<1>5. EarnedHeld'
  <2> SUFFICES ASSUME NEW d \in Browsers, earned'[d] # None
               PROVE  jar'[d][earned'[d].conf.cookie_name] = EarnedToken(d)'
    BY DEF EarnedHeld
  <2>1. earned'[d] = earned[d]
    OBVIOUS
  <2>2. jar'[d][earned[d].conf.cookie_name] = jar[d][earned[d].conf.cookie_name]
    BY <1>1, <2>1, ConfigAssumption
  <2>3. EarnedToken(d)' = EarnedToken(d)
    BY <2>1 DEF EarnedToken
  <2> QED
    BY <2>1, <2>2, <2>3 DEF EarnedHeld
<1> QED
  BY <1>2, <1>3, <1>4, <1>5

(* complete_verification issues a token that matches what was solved.      *)
LEMMA SuccessStep ==
  ASSUME TypeOK, CookiesIssued, EarnedHeld, NEW b \in Browsers, CompleteSuccess(b)
  PROVE  TypeOK' /\ CookiesIssued' /\ EarnedHeld'
<1> DEFINE c == post[b].conf
           token == new_token(c, post[b].ip, now)
           s == [ip |-> post[b].ip, key |-> c.signing_key, bind |-> c.bind_ip,
                 at |-> now, until |-> now + c.expiry_secs]
           n == c.cookie_name
<1>1. /\ post[b] \in [conf : Configs, ip : Addr] /\ c \in Configs /\ post[b].ip \in Addr
      /\ now \in Nat /\ n \in Names
  BY ConfigAssumption DEF TypeOK, CompleteSuccess
<1>2. token \in Token
  BY <1>1, NewTokenType
<1>3. /\ jar' = [jar EXCEPT ![b] = [jar[b] EXCEPT ![n] = token]]
      /\ solved' = solved \union {s}
      /\ addr' = addr /\ now' = now
  BY DEF CompleteSuccess, send_success_redirect
<1>4. jar' \in [Browsers -> [Names -> Token \union {None}]]
  BY <1>1, <1>2, <1>3 DEF TypeOK
<1>5. TypeOK'
  <2>1. s \in [ip : Addr, key : STRING, bind : BOOLEAN, at : Nat, until : Nat]
    BY <1>1, ConfigAssumption
  <2>2. earned' \in [Browsers -> [conf : Configs, at : Nat, until : Nat] \union {None}]
    BY <1>1, ConfigAssumption DEF TypeOK, CompleteSuccess
  <2>3. post' \in [Browsers -> [conf : Configs, ip : Addr] \union {None}]
    BY DEF TypeOK, CompleteSuccess
  <2> QED
    BY <1>3, <1>4, <2>1, <2>2, <2>3 DEF TypeOK, CompleteSuccess
<1>6. Issued(token, solved')
  <2>1. s \in solved' /\ token.key = s.key /\ token.iat = s.at /\ token.exp = s.until
    BY <1>3 DEF new_token
  <2>2. token.sub = IF s.bind THEN s.ip ELSE "anonymous"
    BY DEF new_token
  <2> QED
    BY <2>1, <2>2 DEF Issued
<1>7. CookiesIssued'
  <2> SUFFICES ASSUME NEW d \in Browsers, NEW m \in Names, jar'[d][m] # None
               PROVE  Issued(jar'[d][m], solved')
    BY DEF CookiesIssued
  <2>1. CASE d = b /\ m = n
    <3>1. jar'[d][m] = token
      BY <1>1, <1>3, <2>1 DEF TypeOK
    <3> QED
      BY <3>1, <1>6
  <2>2. CASE ~(d = b /\ m = n)
    <3>1. jar'[d][m] = jar[d][m]
      BY <1>1, <1>3, <2>2 DEF TypeOK
    <3>2. Issued(jar[d][m], solved)
      BY <3>1 DEF CookiesIssued
    <3> QED
      BY <1>3, <3>1, <3>2 DEF Issued
  <2> QED
    BY <2>1, <2>2
<1>8. EarnedHeld'
  <2> SUFFICES ASSUME NEW d \in Browsers, earned'[d] # None
               PROVE  jar'[d][earned'[d].conf.cookie_name] = EarnedToken(d)'
    BY DEF EarnedHeld
  <2>1. CASE d = b
    <3>1. post[b].ip = addr[b] /\ earned'[d] = [conf |-> c, at |-> now, until |-> now + c.expiry_secs]
      BY <2>1 DEF TypeOK, CompleteSuccess
    <3>2. jar'[d][n] = token
      BY <1>1, <1>3, <2>1 DEF TypeOK
    <3> QED
      BY <1>3, <2>1, <3>1, <3>2 DEF EarnedToken, new_token
  <2>2. CASE d # b
    <3>1. earned'[d] = earned[d] /\ jar'[d] = jar[d]
      BY <1>3, <2>2 DEF TypeOK, CompleteSuccess
    <3> QED
      BY <1>3, <3>1 DEF EarnedHeld, EarnedToken
  <2> QED
    BY <2>1, <2>2
<1> QED
  BY <1>5, <1>7, <1>8

(* Every step of requests, browsers, reloads, the poller and the clock     *)
(* keeps the invariant.                                                    *)
LEMMA SessionStep == SessionInv /\ [Next]_vars => SessionInv'
<1> SUFFICES ASSUME TypeOK, CookiesIssued, EarnedHeld, [Next]_vars
             PROVE  TypeOK' /\ CookiesIssued' /\ EarnedHeld'
  BY DEF SessionInv, CookiesIssued, EarnedHeld, EarnedToken
<1>1. ASSUME NEW b \in Browsers, NEW c \in serving, ClearStaleCookie(b, c)
      PROVE  TypeOK' /\ CookiesIssued' /\ EarnedHeld'
  <2>1. c.cookie_name \in Names
    BY ConfigAssumption DEF TypeOK
  <2>2. SetCookie(b, c.cookie_name, None) /\ UNCHANGED <<addr, solved>>
    BY <1>1 DEF ClearStaleCookie
  <2>3. /\ jar' \in [Browsers -> [Names -> Token \union {None}]]
        /\ earned' \in [Browsers -> [conf : Configs, at : Nat, until : Nat] \union {None}]
        /\ CookiesIssued' /\ EarnedHeld'
    BY <2>1, <2>2, SetCookieStep
  <2> QED
    BY <1>1, <2>3 DEF TypeOK, ClearStaleCookie
<1>2. ASSUME NEW b \in Browsers, NEW n \in Names, Forget(b, n)
      PROVE  TypeOK' /\ CookiesIssued' /\ EarnedHeld'
  <2>1. SetCookie(b, n, None) /\ UNCHANGED <<addr, solved>>
    BY <1>2 DEF Forget
  <2>2. /\ jar' \in [Browsers -> [Names -> Token \union {None}]]
        /\ earned' \in [Browsers -> [conf : Configs, at : Nat, until : Nat] \union {None}]
        /\ CookiesIssued' /\ EarnedHeld'
    BY <2>1, SetCookieStep
  <2> QED
    BY <1>2, <2>2 DEF TypeOK, Forget
<1>3. ASSUME NEW b \in Browsers, NEW from \in Browsers, NEW n \in Names, CopyCookie(b, from, n)
      PROVE  TypeOK' /\ CookiesIssued' /\ EarnedHeld'
  <2> DEFINE token == jar[from][n]
  <2>1. SetCookie(b, n, token) /\ UNCHANGED <<addr, solved>> /\ token # None
    BY <1>3 DEF CopyCookie
  <2>2. token \in Token \union {None} /\ Issued(token, solved)
    BY <2>1 DEF TypeOK, CookiesIssued
  <2> HIDE DEF token
  <2>3. /\ jar' \in [Browsers -> [Names -> Token \union {None}]]
        /\ earned' \in [Browsers -> [conf : Configs, at : Nat, until : Nat] \union {None}]
        /\ CookiesIssued' /\ EarnedHeld'
    BY <2>1, <2>2, SetCookieStep
  <2> QED
    BY <1>3, <2>3 DEF TypeOK, CopyCookie, Fault
<1>4. ASSUME NEW b \in Browsers, NEW c \in serving, BeginPost(b, c)
      PROVE  TypeOK' /\ CookiesIssued' /\ EarnedHeld'
  <2>1. TypeOK'
    BY <1>4 DEF TypeOK, BeginPost
  <2> QED
    BY <1>4, <2>1 DEF BeginPost, CookiesIssued, EarnedHeld, EarnedToken
<1>5. ASSUME NEW b \in Browsers, CompleteSuccess(b)
      PROVE  TypeOK' /\ CookiesIssued' /\ EarnedHeld'
  BY <1>5, SuccessStep
<1>6. ASSUME NEW b \in Browsers, CompleteOtherwise(b)
      PROVE  TypeOK' /\ CookiesIssued' /\ EarnedHeld'
  <2>1. TypeOK'
    BY <1>6 DEF TypeOK, CompleteOtherwise
  <2> QED
    BY <1>6, <2>1 DEF CompleteOtherwise, CookiesIssued, EarnedHeld, EarnedToken
<1>7. ASSUME NEW b \in Browsers, Move(b)
      PROVE  TypeOK' /\ CookiesIssued' /\ EarnedHeld'
  <2>1. TypeOK'
    BY <1>7 DEF TypeOK, Move, Fault
  <2>2. CookiesIssued'
    BY <1>7 DEF Move, CookiesIssued
  <2>3. EarnedHeld'
    <3> SUFFICES ASSUME NEW d \in Browsers, earned'[d] # None
                 PROVE  jar'[d][earned'[d].conf.cookie_name] = EarnedToken(d)'
      BY DEF EarnedHeld
    <3>1. d # b /\ earned'[d] = earned[d] /\ addr'[d] = addr[d] /\ jar' = jar
      BY <1>7 DEF Move, TypeOK
    <3> QED
      BY <3>1 DEF EarnedHeld, EarnedToken
  <2> QED
    BY <2>1, <2>2, <2>3
<1>8. ASSUME NEW c \in Configs, Reload(c) \/ Retire(c)
      PROVE  TypeOK' /\ CookiesIssued' /\ EarnedHeld'
  <2>1. TypeOK'
    BY <1>8 DEF TypeOK, Reload, Retire, Fault
  <2> QED
    BY <1>8, <2>1 DEF Reload, Retire, CookiesIssued, EarnedHeld, EarnedToken
<1>9. ASSUME NEW a \in Addr, Decide(a)
      PROVE  TypeOK' /\ CookiesIssued' /\ EarnedHeld'
  <2>1. TypeOK'
    BY <1>9 DEF TypeOK, Decide
  <2> QED
    BY <1>9, <2>1 DEF Decide, CookiesIssued, EarnedHeld, EarnedToken
<1>10. ASSUME Tick \/ StepBack
       PROVE  TypeOK' /\ CookiesIssued' /\ EarnedHeld'
  <2>1. TypeOK'
    BY <1>10 DEF TypeOK, Tick, StepBack, Fault
  <2> QED
    BY <1>10, <2>1 DEF Tick, StepBack, CookiesIssued, EarnedHeld, EarnedToken
<1>11. CASE UNCHANGED vars
  BY <1>11 DEF vars, TypeOK, CookiesIssued, EarnedHeld, EarnedToken
<1> QED
  BY <1>1, <1>2, <1>3, <1>4, <1>5, <1>6, <1>7, <1>8, <1>9, <1>10, <1>11 DEF Next

(* The invariant holds in every reachable state.                           *)
THEOREM SessionInvariant == Spec => []SessionInv
BY SessionInit, SessionStep, PTL DEF Spec

(* Every token a browser keeps and every verification under way is         *)
(* well formed: a configuration that was served, an address.               *)
THEOREM SessionTypeCorrect == Spec => []TypeOK
<1>1. SessionInv => TypeOK
  BY SessionInvParts
<1> QED
  BY <1>1, SessionInvariant, PTL

(* No request passes captcha_session_valid without a captcha that was      *)
(* solved under its key, is not over and, under bind_ip, was solved from   *)
(* its address.                                                            *)
THEOREM SessionsEarned == Spec => []SessionEarned
<1>1. SessionInv => SessionEarned
  <2> SUFFICES ASSUME TypeOK, CookiesIssued, NEW b \in Browsers, NEW c \in Configs,
                      captcha_session_valid(b, c)
               PROVE  \E s \in solved :
                        /\ s.key = c.signing_key /\ now <= s.until
                        /\ c.bind_ip => s.bind /\ s.ip = addr[b]
    BY SessionInvParts DEF SessionEarned
  <2> DEFINE token == jar[b][c.cookie_name]
  <2>1. /\ token # None /\ token.key = c.signing_key /\ ~(now > token.exp)
        /\ c.bind_ip => token.sub = addr[b]
    BY DEF captcha_session_valid, get_cookie, verify_and_validate, verify_token
  <2>2. c.cookie_name \in Names
    BY ConfigAssumption
  <2>3. Issued(token, solved)
    BY <2>1, <2>2 DEF CookiesIssued
  <2>4. PICK s \in solved :
          /\ token.key = s.key /\ token.iat = s.at /\ token.exp = s.until
          /\ token.sub = IF s.bind THEN s.ip ELSE "anonymous"
    BY <2>3 DEF Issued
  <2>5. now \in Nat /\ s.until \in Nat /\ s.bind \in BOOLEAN /\ addr[b] \in Addr
    BY DEF TypeOK
  <2>6. now <= s.until
    BY <2>1, <2>4, <2>5
  <2>7. c.bind_ip => s.bind /\ s.ip = addr[b]
    BY <2>1, <2>4, <2>5, AddrAssumption
  <2> QED
    BY <2>1, <2>4, <2>6, <2>7
<1> QED
  BY <1>1, SessionInvariant, PTL

(* Whoever has solved the captcha passes verify_and_validate until the     *)
(* session is over.                                                        *)
THEOREM SolvedAreHonoured == Spec => []SolvedHonoured
<1>1. SessionInv => SolvedHonoured
  <2> SUFFICES ASSUME TypeOK, EarnedHeld, NEW b \in Browsers, earned[b] # None,
                      now <= earned[b].until, earned[b].at <= now + Leeway
               PROVE  captcha_session_valid(b, earned[b].conf)
    BY SessionInvParts DEF SolvedHonoured
  <2> DEFINE c == earned[b].conf
             token == jar[b][c.cookie_name]
  <2>1. token = EarnedToken(b)
    BY DEF EarnedHeld
  <2>2. /\ now \in Nat /\ Leeway \in Nat /\ earned[b].until \in Nat /\ earned[b].at \in Nat
        /\ c \in Configs /\ c.cookie_name \in Names /\ addr[b] \in Addr
    BY ConfigAssumption, SessionBoundAssumption DEF TypeOK
  <2>3. /\ token.exp = earned[b].until /\ token.iat = earned[b].at
        /\ token.key = c.signing_key
        /\ c.bind_ip => token.sub = addr[b]
    BY <2>1 DEF EarnedToken
  <2>4. verify_and_validate(token, c, addr[b])
    BY <2>2, <2>3 DEF verify_and_validate, verify_token
  <2>5. EarnedToken(b) \in Token
    BY <2>2, ConfigAssumption DEF EarnedToken, Token
  <2>6. token # None
    BY <2>1, <2>5, NoneAssumption
  <2> QED
    BY <2>4, <2>6 DEF captcha_session_valid, get_cookie
<1> QED
  BY <1>1, SessionInvariant, PTL
=============================================================================
