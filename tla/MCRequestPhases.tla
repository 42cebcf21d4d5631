--------------------------- MODULE MCRequestPhases ---------------------------
(* Instances of RequestPhases: every request of interest in every location *)
(* configuration that validate_enforcement accepts.                        *)
EXTENDS RequestPhases

Off ==
  [enabled |-> FALSE, bypass |-> FALSE, appsec |-> TRUE, url |-> TRUE, always |-> TRUE,
   deny |-> TRUE, drop_unreadable |-> FALSE, bot_challenge |-> TRUE, captcha |-> "on",
   fail_open |-> FALSE, block |-> TRUE, status403 |-> TRUE]

Bypassed == [Off EXCEPT !.enabled = TRUE, !.bypass = TRUE]

(* Of the settings that make no difference one value is enough.            *)
Accepted(c) ==
  /\ validate_enforcement(c)
  /\ c.captcha # "on" => ~c.fail_open
  /\ ~c.appsec => ~c.always /\ ~c.deny /\ ~c.drop_unreadable /\ ~c.bot_challenge /\ c.url

(* Locations on: with and without AppSec, every failure policy.            *)
MCConfs ==
  {Off, Bypassed} \union
  {c \in LocConfig : c.enabled /\ ~c.bypass /\ Accepted(c)}

Get ==
  [post |-> FALSE, body |-> "none", form |-> FALSE, static |-> FALSE, session |-> FALSE,
   challenge |-> FALSE, broken |-> FALSE]
Form == [Get EXCEPT !.post = TRUE, !.body = "small", !.form = TRUE]

MCRequests ==
  {Get, [Get EXCEPT !.session = TRUE], [Get EXCEPT !.static = TRUE],
   [Get EXCEPT !.challenge = TRUE], [Get EXCEPT !.static = TRUE, !.challenge = TRUE],
   Form, [Form EXCEPT !.challenge = TRUE], [Form EXCEPT !.session = TRUE],
   [Form EXCEPT !.form = FALSE], [Form EXCEPT !.body = "big"],
   [Form EXCEPT !.body = "chunked"], [Form EXCEPT !.broken = TRUE],
   [Form EXCEPT !.form = FALSE, !.broken = TRUE]}
=============================================================================
