-------------------------- MODULE MCCaptchaSession --------------------------
(* An instance of CaptchaSession: a configuration, one with a new key and  *)
(* cookie name, one with a new key only, and one of the old key that does  *)
(* not bind sessions to addresses.                                         *)
EXTENDS CaptchaSession, TLC

Bound == [signing_key |-> "k1", cookie_name |-> "n", bind_ip |-> TRUE, expiry_secs |-> 1]
MCConfigs ==
  {Bound, [Bound EXCEPT !.signing_key = "k2"], [Bound EXCEPT !.cookie_name = "m"],
   [Bound EXCEPT !.bind_ip = FALSE, !.expiry_secs = 2]}

BrowserSymmetry == Permutations(Browsers)
=============================================================================
