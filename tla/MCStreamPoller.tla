--------------------------- MODULE MCStreamPoller ---------------------------
(* Instances of StreamPoller for TLC.                                      *)
EXTENDS StreamPoller, TLC

Live(v, t) == [value |-> v, type |-> t, simulated |-> FALSE]

ValuesOf ==
  "10.0.0.1" :> "ip" @@ "::ffff:10.0.0.1" :> "ip" @@ "10.0.0.0/8" :> "range" @@ "host" :> "none"

(* An address written in two ways, another type of it, a simulated         *)
(* decision beside a real one of the same row, a value that is no address, *)
(* and an unknown type.                                                    *)
Mixed == {Live("10.0.0.1", "ban"), Live("::ffff:10.0.0.1", "ban"),
          Live("10.0.0.1", "captcha"), Live("host", "ban"), Live("10.0.0.0/8", "mfa"),
          [value |-> "10.0.0.1", type |-> "captcha", simulated |-> TRUE]}
=============================================================================
