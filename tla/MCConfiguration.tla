--------------------------- MODULE MCConfiguration ---------------------------
(* An instance of Configuration: every setting in every context, set again *)
(* in one, refused, and missing; lists that are appended to and emptied.   *)
EXTENDS Configuration

D(c, f, v) == [context |-> c, field |-> f, value |-> v]

Lan == [family |-> 4, bits |-> 2, len |-> 1]
Guests == [family |-> 4, bits |-> 1, len |-> 2]
Proxy6 == [family |-> 6, bits |-> 1, len |-> 2]

Lapi == <<D(0, "lapi_url", "u1"), D(0, "api_key", "k1")>>
Trusted(list) == <<D(0, "trusted_proxies", list)>>

Provider(c) ==
  <<D(c, "captcha_provider", "turnstile"), D(c, "captcha_site_key", "s"), D(c, "captcha_secret_key", "t")>>
Key(c, k) == <<D(c, "captcha_signing_key", k)>>
Page(c) == <<D(c, "captcha_template", "page")>>
On(c) == <<D(c, "enabled", TRUE)>>
Block(c) == <<D(c, "unenforceable_action", "block")>>
Redirect(c) == <<D(c, "ban_action", "redirect")>>
Url(c) == <<D(c, "ban_redirect_url", "r")>>

MCTexts ==
  { \* accepted
    <<>>,
    Lapi \o Redirect(Server) \o On(Location) \o Url(Location),
    Lapi \o <<D(0, "lapi_url", "u2"), D(0, "poll_interval_secs", 3600)>>
         \o On(Http) \o <<D(Server, "enabled", FALSE)>> \o On(Nested),
    SubSeq(Lapi, 1, 1) \o On(Location) \o <<D(Location, "metrics_enabled", TRUE)>>,
    Lapi \o <<D(0, "appsec_url", "a1")>> \o Block(Http) \o Provider(Http) \o Key(Server, "k")
         \o Page(Server) \o On(Location) \o Key(Nested, "zeros"),
    <<D(0, "appsec_url", "a1"), D(0, "appsec_api_key", "k2")>>
         \o On(Http) \o Block(Server) \o Provider(Server) \o Key(Location, "k") \o Page(Location),
    Trusted(<<Lan>>) \o On(Http) \o Block(Server) \o Provider(Server) \o Key(Location, "zeros"),
    Trusted(<<Lan>>) \o Trusted(<<Proxy6>>) \o <<D(0, "real_ip_header", "X-Client")>>
         \o <<D(0, "bypass_cidrs", <<Lan>>), D(0, "bypass_cidrs", <<Off>>),
             D(0, "bypass_cidrs", <<Guests>>)>>,
    Trusted(<<Lan>>) \o Trusted(<<Off>>) \o Trusted(<<Proxy6>>),
    <<D(0, "shm_size", "1m"), D(0, "shm_size", "1m")>> \o Trusted(<<Lan, Proxy6>>)
         \o <<D(Nested, "enabled", TRUE), D(Nested, "enabled", FALSE)>>,
    \* refused
    Lapi \o <<D(0, "poll_interval_secs", 0)>>,
    <<D(0, "shm_size", "1m"), D(0, "shm_size", "2m")>>,
    Trusted(<<Lan, Off>>),
    On(Http) \o Redirect(Server) \o Url(Location),
    On(Http) \o Block(Server) \o Provider(Server) \o Key(Location, "k") \o Page(Nested),
    Page(Server) \o <<D(Nested, "appsec_enabled", Invalid)>> }

Ip(f, b) == [family |-> f, bits |-> b, mapped |-> FALSE]
Mapped(b) == [family |-> 6, bits |-> b, mapped |-> TRUE]

MCPaths ==
  {<<Ip(4, 0)>>, <<Ip(4, 2)>>, <<Mapped(2)>>, <<Ip(6, 1)>>,
   <<Ip(4, 0), Ip(4, 2)>>, <<Ip(6, 0), Mapped(3)>>, <<Mapped(1), Ip(4, 3), Ip(6, 1)>>,
   <<Ip(4, 1), Ip(6, 1), Ip(4, 2)>>}
MCClaims ==
  {<<>>, <<Ip(4, 1)>>, <<Unreadable>>, <<Ip(4, 2), Unreadable>>, <<Ip(6, 3), Mapped(3)>>,
   <<NotUtf8>>, <<Ip(4, 1), NotUtf8>>}
=============================================================================
