---------------------------- MODULE Configuration ----------------------------
(***************************************************************************)
(* From nginx.conf to the settings a worker serves with (src/config.rs,    *)
(* src/lib.rs, DecisionsSharedZone of src/shm.rs): directives, inheritance *)
(* and validation, the statics that postconfiguration leaves in the master *)
(* and every worker gets a copy of when it is forked, and reloads, which   *)
(* may be refused or fail late, while workers die and are forked again.    *)
(*                                                                         *)
(* External: nginx reads the directives in order and stops at the first    *)
(* error; merges each context with the enclosing one; calls                *)
(* postconfiguration; may then still fail, for a reason of its own, and    *)
(* go on with the old cycle, destroying the new one.                       *)
(*                                                                         *)
(* Left out: warnings, and directives that differ from a modelled one of   *)
(* the same kind only in name and range.                                   *)
(***************************************************************************)
EXTENDS ClientAddress

CONSTANTS
  Texts,         \* configuration files: sequences of directives
  Unset, Off, Invalid,
  MaxReloads,    \* bound on reloads
  MaxEdits,      \* bound on edits of the page template
  Paths,         \* what hops a request may come through
  Claims         \* what a client may write into a forwarded header

(* Contexts, each enclosed in the one before; 0 holds MainConfig.          *)
Http == 1
Server == 2
Location == 3
Nested == 4
Contexts == Http .. Nested

Month == 2592000    \* the longest captcha session, in seconds
NoText == ""

(* What the handlers accept: numbers, choices, flags, texts, lists, files. *)
Numbers ==
  [max_retries |-> 1 .. 100, retry_interval_secs |-> 1 .. 3600,
   poll_interval_secs |-> 1 .. 3600, lapi_timeout_secs |-> 1 .. 600,
   usage_metrics_interval_secs |-> {0} \union 600 .. 86400, appsec_timeout_ms |-> 1 .. 30000,
   appsec_max_body_size |-> Nat \ {0},
   ban_redirect_code |-> {301, 302, 303, 307, 308}, ban_status |-> 400 .. 599,
   captcha_expiry_secs |-> 1 .. Month]
Keywords ==
  [fallback_remediation |-> {"allow", "ban", "captcha"},
   ban_action |-> {"block", "redirect"}, unenforceable_action |-> {"allow", "block"},
   captcha_provider |-> {"hcaptcha", "turnstile", "recaptcha"},
   captcha_cookie_secure |-> {"auto", "on", "off"},
   appsec_failure_action |-> {"passthrough", "deny"}]
NetworkLists == {"trusted_proxies", "bypass_cidrs"}
Lists == NetworkLists \union {"static_asset_extensions"}
Templates == {"ban_template", "captcha_template"}

(* Fields by the handlers that set them.                                   *)
Flags == {"enabled", "metrics_enabled", "captcha_fail_open", "captcha_bind_ip"}
LapiFields ==
  {"lapi_url", "api_key", "max_retries", "retry_interval_secs", "poll_interval_secs",
   "lapi_timeout_secs", "usage_metrics_interval_secs"}
BanFields == {"ban_action", "ban_redirect_url", "ban_redirect_code", "ban_status"}
CaptchaKeys ==
  {"captcha_provider", "captcha_site_key", "captcha_secret_key", "captcha_signing_key"}
CaptchaFields == CaptchaKeys \union {"captcha_cookie_name", "captcha_expiry_secs"}
PolicyFields == {"unenforceable_action", "fallback_remediation", "captcha_cookie_secure"}
AppSecMain == {"appsec_url", "appsec_api_key", "appsec_timeout_ms", "appsec_max_body_size",
               "drop_unreadable_body"}
AppSecLoc == {"appsec_enabled", "appsec_always", "appsec_failure_action", "bot_challenge_enabled"}

MainFields ==
  LapiFields \union AppSecMain \union NetworkLists \union
  {"fallback_remediation", "shm_size", "real_ip_header"}
LocFields ==
  Flags \union BanFields \union CaptchaFields \union AppSecLoc \union Templates \union
  {"unenforceable_action", "captcha_cookie_secure", "static_asset_extensions"}

Directive(d) ==
  /\ DOMAIN d = {"context", "field", "value"}
  /\ \/ d.context = 0 /\ d.field \in MainFields
     \/ d.context \in Contexts /\ d.field \in LocFields
     \* crowdsec_metrics is for locations only
  /\ d.field = "metrics_enabled" => d.context \in {Location, Nested}
  /\ d.value # Unset
  /\ d.field \in NetworkLists => Range(d.value) \subseteq Network \union {Off, Invalid}

ASSUME TextsAssumption ==
  \A text \in Texts :
    /\ Len(text) \in Nat /\ DOMAIN text = 1 .. Len(text)
    /\ \A i \in 1 .. Len(text) : Directive(text[i])
ASSUME ConfigBoundAssumption == MaxReloads \in Nat /\ MaxEdits \in Nat
ASSUME RequestsAssumption ==
  Paths \subseteq Seq(Address) \ {<<>>} /\ Claims \subseteq Seq(Token)

VARIABLES
  page,       \* the text of the template file on disk; 0: it cannot be read
  cache,      \* TEMPLATE_CACHE of the master; 0: nothing cached
  cycle,      \* the running cycle: its number, file, MainConfig and LocConfigs
  statics,    \* GLOBAL_CONFIG, appsec::CONFIG and SHM_ZONE of the master
  late,       \* auxiliary: the last reload failed after postconfiguration
  workers,    \* the kinds of workers that run
  reloads, edits

vars == <<page, cache, cycle, statics, late, workers, reloads, edits>>

-----------------------------------------------------------------------------
(* Directives.  The state of reading is what has been set in each context, *)
(* the template cache and whether all is well.                             *)

Fields(c) == IF c = 0 THEN MainFields ELSE LocFields
EmptyConfs ==
  [c \in 0 .. Nested |-> [f \in Fields(c) |-> IF f \in NetworkLists THEN {} ELSE Unset]]

(* An option is a set of one value or none.                                *)
None == {}
OrElse(value, default) == IF value = Unset THEN default ELSE value

Refuse(st) == [st EXCEPT !.ok = FALSE]
Store(st, d, value) == [st EXCEPT !.confs[d.context][d.field] = value]
StoreIf(st, d, accepted) == IF accepted THEN Store(st, d, d.value) ELSE Refuse(st)

(* A number in its range, one of the choices, a flag or text that is there *)
(* and well formed.                                                        *)
WellFormed(d) ==
  CASE d.field \in DOMAIN Numbers -> d.value \in Numbers[d.field]
    [] d.field \in DOMAIN Keywords -> d.value \in Keywords[d.field]
    [] OTHER -> d.value \notin {NoText, Invalid}

(* set_flag_on_off                                                         *)
set_flag_on_off(st, d) == StoreIf(st, d, d.value \in {TRUE, FALSE})

(* A slip: numbers are taken as they are.                                  *)
set_lapi_Unchecked(st, d) == StoreIf(st, d, d.value # Invalid)

(* crowdsec_url to crowdsec_lapi_timeout.                                  *)
set_lapi(st, d) == StoreIf(st, d, WellFormed(d))

(* crowdsec_shm_size requests the zone at once (configure, request): a     *)
(* second size is an error.                                                *)
set_shm_size(st, d) ==
  StoreIf(st, d, WellFormed(d) /\ st.confs[0].shm_size \in {Unset, d.value})

(* off empties the list, anything else is appended to what is there; off   *)
(* among others is an error.                                               *)
ExtendList(st, d, list) ==
  IF d.value = <<Off>> THEN Store(st, d, {})
  ELSE IF {Off, Invalid} \intersect Range(d.value) # {} THEN Refuse(st)
  ELSE Store(st, d, list \union Range(d.value))

(* A slip: off adds nothing and removes nothing.                           *)
set_trusted_proxies_Off(st, d) ==
  IF d.value = <<Off>> THEN st ELSE ExtendList(st, d, st.confs[d.context][d.field])

set_trusted_proxies(st, d) == ExtendList(st, d, st.confs[d.context][d.field])
set_bypass(st, d) == ExtendList(st, d, st.confs[d.context][d.field])
set_static_extensions(st, d) == ExtendList(st, d, OrElse(st.confs[d.context][d.field], {}))

set_real_ip_header(st, d) == StoreIf(st, d, WellFormed(d))

(* crowdsec_captcha_template, and crowdsec_ban_template: the file is read  *)
(* once and cached for the life of the master.                             *)
set_template(st, d) ==
  LET template == IF st.cache = 0 THEN page ELSE st.cache
  IN  IF template = 0 THEN Refuse(st)
      ELSE [st EXCEPT !.cache = template, !.confs[d.context][d.field] = template]

(* crowdsec_ban_action to crowdsec_ban_status.                             *)
set_ban(st, d) == StoreIf(st, d, WellFormed(d))

(* crowdsec_captcha_provider to crowdsec_captcha_expiry.                   *)
set_captcha(st, d) == StoreIf(st, d, WellFormed(d))

(* crowdsec_unenforceable_action, crowdsec_fallback_remediation and        *)
(* crowdsec_captcha_cookie_secure.                                         *)
set_policy(st, d) == StoreIf(st, d, WellFormed(d))

(* appsec_setter                                                           *)
set_appsec(st, d) == StoreIf(st, d, WellFormed(d))

(* The handler of a directive (NGX_HTTP_CROWDSEC_COMMANDS).                *)
handler(st, d) ==
  CASE d.field \in Flags -> set_flag_on_off(st, d)
    [] d.field \in LapiFields -> set_lapi(st, d)
    [] d.field = "shm_size" -> set_shm_size(st, d)
    [] d.field = "trusted_proxies" -> set_trusted_proxies(st, d)
    [] d.field = "bypass_cidrs" -> set_bypass(st, d)
    [] d.field = "static_asset_extensions" -> set_static_extensions(st, d)
    [] d.field = "real_ip_header" -> set_real_ip_header(st, d)
    [] d.field \in Templates -> set_template(st, d)
    [] d.field \in BanFields -> set_ban(st, d)
    [] d.field \in CaptchaFields -> set_captcha(st, d)
    [] d.field \in PolicyFields -> set_policy(st, d)
    [] d.field \in AppSecMain \union AppSecLoc -> set_appsec(st, d)

(* The file is read up to the first error.                                 *)
Read(text, cached) ==
  LET read[n \in 0 .. Len(text)] ==
        IF n = 0 THEN [ok |-> TRUE, confs |-> EmptyConfs, cache |-> cached]
        ELSE IF read[n - 1].ok THEN handler(read[n - 1], text[n])
        ELSE read[n - 1]
  IN  read[Len(text)]

-----------------------------------------------------------------------------
(* Inheritance.                                                            *)

(* captcha_config: None unless all is there; a key of zeros is no key.     *)
captcha_config(conf) ==
  IF (\E f \in CaptchaKeys : conf[f] = Unset) \/ conf.captcha_signing_key = "zeros" THEN None
  ELSE {[signing_key |-> conf.captcha_signing_key,
         cookie_name |-> OrElse(conf.captcha_cookie_name, "crowdsec_captcha"),
         expiry_secs |-> OrElse(conf.captcha_expiry_secs, 3600),
         fail_open |-> OrElse(conf.captcha_fail_open, TRUE),
         bind_ip |-> OrElse(conf.captcha_bind_ip, TRUE)]}

validate_enforcement(conf) ==
  conf.enabled = TRUE =>
    /\ conf.ban_action = "redirect" => conf.ban_redirect_url # Unset
    /\ ~(captcha_config(conf) # None /\ conf.captcha_template = Unset
         /\ conf.unenforceable_action = "block")

(* A slip: a metrics location makes its children metrics locations.        *)
merge_from_Metrics(conf, prev) ==
  [f \in LocFields |-> IF conf[f] # Unset THEN conf[f] ELSE prev[f]]

merge_from(conf, prev) ==
  [f \in LocFields |->
    IF conf[f] # Unset \/ f = "metrics_enabled" THEN conf[f] ELSE prev[f]]

(* merge_loc_conf of each context with the merged one around it, from the  *)
(* outermost: the contexts in which a request may be served.               *)
Merged(confs) ==
  LET merged[c \in Contexts] ==
        IF c = Http THEN confs[Http] ELSE merge_from(confs[c], merged[c - 1])
  IN  [c \in Server .. Nested |-> merged[c]]

-----------------------------------------------------------------------------
(* The statics.                                                            *)

StreamClientConfig(main) ==
  IF main.lapi_url = Unset \/ main.api_key = Unset THEN None
  ELSE {[url |-> main.lapi_url, api_key |-> main.api_key,
         poll_interval_secs |-> OrElse(main.poll_interval_secs, 10),
         timeout_secs |-> OrElse(main.lapi_timeout_secs, 30),
         max_retries |-> OrElse(main.max_retries, 3),
         retry_interval_secs |-> OrElse(main.retry_interval_secs, 5),
         usage_metrics_interval_secs |-> OrElse(main.usage_metrics_interval_secs, 900),
         fallback_remediation |-> OrElse(main.fallback_remediation, "allow")]}

AppSecConfig(main) ==
  IF main.appsec_url = Unset THEN None
  ELSE {[url |-> main.appsec_url,
         api_key |-> OrElse(main.appsec_api_key, OrElse(main.api_key, NoText)),
         timeout_ms |-> OrElse(main.appsec_timeout_ms, 1000),
         max_body_size |-> OrElse(main.appsec_max_body_size, 10 * 1024 * 1024),
         drop_unreadable_body |-> OrElse(main.drop_unreadable_body, FALSE)]}

(* A slip: what is not configured any more is left as it was.              *)
postconfiguration_Keep(old, main, n) ==
  [global |-> IF StreamClientConfig(main) = None THEN old.global ELSE StreamClientConfig(main),
   appsec |-> IF AppSecConfig(main) = None THEN old.appsec ELSE AppSecConfig(main),
   zone |-> n]

(* postconfiguration of cycle n: GLOBAL_CONFIG, appsec::configure, and the *)
(* zone, a structure of the new cycle (DecisionsSharedZone::finalize).     *)
postconfiguration(old, main, n) ==
  [global |-> StreamClientConfig(main), appsec |-> AppSecConfig(main), zone |-> n]

NewCycle(n, text, st) ==
  [number |-> n, file |-> text, locs |-> Merged(st.confs), main |-> st.confs[0]]

(* A worker: the cycle it was forked in and the master's statics.          *)
Worker(c, s, l) == [cycle |-> c, statics |-> s, late |-> l]

(* get_client_ip: with the trusted proxies and the header of MainConfig.   *)
get_client_ip(main, socket_ip, headers) ==
  get_effective_client_ip(socket_ip, main.trusted_proxies,
                          headers[OrElse(main.real_ip_header, "X-Forwarded-For")])

-----------------------------------------------------------------------------
(* A slip: settings are validated before they are inherited.               *)
Accepted_Alone(st) == st.ok /\ \A c \in Server .. Nested : validate_enforcement(st.confs[c])

(* No directive and no merge_loc_conf has failed.                          *)
Accepted(st) == st.ok /\ \A c \in Server .. Nested : validate_enforcement(Merged(st.confs)[c])

(* nginx starts with a file it accepts.                                    *)
Init ==
  /\ page = 1
  /\ \E text \in Texts :
       LET st == Read(text, 0)
       IN  /\ Accepted(st)
           /\ cycle = NewCycle(0, text, st)
           /\ cache = st.cache
  /\ statics = postconfiguration([global |-> None, appsec |-> None, zone |-> None], cycle.main, 0)
  /\ late = FALSE
  /\ workers = {Worker(cycle, statics, FALSE)}
  /\ reloads = 0 /\ edits = 0

Reload == reloads < MaxReloads /\ reloads' = reloads + 1

(* nginx refuses the file: of what was read the template cache remains.    *)
ReloadRefused(text) ==
  /\ Reload
  /\ ~Accepted(Read(text, cache))
  /\ cache' = Read(text, cache).cache
  /\ UNCHANGED <<page, cycle, statics, late, workers, edits>>

(* postconfiguration is done when nginx fails: the statics stay.           *)
ReloadFailsLate(text) ==
  /\ Reload
  /\ Accepted(Read(text, cache))
  /\ cache' = Read(text, cache).cache
  /\ statics' = postconfiguration(statics, NewCycle(reloads', text, Read(text, cache)).main, reloads')
  /\ late' = TRUE
  /\ UNCHANGED <<page, cycle, workers, edits>>

(* The new cycle runs; the workers of the old one finish their requests.   *)
ReloadCommits(text) ==
  /\ Reload
  /\ Accepted(Read(text, cache))
  /\ cache' = Read(text, cache).cache
  /\ cycle' = NewCycle(reloads', text, Read(text, cache))
  /\ statics' = postconfiguration(statics, cycle'.main, reloads')
  /\ late' = FALSE
  /\ workers' = workers \union {Worker(cycle', statics', FALSE)}
  /\ UNCHANGED <<page, edits>>

(* A worker has died; the master forks another, which calls init_worker.   *)
Respawn ==
  /\ workers' = workers \union {Worker(cycle, statics, late)}
  /\ UNCHANGED <<page, cache, cycle, statics, late, reloads, edits>>

(* The workers of an older cycle have ended.                               *)
Retire(w) ==
  /\ w.cycle.number # cycle.number
  /\ workers' = workers \ {w}
  /\ UNCHANGED <<page, cache, cycle, statics, late, reloads, edits>>

(* The template file is written, or removed.                               *)
EditPage ==
  /\ edits < MaxEdits /\ edits' = edits + 1
  /\ page' \in {0, page + 1}
  /\ UNCHANGED <<cache, cycle, statics, late, workers, reloads>>

Next ==
  \/ \E text \in Texts : ReloadRefused(text) \/ ReloadFailsLate(text) \/ ReloadCommits(text)
  \/ Respawn \/ EditPage
  \/ \E w \in workers : Retire(w)

Spec == Init /\ [][Next]_vars

-----------------------------------------------------------------------------
(* What a text says: the directives of field f in context c, and the value *)
(* of f that is in force in c, from the nearest context that sets it.      *)
Set(text, c, f) == {i \in DOMAIN text : text[i].context = c /\ text[i].field = f}

InForce(text, c, f) ==
  LET around == IF f = "metrics_enabled" THEN {c} ELSE Http .. c
      setters == {e \in around : Set(text, e, f) # {}}
  IN  IF setters = {} THEN Unset ELSE text[Max(Set(text, Max(setters), f))].value

(* The members of a list: what is listed after the last off.               *)
Listed(text, c, f) ==
  LET offs == {i \in Set(text, c, f) : text[i].value = <<Off>>}
      kept == {i \in Set(text, c, f) : \A j \in offs : i > j}
  IN  UNION {Range(text[i].value) : i \in kept}

(* Every worker has settings it can serve with: a poller has a URL and a   *)
(* key and pauses between polls and retries, a captcha session has a key   *)
(* and ends (the assumption CaptchaSession makes of its configurations).   *)
TypeOK ==
  /\ page \in Nat /\ cache \in Nat
  /\ late \in BOOLEAN /\ reloads \in 0 .. MaxReloads /\ edits \in 0 .. MaxEdits
  /\ cycle.number \in 0 .. MaxReloads /\ cycle.file \in Texts
  /\ Worker(cycle, statics, late).cycle \in {w.cycle : w \in workers}
  /\ \A w \in workers :
       /\ w.late \in BOOLEAN /\ w.statics.zone \in 0 .. MaxReloads
       /\ \A lapi \in w.statics.global :
            /\ {lapi.poll_interval_secs, lapi.retry_interval_secs} \subseteq 1 .. 3600
            /\ lapi.max_retries \in 1 .. 100
            /\ {lapi.url, lapi.api_key} \intersect {NoText, Unset} = {}
       /\ w.cycle.main.trusted_proxies \union w.cycle.main.bypass_cidrs \subseteq Network
       /\ \A c \in Server .. Nested :
            \A captcha \in captcha_config(w.cycle.locs[c]) :
              /\ captcha.expiry_secs \in 1 .. Month
              /\ captcha.bind_ip \in BOOLEAN /\ captcha.signing_key # "zeros"

(* In every worker, old, new or forked again, each setting of a location   *)
(* is the one of the nearest context that sets it, the last of them if     *)
(* there are several; crowdsec_metrics is not inherited.                   *)
SettingsAsWritten ==
  \A w \in workers : \A c \in Server .. Nested :
    \A f \in LocFields \ (Templates \union Lists) :
      w.cycle.locs[c][f] = InForce(w.cycle.file, c, f)

(* No worker serves a location that bans by a redirect to nowhere, or that *)
(* is to block captchas it has keys and no page for, wherever in the file  *)
(* the parts of that are set.  It is the assumption RequestPhases makes of *)
(* its configurations.                                                     *)
ServedEnforceable ==
  \A w \in workers : \A c \in Server .. Nested :
    LET value(f) == InForce(w.cycle.file, c, f)
    IN  value("enabled") = TRUE =>
          /\ value("ban_action") = "redirect" => value("ban_redirect_url") # Unset
          /\ /\ \A f \in CaptchaKeys : value(f) # Unset
             /\ value("captcha_signing_key") # "zeros"
             /\ value("unenforceable_action") = "block"
             => w.cycle.locs[c].captcha_template # Unset

(* A worker polls, inspects and looks up with what its own cycle was       *)
(* configured with, however many reloads were refused or committed before  *)
(* it was forked; it is not so of a worker that is forked after a reload   *)
(* that failed after postconfiguration.                                    *)
StaticsOfCycle ==
  \A w \in workers : ~w.late =>
    /\ w.statics.zone = w.cycle.number
    /\ w.statics.global # None <=>
         Set(w.cycle.file, 0, "lapi_url") # {} /\ Set(w.cycle.file, 0, "api_key") # {}
    /\ w.statics.global = StreamClientConfig(w.cycle.main)
    /\ w.statics.appsec = AppSecConfig(w.cycle.main)

(* Behind proxies that append to the line they are given, the address a    *)
(* request is held to is the one of the nearest hop that is no trusted     *)
(* proxy of the configuration file, or, if that line is no UTF-8 text, the *)
(* one of the peer: never an address the client has made up.  Behind       *)
(* proxies that add lines of their own that is so if the client has        *)
(* written none and is the only hop not trusted: the first line is read.   *)
(* And it is bypassed just if it is in the file's bypass list.             *)
ClientFromHops ==
  \A w \in workers : \A hops \in Paths :
    LET text == w.cycle.file
        main == w.cycle.main
        trusted == Listed(text, 0, "trusted_proxies")
        name == IF Set(text, 0, "real_ip_header") = {} THEN "X-Forwarded-For"
                ELSE text[Max(Set(text, 0, "real_ip_header"))].value
    IN  Untrusted(hops, trusted) # {} =>
          \A sent \in Claims, joined \in BOOLEAN :
            LET client == get_client_ip(main, Socket(hops), Headers(name, sent, hops, joined))
                hop == IF NotUtf8 \in Range(sent) THEN canonicalize_ip(Socket(hops))
                       ELSE NearestUntrusted(hops, trusted)
            IN  joined \/ (sent = <<>> /\ Untrusted(hops, trusted) = {1}) =>
                  /\ client = hop
                  /\ ip_in_cidr_list(client, main.bypass_cidrs) <=>
                       \E net \in Listed(text, 0, "bypass_cidrs") : contains(net, hop)
=============================================================================
