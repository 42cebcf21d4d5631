# A TLA+ verification of ngx_http_crowdsec_module

The module makes an nginx server enforce the decisions of a CrowdSec engine.
A polling thread copies decisions (ban, captcha) from the engine's local API
(LAPI) into shared memory; every worker looks its clients up there, applies the
remediation, and may have requests inspected by AppSec before they reach the
origin. This directory models the parts of it that several processes, threads or
callbacks work on at the same time, checks them with TLC on small instances, and
proves their safety properties with TLAPS for every instance.

Paths below are relative to the root of the repository (`src/shm.rs` is the file
`src/shm.rs` of the crate).

## 1. Inventory

| Component | State it keeps | Operations | What is hard | What makes it correct |
|---|---|---|---|---|
| Decision cache (`src/shm.rs`, `src/expiry.rs`) | hash table with tombstones, count, clock hand, prefix bitmap, scenario table, in shared memory | add, remove, clear, evict, look up; for addresses and ranges | long sequences of legal calls on a small or full table; reserved values (hash 0 and 1, deadline 0) | a lookup answers what is in force; nothing in force is lost before the table is full |
| Poller election (`src/shm.rs`, `src/lib.rs`) | `poller_pid`, the read-write lock word, `IS_POLLER` of each process | claim, take over, release, reset the lock, reuse the zone on reload | kills between two atomic instructions, reload beside living workers | one poller; the lock word says who is inside; after a kill someone polls again |
| Stream poller (`src/stream.rs`) | none of its own: the batch in hand, the attempt | initial sync with retries, delta polls, applying a batch, reading durations | lost answers, kills in a batch, takeovers; LAPI remembers what it told; decisions that share a row; delays and rounding | the cache equals what LAPI decided, never drops what stays in force during a delta, and ends what LAPI ends |
| Usage metrics (`src/usage_metrics.rs`) | lock-free buckets in shared memory | count, snapshot, upload, subtract | races for a bucket, counting during an upload | no count lost or uploaded twice |
| Request phases (`src/handler.rs`, `src/appsec.rs`, `src/captcha/body.rs`, `src/thread_task.rs`, `src/request_body.rs`) | a context in the request's module slot | ACCESS, PRECONTENT, body callbacks, completions of thread-pool tasks | phases run again, results applied later, decisions that change, clients that leave, failing sends and reads | a ban holds, an AppSec block holds, nothing passes uninspected, every request ends |
| Configuration (`src/config.rs`, `src/lib.rs`, `src/conf/`) | the settings of each cycle; statics and a template cache in the master, copied by every fork | directives, inheritance, validation, postconfiguration, reload | parts of one setting in different contexts; reloads that are refused or fail late while workers are forked again | a worker serves with what its file says, and refuses what it cannot enforce |
| Captcha session (`src/captcha/`) | a signed token in the client's cookie; the context of a POST | begin a verification, complete it, check a session, clear a stale cookie | reloads, moves, copied cookies and clock steps between these | a session is worth what was solved; what was solved is honoured |
| Client address (`src/realip.rs`) | none | resolve a forwarded chain | headers that the client began | no client chooses the address it is held to |
| Metrics page, templates, logging, LAPI client settings | single atomic counters, or none | render, print | none | - |

How they interact: the poller thread of every worker runs `run_polling_loop`
(election, then polls) and is the only writer of the decision cache; request
handlers of all workers read it under the read lock; handlers count requests in
the usage buckets, which the poller uploads; `exit_worker` stops and joins the
thread, flushes the counters and releases the claim; on reload the master runs
the zone initialisers on memory that living workers use, and postconfiguration
sets statics that every later fork inherits.

`PROJECT.json` lists the hazards of this code, each at its line with the
properties that would catch it.

## 2. Modules

| Module | Models | Checked by |
|---|---|---|
| `DecisionExpiry` | `src/expiry.rs`, `DecisionType` | through `DecisionCache`, `DecisionLifetime` |
| `DecisionStore` | the abstract promise of the cache: per key and remediation, until when and by whom | refined by `DecisionCache` |
| `DecisionCache` | the table in `src/shm.rs` | `MCDecisionCache`, `DecisionCacheProofs` |
| `DecisionLifetime` | one decision from LAPI's text to the handler's clock: `parse_duration`, the deadline, the merge, the expiry | `MCDecisionLifetime`, `DecisionLifetimeProofs` |
| `PollerElection` | `poller_pid`, the lock word, worker life, zone reuse | `MCPollerElection`, `PollerElectionProofs` |
| `StreamPoller` | `src/stream.rs` against an external LAPI | `MCStreamPoller`, `StreamPollerProofs` |
| `UsageMetrics` | `src/usage_metrics.rs` | `MCUsageMetrics`, `UsageMetricsProofs` |
| `RequestPhases` | one request through handlers, callbacks and tasks | `MCRequestPhases`, `RequestPhasesProofs` |
| `CaptchaSession` | `src/captcha/`: tokens, cookies, the POST that earns one | `MCCaptchaSession`, `CaptchaSessionProofs` |
| `ClientAddress` | `src/realip.rs`, and the hops a request came through | extended by `Configuration` |
| `Configuration` | `src/config.rs`, `src/lib.rs`: from nginx.conf to what a worker serves with | `MCConfiguration`, `ConfigurationProofs` |

Operators and actions keep the names of the functions they translate; the map
in `PROJECT.json` gives the lines of each. Operators whose comment begins with
"A slip" are deliberate mutations of the definition that follows; no
specification uses them.

**How the modules fit together.** `DecisionCache` makes every operation one step
because it runs under the zone's lock. That the lock gives this, unless it is
set to 0 under one who is inside, is `LockAccounted` of `PollerElection`.
`StreamPoller` uses the cache as a set of remediations, one call per step, which
is what `ImplementsStore` says a handler sees (without ends of decisions).
`DecisionLifetime` adds the ends: it composes the row of one key, with the same
`DecisionExpiry` as the cache, with the poller, LAPI and their clock.
`RequestPhases` sees of all this one variable, `decision`, which changes at any
time, and of sessions one field, `session`; what makes a session valid is
`CaptchaSession`. `Configuration` composes `ClientAddress` with the settings it
reads, and discharges what others assume of theirs: `ServedEnforceable` is the
assumption of `RequestPhases` (`validate_enforcement`), `TypeOK` that of
`CaptchaSession` (a key, a length of at least a second).

**DecisionCache.** `entries`, `count`, `clock_hand`, `eviction_count`,
`cidr_prefixes` and `scenarios` are the fields of `ShmData`. A row's key is the
address with family and prefix, its bitmask a set, its deadlines a function.
The hash function is a constant of the model, any function to the naturals;
`hash_key` adds what the code does about the reserved values. Actions: `Add`
(merge, insert or evict, after dropping an expired row), `Remove`, `clear_all`,
`Tick`. `lookup_ip` is an operator on the state: it changes nothing. The
deadline is computed from `AskedAt`, a clock read up to `MaxLockWait` seconds
before the operation runs, as in the code. Durations have a largest, so that
the abstract store can call a deadline after all of them unlimited.

**DecisionLifetime.** Time runs in ticks, `Ticks` to the second; `unix_now`
rounds down. LAPI decides an end (`Decide`), deletes early (`Revoke`), and
answers a poll with a text per decision (`Poll`): rounded to seconds as LAPI
writes it, a bare number, or with a fraction. A text is the number before each
unit, the digits without one, and whether there is a byte that is no unit.
`Apply` is `apply_to_shm` for the row, call by call: first the deletions
(`Delete`), then the additions (`Add`); `Lose` is an answer that does not arrive.
`Minute` and `Hour` are constants, small in the run, 60 and 3600 in the code.

**PollerElection.** One action per atomic instruction on shared memory: the
load, the compare-exchange to 0, the store to the lock, the compare-exchange to
the own id, lock and unlock, and in the master the load and the two stores of
`decisions_shm_zone_init`. `ngx_rwlock` is external: unlocking subtracts one
from anything that is not the writer's value. A batch of writes is one critical
section. A kill may come between any two actions, and the id of a killed worker
may go to a process that has nothing to do with nginx (`ReusePid`), which
`process_alive` cannot tell from a worker. Three variables are auxiliary: `left`
is what killed holders have left in the lock word, `torn` says that it was set to
0 while somebody was inside, `orphaned` that a worker was killed while it had the
claim.

**StreamPoller.** `poll` is the HTTP exchange and, at startup, `clear_all`; then
every decision of the answer is one call into the cache. LAPI is external and
modelled from how the bouncer uses it: it answers the difference to what it has
told before, and takes an answer as told whether or not it arrives. `dirty` is
auxiliary: something was lost or a batch cut short since the last full sync.
`Image` is the row a decision is stored in; two decisions may share one
(an address written in two ways, a fallback type beside a real one). The deletion
of one of these takes the row of all: `taken`, auxiliary, holds the rows that a
deletion took after their decisions were told, until one of them is told anew.
So the properties speak of every row, the shared ones too.

**UsageMetrics.** One action per atomic access that others can come between. The
fields of a claimed bucket are written in one step, since nobody reads them
before `ready`. Words wrap at `Modulus`. An upload is accepted, refused, or
accepted without the poller getting to know (`PostedLate`); the poller may be
killed anywhere in an upload (`KillPoller`). Sums over buckets and snapshots are
recursive functions (`SumTo`), which the proofs can reason about.

**RequestPhases.** Handlers are operators that yield the set of their possible
outcomes (result, answer, count, context, what is waited for); the actions are
the entries nginx has into the module: the two phase handlers, the two body
callbacks, the two task completions. The configuration and the request are
chosen at the start; a request may be one whose body cannot be read. Failures of
memory are switched by the constant `NoMemory`.

**CaptchaSession.** `serving` is the set of configurations that some worker
serves with: a reload adds one, `Retire` ends the workers of one. `jar` holds
the cookies of each browser, `post` the `CaptchaPostContext` of a POST under
way, with the configuration and address it began with. Actions: a request that
begins a verification, the two ends of one, a request that clears a stale
cookie, a browser that drops an expired one, and as faults a reload, a move to
another address, a cookie copied from another client, a clock set back. `solved`
and `earned` are auxiliary: what was solved, and what a client still has of it.

**Configuration.** A file is a sequence of directives, each with context, field
and value. Reading (`Read`) is a recursive function over it that stops at the
first error, as nginx does; it is followed by the merge of every context with
the one around it and by `postconfiguration`. An option (Rust's `Option`)
is a set of at most one value. A reload is
refused (a directive or a merge fails), fails late (nginx itself gives up after
postconfiguration and keeps the old cycle) or commits; workers of the old cycle
go on, die and are forked again. Every worker carries the cycle it was forked in
and a copy of the master's statics. The properties state what a file means
independently of how it is read (`InForce`, `Listed`).

**ClientAddress.** The headers of a request are, for each name, a sequence of
lines, a line a sequence of tokens. `header_value_ci` reads the first line of the
name, or nothing if that line as a whole is no UTF-8 text (a line with the token
`NotUtf8`), and then the client is the peer. Proxies are external: they append
the address they were called from to one line (`joined`), or add a line of their
own after those that are there.

## 3. Runs

Passing runs:

| Run | Properties | Instance and why it is enough |
|---|---|---|
| `DecisionCache_store` | `TypeOK` `Reachable` `UniqueKeys` `CountExact` `LookupExact` `ShortNamesOnce` `ImplementsStore` `ScenarioIdsStable` | two slots and three keys (two addresses, the range around them) that collide, one hash value reserved before it is shifted; two remediations, durations 0 (unlimited) and 1, a clock of 2, a writer that waits for the lock a second, so that a decision may be over when it is stored, an eviction, a scenario name that decisions have or not: full tables with and without expired rows, tombstones before and after rows, all merges, clearing with a scenario stored. Names that are cut, and a scenario table that is full of them, are left to the theorems: with them the run takes three times as long; so are ranges of several lengths, which `CacheLookupExact` covers |
| `PollerElection_claim` | `TypeOK` `OnePollerUntilReload` `LockAccounted` `SomeonePolls` `StoppedEnd` | two workers that both look up, two kills at any instruction, process ids given away, a reload: an orphan, an orphan of an orphan, a kill in every critical section, a lock set to 0 under readers and writers and when nobody is inside, a stop in every phase of the election |
| `StreamPoller_sync` | `TypeOK` `InSync` `HeldThroughDelta` `CatchesUp` | bans, captchas, one address written in two ways, a value that is no address, an unknown type, a simulated decision beside a real one of the same row; two changes, two failures and a lost answer (enough for the initial sync to fail for good), a takeover |
| `DecisionLifetime_ends` | `TypeOK` `EndsOnTime` `NotEarly` `EndedRemoved` | three ticks to the second, lengths of a second, of minutes and of hours, answers two ticks under way, two changes, a lost answer, until every decision is over: all roundings of clock and duration, extensions, revocations, unreadable and empty texts |
| `UsageMetrics_race` | `TypeOK` `NothingLost` `BucketsOwned` | two workers and the poller, two keys with one hash, three buckets, a kill of either, two uploads of which one may be accepted unnoticed |
| `RequestPhases_safety` | `TypeOK` `BanHolds` `BlockHolds` `InspectedFirst` `TaskKeepsRequest` `CountedOnce` `ProcessedOnce` `ReadableRequestEnds` | every accepted location configuration, thirteen requests (three of them on a path of the challenge: a GET, a static one and a form), failures of memory and body reads, two changes of the decision |
| `CaptchaSession_session` | `TypeOK` `SessionEarned` `SolvedHonoured` | two browsers (symmetric), two addresses, a configuration and ones with another key, another cookie name, no binding and another length; two captchas, two faults, a clock of 2 with a leeway of 1 |
| `Configuration_reload` | `TypeOK` `SettingsAsWritten` `ServedEnforceable` `StaticsOfCycle` `ClientFromHops` | sixteen files, ten accepted and six refused, each for another reason; settings in every context, set again in one, missing in part; lists appended to and emptied; two reloads, an edit of the page template; eight ways through proxies that append or add lines, seven claims of clients (two of them no UTF-8 text), IPv4 and IPv6 in two bits |

Deadlock checking is off in the runs of `PollerElection`, where a kill or a
reload can leave the lock taken for good (see below), and of `UsageMetrics` and
`DecisionLifetime`, where the bounds end the behaviour.

Violation runs. Each refutes a sentence of the repository; `findings` in
`PROJECT.json` quotes it.

| Run | What TLC shows |
|---|---|
| `PollerElection_reload` | zone reuse clears `poller_pid` with a store after a load: a claim made in between is lost, two pollers overlap |
| `PollerElection_spin` | the lock is reset while a reader is inside; its unlock leaves a writer's lock that nobody holds, and lookups spin |
| `UsageMetrics_duplicate` | two buckets of one key; both values are subtracted from one of them, which wraps |
| `RequestPhases_read_error` | a failed body read of a captcha POST leaves a context that is waited for in PRECONTENT; `ReadableRequestEnds` is the part of the promise that holds |

`NothingLost` holds in the race that `UsageMetrics_duplicate` shows because it is
stated modulo the word: the sum over both buckets is right even when one has
wrapped.

The lock can also stay taken without a reader, for three reasons that
`PollerElection` shows when batches are required to go on:

- with three workers, one clears the claim of a dead poller, another claims and
  enters its critical section, and only then does the first one store 0 in the
  lock; the unlock of the writer then subtracts one from 0, which is a writer's
  lock;
- the worker that has cleared the claim is killed before it resets the lock:
  the next one finds no orphan and resets nothing;
- a reader that is killed while it holds the read lock stays counted, and no
  poller can write after that.

No sentence of the repository speaks of these cases, so no run is about them;
they are the reason why `SomeonePolls` asks for a poller and not for batches, and
why `StoppedEnd` has the hypothesis that the lock is free again and again: a
worker whose thread waits for a lock left behind is never joined. `LockAccounted`
says what is safe all the same: nothing but a lock set to 0 under somebody makes
the word say other than who is inside and what the killed have left, a killed
lookup makes nobody set it to 0, and a lock set to 0 when nobody is inside is
exact again.

### Divergences seen while modelling, without a run

These came up when the code was read against its comments and documents. Each is
visible in the model as a hypothesis that a property needs.

| Code | Sentence it departs from | In the model |
|---|---|---|
| `ShmScenario::matches` (`src/shm.rs:235`) compares a name with its truncated copy, so a name longer than `MAX_SCENARIO_LEN` is stored with every decision | `src/shm.rs:213` "Each unique scenario is stored once and referenced by ID" | `ShortNamesOnce` of `DecisionCache` is about short names |
| an unknown type stored as ban shares the row of an ordinary ban and goes with its deletion (`src/stream.rs:149`) | `src/config.rs:175` "Store and enforce as ban." | `taken` in `InSync` and `HeldThroughDelta` of `StreamPoller` |
| after the last failed attempt of the initial sync the poller goes on with deltas on the old cache (`src/stream.rs:346`) | `CHANGELOG.md:102` "so LAPI unbans are not stale after reload" | `dirty` of `StreamPoller` |
| a decision that arrives between ACCESS and PRECONTENT with `crowdsec_appsec_always` off lets the request pass without inspection or remediation (`src/handler.rs:208`) | `src/handler.rs:161` "AppSec (including body reads) runs in PRECONTENT." | `seen = {"none"}` in `InspectedFirst` |
| a captcha POST is counted as dropped before it is verified and may pass (`src/handler.rs:357`) | `CHANGELOG.md:108` "count remediations actually applied (not captcha passes ...)" | `AskForCaptcha` of `RequestPhases` |
| a POST to a path of the AppSec challenge that ACCESS has counted and could not answer goes on to PRECONTENT, is inspected and counted again (`src/handler.rs:205`) | `CHANGELOG.md:108` "count remediations actually applied (not captcha passes ...)" | `req.challenge => Enforceable` in `CountedOnce` |
| with a ban status other than 403, `block` passes the request when no answer can be sent (`src/handler.rs:416`) | `docs/configuration.md:121` "or block (returns crowdsec_ban_status)" | `Enforceable` in `BanHolds` |
| a template file is read once in the life of the master (`src/config.rs:966`): a reload serves the old text, and one that names a missing file is accepted | `scripts/deploy-templates.example.sh` uploads templates and reloads nginx | `SettingsAsWritten` leaves `Templates` out; `cache` of `Configuration` |
| a reload that fails after postconfiguration has set the master's statics (`src/lib.rs:185`): a worker forked again has the old locations with the new LAPI and AppSec settings, and a zone pointer into the cycle that was destroyed | none | `~w.late` in `StaticsOfCycle` |
| `header_value_ci` reads the first line of the header only, and nothing of one that is no UTF-8 text (`src/realip.rs:149`): behind proxies that add lines the line read may be the client's, and with a byte that is no UTF-8 text the client is taken to be the peer | `docs/configuration.md:173` "It mirrors `real_ip_recursive on`" | `joined` and `NotUtf8` in `ClientFromHops` |
| a duration with a fraction, or rounded to `0s`, is stored without an end until LAPI deletes it (`src/stream.rs:420`) | none | `unread` in `EndsOnTime` |

### Bounds

`MaxTime`, `MaxLockWait`, `MaxEvictions` (cache); `MaxTime`, `MaxDelay`,
`MaxChanges`, `MaxLost` (lifetime); `MaxCrashes`, `MaxReloads` (election);
`MaxChanges`, `MaxFailures`, `MaxLost`, `MaxTakeovers` (stream); `MaxCount`,
`MaxPushes`, `MaxCrashes`, `MaxLate` (usage); `MaxChanges` (requests); `MaxTime`,
`MaxSolves`, `MaxFaults` (sessions); `MaxReloads`, `MaxEdits` (configuration).
Every bound is a conjunct of a guard and a constant; the proofs hold for every
value. `MaxDelay` is also a fact about the code: the LAPI call has a timeout.

### Fairness

- `PollerElection`: weak fairness of every polling thread, of the end of a worker
  and of the end of a lookup: the system schedules threads, LAPI calls have a
  timeout. Strong fairness of taking the lock: `ngx_rwlock` spins and yields, so
  a lock that is free again and again is taken; the code has no queue, and under
  weak fairness a writer could starve behind readers. Nothing is assumed of
  stops, kills, reused ids, forks and reloads. `SomeonePolls` has one exception: a
  dead poller whose id another process has for ever keeps its claim.
- `StreamPoller`: weak fairness of the poller; failures and lost answers need
  none. Their number is bounded, which is the assumption that LAPI is reachable
  in the end.
- `DecisionLifetime`: weak fairness of `Poll` and `Apply`: the loop polls again
  after its interval and applies what arrives. None of the clock: `EndedRemoved`
  asks for no time to pass.
- `RequestPhases`: weak fairness of the module's steps: nginx runs handlers, a
  body arrives or times out, AppSec and the captcha provider answer or time out
  (both calls have a timeout in the code).

## 4. Proofs

The proofs hold for every value of the constants that satisfies the named
assumptions of the modules.

**DecisionCacheProofs.** `LookupExact`, `Reachable` and `CountExact` are not
inductive alone. `IInv` adds to them: every occupied slot holds a row of a key
the stream delivers, under that key's hash and with a remediation (`RowsIn`);
the prefix length of every range in the table is in the bitmap
(`PrefixesMarked`); scenario ids are in the table. The lemmas say what probing
does: the first vacant slot of a probe sequence leaves everything reachable
(`Reachable` after an insertion), turning a row into a tombstone does too, the
evicted slot was occupied so nothing opens. `CountExact` uses the cardinality
theorems of the library, one for each way a step changes the set of occupied
slots. `CacheLookupExact` follows from `IInv` in every state: probing finds
exactly the row of a key (existence from `Reachable`, equality from
`UniqueKeys`), and the bitmap never hides a range. `CacheScenarioIdsStable` proves
the action property from type correctness: the scenario table is only appended
to. `CacheShortNamesOnce` is inductive by itself: what is appended is a name
that was not found, or one that was cut. Assumptions: the capacity is positive,
prefixes fit the address width, the hash is any function to the naturals.

**PollerElectionProofs.** `ElectionInv` says that, before the first reload, who
believes to be the poller is alive and has its id in `poller_pid`, and that a
thread which polls believes so; and always that only a living worker has a thread
or a request (`ThreadsLive`). It is inductive for any number of workers, kills,
reused ids and reloads, and gives `OnePollerUntilReload`; the reload run shows
why it ends at a reload. `LockWordAccounted` holds through kills and reloads.
`LockExact` is kept by every step that takes, releases or loses the lock
(`LockStep`, with the cardinality theorems for the readers inside); a kill moves
what the killed held from those inside to `left`; and setting the lock to 0 makes
it exact if nobody is inside and `torn` if somebody is. Before a worker that has
the claim is killed or nginx reloaded nobody does so, since a claim is then a
living worker's (`NoOrphans`); the spin run shows what happens after.

**StreamPollerProofs.** `AddsUp` says that while a batch is applied, the cache
without what is left to delete, with what is left to add, is what LAPI has told
less the rows that were `taken`; that what is left to add is not taken; and that
what is left to delete is, unless no decision LAPI has needs it or it is added
again. It is inductive and gives `InSync`, as an equation. With it,
`CacheHeldThroughDelta` shows the action property: the only rows of decisions that
stay which a delta takes are those that a deletion of another decision takes, and
those that the same answer has anew.

**CaptchaSessionProofs.** `SessionInv` says that every cookie is the token of a
captcha that was solved (`Issued`), and that the cookie of what a client has
earned is the token of just that. Both survive every step because a token is
never changed, only copied and dropped. `SessionsEarned` and `SolvedAreHonoured`
follow in every state: the checks of `verify_and_validate` against the token
are checks against what was solved. Assumptions: configurations have a length of
at least a second, no address is called `anonymous`.

**The cache implements the store.** `CacheImplementsStore` (also in
`DecisionCacheProofs`) is the refinement `ImplementsStore`: every behaviour of the
table, seen through the mapping that forgets slots, tombstones and the order of
probing, is one of `DecisionStore`. `StoreOf` is what a table shows; the lemmas
`RowRemoved`, `RowExtended`, `RowMerged` and `RowNew` say how it changes when one
row does, and `AddShows`, `RemoveShows`, `ClearShows` and `TickShows` turn each
action into a step of the store or a stutter. An eviction is one only if the
store is full (`KnownFull`), which needs `UniqueKeys` and a count of live rows
against keys. The mapping calls a deadline beyond all others unlimited, so the
proof needs `Bounded`, that every deadline in the table is one a decision had;
`CacheBounded` is that invariant.

**RequestPhasesProofs.** All six safety invariants of `MCRequestPhases_safety`
and its type invariant, for every set of location configurations and requests.
The outcomes of handlers are first brought into a few shapes (`Settled`, `Ban`,
`Inspection`, `Captcha`, `FromAppSec`, `FromCaptcha`): a handler that calls
another keeps the shape of it. The invariant relates what the request waits for
to its module slot (`Slot`: who waits for a task has a context without a result,
which is what keeps two answers from being sent), the stored result to what
AppSec said (`StoredResult`, `BlockedCloses`), and the phase to decisions that were
deferred or counted (`BanDeferred`, `PassedToOrigin`, `Processed`, `Dropped`). None of
`BanHolds`, `InspectedFirst`, `CountedOnce` is inductive: each depends on what an
earlier phase left in the slot.

**DecisionLifetimeProofs.** `EndsOnTime` and `NotEarly` for any number of ticks,
any minute and hour, any delay and any lengths that fit a word. The invariant:
what is in force at LAPI ends within a length from now (`LapiEnds`); a text under
way means its end to within half a second of rounding, minus its age (`AnswerOK`);
and every deadline of the row is late by the delay and half a second at most,
early by a second and a half at most, unless it may be removed by now (`RowOK`,
`Timed`). `Timed` is kept by merging, by pruning what has expired and by the later
of two deadlines, which is why the bounds survive any order of calls. Nothing
overflows: `Answered` bounds the sum of clock and duration.

**UsageMetricsProofs.** `NothingLost` for any number of workers, keys and buckets,
any hash and any word of two values at least. It is a statement modulo the word,
and inductive as the congruence `Balance` together with three facts on ownership:
a ready bucket has a key (`Owned`), a claimed one is filled by one worker
(`Filling`), and what an upload holds has a bucket that it can be subtracted from
(`Uploaded`: buckets are never given up). Sums are proved about without an
induction rule: a recursive function exists up to every length and two sums
agree, because a least length where they do not would have a smaller one
(`SummationExists`, `SumChange`).

**ConfigurationProofs.** All five invariants of `MCConfiguration_reload`, for every
set of files, any number of reloads and any requests. The invariant is short
(every cycle some worker runs, and the statics, come from a file nginx has
accepted: `MasterOK`, `WorkersOK`); the work is in what an accepted file means.
`HandlerWorks` says what each handler stores, refuses and leaves alone;
`ReadWorks` goes through the prefixes of a file by a least counterexample and
shows that the settings are the last ones written (`Written`) and the lists what
was listed after the last `off` (`Listed`); `MergedInForce` follows the four
contexts. `ServedEnforceable` then is `validate_enforcement` read off the file, and
the types are those the handlers accept. `ClientIsAHop` rests on `Resolved`:
for any header that begins with anything and ends with what the hops appended,
the right-most untrusted address is that of the nearest untrusted hop, and
disguised addresses belong to the networks of the addresses in them
(`Canonical`). What `header_value_ci` makes of the lines is in `NothingRead`,
`JoinedRead` and `NotedRead`. Assumptions: a file consists of directives nginx knows in contexts
they are allowed in, an unreadable token is no address, nor is one that is no UTF-8 text.

**Only model-checked.** `BucketsOwned` (its first part, that a bucket is filled by
one worker, is in the invariant of `UsageMetricsProofs`). Liveness (`SomeonePolls`, `StoppedEnd`, `CatchesUp`,
`EndedRemoved`, `ReadableRequestEnds`): the prover does not reason about fairness
and ENABLED. That the states the theorems speak of do occur is what the runs and
their mutants show. That a file that is not
accepted leaves the cycle alone is a guard of the model, since nginx is external.

## 5. Not modelled

- `version` of the cache header (incremented, never read) and the stale bytes of
  a tombstone (every reader tests `is_vacant` first).
- JSON and HTTP: the models take parsed decisions. The sum of clock and duration
  wraps in a word (`src/shm.rs:1266`), but only for durations near its end, which
  LAPI's nanoseconds cannot express (`LengthAssumption`); a negative duration is
  not parsed and counts as any unreadable text.
- The gauge of active decisions and the time window of an upload.
- Subrequests, requests without a client address (declined in both phases), the
  forwarding of headers to AppSec.
- The syntax of cookies and tokens, the `Secure` attribute, the return URI of a
  captcha; HMAC is taken to be sound.
- The syntax of addresses, sizes (`parse_size` multiplies without a check,
  `src/config.rs:961`) and times of directives; warnings.
- The metrics page reads counters that are incremented with single atomic
  additions; templates substitute text, logging prints, the LAPI client settings
  build an HTTP agent: none has state of its own that steps could disturb.

## 6. Plan

Done: every component with state of its own; every safety invariant, action
property and refinement that a run checks is also a theorem, but for
`BucketsOwned`.

Left:

1. Lemmas that tie the modules together: that the row of `DecisionLifetime` is a
   row of `DecisionCache`, and that `StreamPoller`'s calls are its operations.
2. Templates (escaping in `src/template.rs`) as operators against a reference
   definition, if they come to hold more than text.
