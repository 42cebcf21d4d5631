---------------------------- MODULE DecisionCache ----------------------------
(***************************************************************************)
(* The decision cache in shared memory (src/shm.rs): an open-addressing    *)
(* hash table with linear probing and tombstones that holds both single    *)
(* addresses and CIDR ranges, a bitmap of the prefix lengths in use, a     *)
(* clock that evicts when the table is full, and the table of scenario     *)
(* names.                                                                  *)
(*                                                                         *)
(* Every operation runs under the zone's write lock, every lookup under    *)
(* its read lock, so each is one step here; the lock word itself is the    *)
(* subject of module PollerElection.  Left out: the header field version,  *)
(* which is incremented and never read, and the stale bytes a tombstone    *)
(* keeps, which every reader skips because is_vacant() is tested first.    *)
(***************************************************************************)
EXTENDS DecisionExpiry, Integers, Sequences, FiniteSets

CONSTANTS
  Capacity,       \* number of slots of the table
  Family,         \* address families in use: a subset of {4, 6}
  Bits,           \* Bits[f]: width of an address of family f
  CidrPrefixes,   \* CidrPrefixes[f]: prefix lengths LAPI uses for ranges
  Fnv,            \* Fnv[k]: the FNV-1a value of a key's bytes
  Origins,        \* origins of decisions
  Scenarios,      \* scenario names, as sequences of characters
  NoScenario,     \* a decision without scenario
  MAX_SCENARIOS,
  MAX_SCENARIO_LEN,
  StreamTypes,    \* remediations LAPI sends, a subset of DecisionType
  Durations,      \* durations of decisions in seconds, 0 for "unlimited"
  MaxLockWait,    \* bound: seconds a writer waits for the lock
  MaxTime,        \* bound on the clock
  MaxEvictions    \* bound on eviction_count

HASH_EMPTY == 0
HASH_TOMBSTONE == 1

-----------------------------------------------------------------------------
(* Keys: a single address, or the network address of a range.              *)

Ip == UNION {[family : {f}, addr : 0 .. (2^Bits[f] - 1)] : f \in Family}

ip_key(ip) ==
  [cidr |-> FALSE, family |-> ip.family, prefix |-> Bits[ip.family],
   addr |-> ip.addr]

(* apply_ipv4_mask, apply_ipv6_mask: the network address of an address.    *)
apply_mask(ip, p) ==
  LET bits == Bits[ip.family]
  IN  CASE p = 0     -> 0
        [] p >= bits -> ip.addr
        [] OTHER     -> ip.addr - (ip.addr % 2^(bits - p))

cidr_key(ip, p) ==
  [cidr |-> TRUE, family |-> ip.family, prefix |-> p, addr |-> apply_mask(ip, p)]

IpKey == {ip_key(ip) : ip \in Ip}
CidrKey == UNION {{cidr_key(ip, p) : p \in 0 .. Bits[ip.family]} : ip \in Ip}
Key == IpKey \union CidrKey

ASSUME CapacityAssumption == Capacity \in Nat \ {0}
ASSUME AddressAssumption ==
  /\ 0 \notin Family
  /\ Bits \in [Family -> Nat]
  /\ CidrPrefixes \in [Family -> SUBSET Nat]
  /\ \A f \in Family : CidrPrefixes[f] \subseteq 0 .. Bits[f]
ASSUME FnvAssumption == Fnv \in [Key -> Nat]
ASSUME StreamAssumption ==
  /\ StreamTypes \subseteq DecisionType
  /\ Durations \in SUBSET Nat
  /\ \E m \in Durations : \A d \in Durations : d <= m
  /\ Scenarios \subseteq Seq(STRING)
  /\ NoScenario \notin Scenarios
ASSUME BoundAssumption ==
  /\ MAX_SCENARIOS \in Nat /\ MAX_SCENARIO_LEN \in Nat
  /\ MaxLockWait \in Nat /\ MaxTime \in Nat \ {0} /\ MaxEvictions \in Nat

(* The keys the stream delivers.  parse_cidr masks what it parses, so the  *)
(* address of a range is always a network address.                         *)
StreamKey ==
  IpKey \union UNION {{cidr_key(ip, p) : p \in CidrPrefixes[ip.family]} : ip \in Ip}

(* A slip: the reserved values are not avoided.                            *)
hash_key_Unshifted(k) == Fnv[k]

(* hash_ip, hash_cidr: the two reserved values are shifted out of the way. *)
hash_key(k) == IF Fnv[k] < 2 THEN Fnv[k] + 2 ELSE Fnv[k]

-----------------------------------------------------------------------------
Slot == 0 .. Capacity - 1
Prefix == UNION {0 .. Bits[f] : f \in Family}
Time == 1 .. MaxTime
Deadline == {0} \union {t + d : t \in Time, d \in Durations \ {0}}

NoKey == [cidr |-> FALSE, family |-> 0, prefix |-> 0, addr |-> 0]
NoOrigin == "none"

EmptyEntry ==
  [hash |-> HASH_EMPTY, key |-> NoKey, types |-> {}, expires |-> NoExpiry,
   origin |-> NoOrigin, scenario_id |-> 0]

(* mark_tombstone.                                                         *)
Tombstone == [EmptyEntry EXCEPT !.hash = HASH_TOMBSTONE]

(* ShmHashEntry.                                                           *)
Entry ==
  [hash : Nat, key : Key \union {NoKey}, types : SUBSET DecisionType,
   expires : Expiry, origin : Origins \union {NoOrigin}, scenario_id : Nat]

is_empty(e) == e.hash = HASH_EMPTY
is_tombstone(e) == e.hash = HASH_TOMBSTONE
is_vacant(e) == is_empty(e) \/ is_tombstone(e)

is_expired_at(e, t) == active_mask(e.expires, e.types, t) = {}

(* ShmHashEntry::prune_expired.                                            *)
prune_expired(e, t) ==
  [e EXCEPT !.types = active_mask(e.expires, e.types, t),
            !.expires = prune_inactive(e.expires, e.types, t)]

(* ShmHashEntry::remove_decision_type.                                     *)
remove_bit(e, t) ==
  [e EXCEPT !.types = @ \ {t}, !.expires = clear_bit(@, t)]

(* The entry that merging a decision into e leaves.                        *)
merge_entry(e, t, deadline, origin, id) ==
  [e EXCEPT !.expires = merge(@, e.types, t, deadline),
            !.types = @ \union {t},
            !.origin = origin,
            !.scenario_id = IF id # 0 THEN id ELSE @]

new_entry(k, t, deadline, origin, id) ==
  [hash |-> hash_key(k), key |-> k, types |-> {t},
   expires |-> merge(NoExpiry, {}, t, deadline),
   origin |-> origin, scenario_id |-> id]

-----------------------------------------------------------------------------
VARIABLES
  entries,         \* the slots of the hash table
  count,           \* number of occupied slots
  clock_hand,      \* where the next eviction scan starts
  eviction_count,
  cidr_prefixes,   \* prefix lengths that have been seen
  scenarios,       \* the scenario table; ids are its 1-based indices
  now              \* the wall clock, in seconds

tableVars == <<entries, count, clock_hand, eviction_count, cidr_prefixes>>
vars == <<entries, count, clock_hand, eviction_count, cidr_prefixes,
          scenarios, now>>

(* decisions_shm_zone_init on a fresh zone.                                *)
Init ==
  /\ entries = [s \in Slot |-> EmptyEntry]
  /\ count = 0
  /\ clock_hand = 0
  /\ eviction_count = 0
  /\ cidr_prefixes = {}
  /\ scenarios = <<>>
  /\ now = 1

-----------------------------------------------------------------------------
(* Probing.  The i-th slot a probe or the clock visits from start.         *)

Offset == 0 .. Capacity - 1
ProbeAt(start, i) == (start + i) % Capacity

home(k) == hash_key(k) % Capacity

(* The test of the slot e by find_slot_ip and find_slot_cidr: the cached   *)
(* hash, then the key itself.                                              *)
matches(e, k) == ~ is_vacant(e) /\ e.hash = hash_key(k) /\ e.key = k

(* A slip: the scan also ends at a tombstone.                              *)
ProbeStops_AtTombstone(es, k, i) ==
  LET e == es[ProbeAt(home(k), i)] IN is_vacant(e) \/ matches(e, k)

ProbeStops(es, k, i) ==
  LET e == es[ProbeAt(home(k), i)] IN is_empty(e) \/ matches(e, k)

(* find_slot_ip, find_slot_cidr find k at offset i: the scan reaches slot  *)
(* i without meeting an empty slot.                                        *)
FindsAt(es, k, i) ==
  /\ matches(es[ProbeAt(home(k), i)], k)
  /\ \A j \in 0 .. i - 1 : ~ ProbeStops(es, k, j)

found(es, k) == \E i \in Offset : FindsAt(es, k, i)
find_slot(es, k) == ProbeAt(home(k), CHOOSE i \in Offset : FindsAt(es, k, i))

(* find_vacant_slot.                                                       *)
has_vacant_slot(es) == \E s \in Slot : is_vacant(es[s])
find_vacant_slot(es, k) ==
  ProbeAt(home(k), CHOOSE i \in Offset :
    /\ is_vacant(es[ProbeAt(home(k), i)])
    /\ \A j \in 0 .. i - 1 : ~ is_vacant(es[ProbeAt(home(k), j)]))

(* A slip: any row is as good a victim as an expired one.                  *)
Evictable_AnyRow(expired_only, s) == ~ is_vacant(entries[s])

(* evict_clock, evict_clock_matching: the first expired slot from the hand *)
(* on, and the first occupied one if none has expired.                     *)
Evictable(expired_only, s) ==
  ~ is_vacant(entries[s]) /\ (expired_only => is_expired_at(entries[s], now))
evict_clock ==
  LET expired_only == \E s \in Slot : Evictable(TRUE, s)
  IN  ProbeAt(clock_hand, CHOOSE i \in Offset :
        /\ Evictable(expired_only, ProbeAt(clock_hand, i))
        /\ \A j \in 0 .. i - 1 : ~ Evictable(expired_only, ProbeAt(clock_hand, j)))

(* A slip: the hand is not wrapped.                                        *)
hand_after_Unwrapped(s) == s + 1

hand_after(s) == (s + 1) % Capacity

-----------------------------------------------------------------------------
(* get_or_create_scenario_id.                                              *)

(* ShmScenario::from_str: a name that is too long is cut.                  *)
from_str(name) ==
  IF Len(name) <= MAX_SCENARIO_LEN THEN name ELSE SubSeq(name, 1, MAX_SCENARIO_LEN)

known(name) == \E i \in 1 .. Len(scenarios) : scenarios[i] = name

scenario_id(name) ==
  CASE name = NoScenario -> 0
    [] name # NoScenario /\ known(name) ->
         CHOOSE i \in 1 .. Len(scenarios) :
           scenarios[i] = name /\ \A j \in 1 .. i - 1 : scenarios[j] # name
    [] name # NoScenario /\ ~ known(name) /\ Len(scenarios) < MAX_SCENARIOS ->
         Len(scenarios) + 1
    [] OTHER -> 0

(* A slip: the table is not searched before a name is added.               *)
remember_scenario_Again(name) ==
  scenarios' = IF name # NoScenario /\ Len(scenarios) < MAX_SCENARIOS
                 THEN Append(scenarios, from_str(name))
                 ELSE scenarios

remember_scenario(name) ==
  scenarios' = IF name # NoScenario /\ ~ known(name) /\ Len(scenarios) < MAX_SCENARIOS
                 THEN Append(scenarios, from_str(name))
                 ELSE scenarios

-----------------------------------------------------------------------------
(* add_decision, add_cidr_decision.  The deadline is computed from a clock *)
(* read before the write lock is requested, everything else from clock     *)
(* reads under the lock.                                                   *)

deadline_of(asked, d) == IF d = 0 THEN 0 ELSE asked + d
AskedAt == {t \in Time : t <= now /\ now - t <= MaxLockWait}

mark_prefix_present(k) ==
  cidr_prefixes' = IF k.cidr THEN cidr_prefixes \union {k.prefix} ELSE cidr_prefixes

(* A slip: a row goes, count stays.                                        *)
decremented_Forgotten(n) == n

(* saturating_sub(1).                                                      *)
decremented(n) == IF n = 0 THEN 0 ELSE n - 1

(* What is left of the table once an entry of k whose decisions have all   *)
(* expired is out of the way.                                              *)
Stale(k) == found(entries, k) /\ prune_expired(entries[find_slot(entries, k)], now).types = {}
DropStale(k) ==
  IF Stale(k) THEN [entries EXCEPT ![find_slot(entries, k)] = Tombstone] ELSE entries

(* The key has a decision that is still active: merge.                     *)
AddMerge(k, t, deadline, origin, name) ==
  /\ found(entries, k) /\ ~ Stale(k)
  /\ LET s == find_slot(entries, k)
     IN  entries' = [entries EXCEPT ![s] =
           merge_entry(prune_expired(@, now), t, deadline, origin, scenario_id(name))]
  /\ UNCHANGED <<count, clock_hand, eviction_count>>

(* A slip: a decision that is over by the time the lock is taken is counted *)
(* but not stored.                                                         *)
AddInsert_Over(k, t, deadline, origin, name) ==
  /\ found(entries, k) => Stale(k)
  /\ has_vacant_slot(DropStale(k))
  /\ entries' = IF deadline # 0 /\ deadline <= now THEN DropStale(k)
                ELSE [DropStale(k) EXCEPT ![find_vacant_slot(DropStale(k), k)] =
                        new_entry(k, t, deadline, origin, scenario_id(name))]
  /\ count' = (IF Stale(k) THEN decremented(count) ELSE count) + 1
  /\ UNCHANGED <<clock_hand, eviction_count>>

(* It has none: insert in the first vacant slot of its probe sequence.     *)
AddInsert(k, t, deadline, origin, name) ==
  /\ found(entries, k) => Stale(k)
  /\ has_vacant_slot(DropStale(k))
  /\ entries' = [DropStale(k) EXCEPT ![find_vacant_slot(DropStale(k), k)] =
                   new_entry(k, t, deadline, origin, scenario_id(name))]
  /\ count' = (IF Stale(k) THEN decremented(count) ELSE count) + 1
  /\ UNCHANGED <<clock_hand, eviction_count>>

(* It has none and the table is full: evict, and take the slot.            *)
AddEvict(k, t, deadline, origin, name) ==
  /\ eviction_count < MaxEvictions
  /\ found(entries, k) => Stale(k)
  /\ ~ has_vacant_slot(DropStale(k))
  /\ entries' = [entries EXCEPT ![evict_clock] =
                   new_entry(k, t, deadline, origin, scenario_id(name))]
  /\ clock_hand' = hand_after(evict_clock)
  /\ eviction_count' = eviction_count + 1
  /\ count' = decremented(count) + 1

add_decision(k, t, deadline, origin, name) ==
  /\ mark_prefix_present(k)
  /\ remember_scenario(name)
  /\ \/ AddMerge(k, t, deadline, origin, name)
     \/ AddInsert(k, t, deadline, origin, name)
     \/ AddEvict(k, t, deadline, origin, name)
  /\ UNCHANGED now

Add ==
  \E k \in StreamKey, t \in StreamTypes,
     deadline \in {deadline_of(asked, d) : asked \in AskedAt, d \in Durations},
     origin \in Origins, name \in Scenarios \union {NoScenario} :
    add_decision(k, t, deadline, origin, name)

(* remove_decision_type, remove_cidr_decision_type.                        *)
remove_decision_type(k, t) ==
  /\ found(entries, k)
  /\ LET s == find_slot(entries, k)
         e == remove_bit(prune_expired(entries[s], now), t)
     IN  /\ entries' = [entries EXCEPT ![s] = IF e.types = {} THEN Tombstone ELSE e]
         /\ count' = IF e.types = {} THEN decremented(count) ELSE count
  /\ UNCHANGED <<clock_hand, eviction_count, cidr_prefixes, scenarios, now>>

Remove == \E k \in StreamKey, t \in StreamTypes : remove_decision_type(k, t)

(* A slip: the scenario table is emptied as well.                          *)
clear_all_WithScenarios ==
  /\ entries' = [s \in Slot |-> EmptyEntry]
  /\ count' = 0 /\ clock_hand' = 0 /\ cidr_prefixes' = {} /\ scenarios' = <<>>
  /\ UNCHANGED <<eviction_count, now>>

(* clear_all: the scenario table stays.                                    *)
clear_all ==
  /\ entries' = [s \in Slot |-> EmptyEntry]
  /\ count' = 0
  /\ clock_hand' = 0
  /\ cidr_prefixes' = {}
  /\ UNCHANGED <<eviction_count, scenarios, now>>

Tick ==
  /\ now < MaxTime
  /\ now' = now + 1
  /\ UNCHANGED <<tableVars, scenarios>>

-----------------------------------------------------------------------------
(* lookup_ip, as of the state and time it runs in: the exact address, then *)
(* the ranges from the longest prefix to the shortest, skipping lengths    *)
(* that no range ever had.                                                 *)

NotFound ==
  [found |-> FALSE, decision_type |-> UnknownType, origin |-> NoOrigin,
   scenario_id |-> 0]

result_of(e) ==
  [found |-> TRUE,
   decision_type |-> from_bitmask(active_mask(e.expires, e.types, now)),
   origin |-> e.origin, scenario_id |-> e.scenario_id]

finds_active(k) ==
  found(entries, k) /\ ~ is_expired_at(entries[find_slot(entries, k)], now)

prefix_is_present(p) == p \in cidr_prefixes

CidrHit(ip, p) == prefix_is_present(p) /\ finds_active(cidr_key(ip, p))

(* lookup_cidr_v4, lookup_cidr_v6.                                         *)
lookup_cidr(ip) ==
  IF \E p \in 0 .. Bits[ip.family] : CidrHit(ip, p)
    THEN LET p == CHOOSE p \in 0 .. Bits[ip.family] :
                    /\ CidrHit(ip, p)
                    /\ \A q \in p + 1 .. Bits[ip.family] : ~ CidrHit(ip, q)
         IN  result_of(entries[find_slot(entries, cidr_key(ip, p))])
    ELSE NotFound

lookup_ip(ip) ==
  IF finds_active(ip_key(ip))
    THEN result_of(entries[find_slot(entries, ip_key(ip))])
    ELSE lookup_cidr(ip)

-----------------------------------------------------------------------------
Next == Add \/ Remove \/ clear_all \/ Tick

Spec == Init /\ [][Next]_vars

-----------------------------------------------------------------------------
(* The variables have the types of the fields of ShmData and ShmHashEntry, *)
(* and the clock hand is a slot, whatever was evicted and cleared.         *)
TypeOK ==
  /\ entries \in [Slot -> Entry]
  /\ count \in Nat
  /\ clock_hand \in Slot
  /\ eviction_count \in Nat
  /\ cidr_prefixes \subseteq Prefix
  /\ scenarios \in Seq(Seq(STRING))
  /\ now \in Time

Occupied(es, s) == ~ is_vacant(es[s])

(* What occupies a slot is the row of a key, under that key's hash, with a *)
(* remediation.                                                            *)
RowsIn(es) ==
  \A s \in Slot : Occupied(es, s) =>
    /\ es[s].key \in StreamKey
    /\ es[s].hash = hash_key(es[s].key)
    /\ es[s].types # {}

ReachableIn(es) ==
  \A s \in Slot : Occupied(es, s) =>
    \E i \in Offset :
      /\ s = ProbeAt(home(es[s].key), i)
      /\ \A j \in 0 .. i - 1 : ~ is_empty(es[ProbeAt(home(es[s].key), j)])

UniqueIn(es) ==
  \A s1, s2 \in Slot :
    Occupied(es, s1) /\ Occupied(es, s2) /\ es[s1].key = es[s2].key => s1 = s2

(* A probe for the key of an occupied slot gets there: no add, removal,    *)
(* expiry or eviction leaves an empty slot on its way (find_slot_ip and    *)
(* find_slot_cidr stop at the first empty slot).                           *)
Reachable == ReachableIn(entries)

(* No key has two rows, so a removal leaves none behind that a later       *)
(* lookup would answer with.                                               *)
UniqueKeys == UniqueIn(entries)

(* The prefix length of every range in the table is in the bitmap, so      *)
(* lookup_cidr_v4 and lookup_cidr_v6 do not skip it.                       *)
PrefixesMarked ==
  \A s \in Slot :
    Occupied(entries, s) /\ entries[s].key.cidr => entries[s].key.prefix \in cidr_prefixes

(* The scenario id of a row is in the scenario table.                      *)
ScenarioIdsKnown ==
  \A s \in Slot : Occupied(entries, s) => entries[s].scenario_id <= Len(scenarios)

(* count, kept up by hand in every operation, is the number of rows.       *)
CountExact == count = Cardinality({s \in Slot : Occupied(entries, s)})

(* The invariant that is preserved by every step.                          *)
IInv ==
  /\ TypeOK
  /\ RowsIn(entries)
  /\ Reachable
  /\ UniqueKeys
  /\ PrefixesMarked
  /\ ScenarioIdsKnown
  /\ CountExact

(* The row of a key, found by looking everywhere.                          *)
HasRow(k) == \E s \in Slot : Occupied(entries, s) /\ entries[s].key = k
RowOf(k) == entries[CHOOSE s \in Slot : Occupied(entries, s) /\ entries[s].key = k]
InForce(k) == HasRow(k) /\ ~ is_expired_at(RowOf(k), now)

(* lookup_ip answers with the row of the address if a remediation of it is *)
(* in force, else with that of the longest range around the address that   *)
(* has one in force, else with nothing: the hash, the probing, the         *)
(* tombstones and the prefix bitmap never hide a decision in force and     *)
(* never show another.                                                     *)
LookupExact ==
  \A ip \in Ip :
    LET Ranges == {p \in 0 .. Bits[ip.family] : InForce(cidr_key(ip, p))}
    IN  CASE InForce(ip_key(ip)) -> lookup_ip(ip) = result_of(RowOf(ip_key(ip)))
          [] ~ InForce(ip_key(ip)) /\ Ranges # {} ->
               \E p \in Ranges :
                 /\ \A q \in Ranges : q <= p
                 /\ lookup_ip(ip) = result_of(RowOf(cidr_key(ip, p)))
          [] OTHER -> lookup_ip(ip) = NotFound

(* A scenario id keeps its meaning: get_scenario runs after the lookup has *)
(* released the lock, and even a clear_all in between must not matter.     *)
ScenarioIdsStable ==
  [][\A i \in 1 .. Len(scenarios) :
       i <= Len(scenarios') /\ scenarios'[i] = scenarios[i]]_vars

(* A name shorter than MAX_SCENARIO_LEN is in the table once, so such      *)
(* names alone fill it only if there are MAX_SCENARIOS of them.  A name    *)
(* that was cut never equals itself again (ShmScenario::matches) and takes *)
(* a place of the table with every decision that names it.                 *)
ShortNamesOnce ==
  \A i, j \in 1 .. Len(scenarios) :
    scenarios[i] = scenarios[j] /\ Len(scenarios[i]) < MAX_SCENARIO_LEN => i = j

-----------------------------------------------------------------------------
(* The cache implements DecisionStore: its abstract state is what is in    *)
(* force, however the rows lie in the table.                               *)

Forever == MaxTime + 1 + (CHOOSE m \in Durations : \A d \in Durations : d <= m)
EndOf(deadline) == IF deadline = 0 THEN Forever ELSE deadline

storeBar ==
  [k \in StreamKey |->
     IF InForce(k)
       THEN LET e == RowOf(k)
            IN  [until |-> [t \in DecisionType |->
                              IF t \in active_mask(e.expires, e.types, now)
                                THEN EndOf(e.expires[t]) ELSE 0],
                 origin |-> e.origin, scenario |-> e.scenario_id]
       ELSE [until |-> NoExpiry, origin |-> NoOrigin, scenario |-> 0]]

Store == INSTANCE DecisionStore WITH
  Key <- StreamKey, Remediation <- DecisionType, Capacity <- Capacity,
  End <- {EndOf(d) : d \in Deadline}, Origin <- Origins,
  ScenarioId <- 0 .. MAX_SCENARIOS, MaxTime <- MaxTime, Nobody <- NoOrigin,
  store <- storeBar, now <- now

(* Seen from the handlers, the table behaves like the plain store: expired *)
(* rows, tombstones and reuse of slots do not show, merging keeps the      *)
(* later deadline, and a decision in force is evicted only when Capacity   *)
(* keys have one.                                                          *)
ImplementsStore == Store!Spec
=============================================================================
