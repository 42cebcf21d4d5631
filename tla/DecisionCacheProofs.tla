------------------------- MODULE DecisionCacheProofs -------------------------
(***************************************************************************)
(* Proofs about DecisionCache for every capacity, address width, hash      *)
(* function and set of decisions: the hash table stays well formed, a      *)
(* lookup answers with exactly the decision that is in force, and the      *)
(* table implements the plain store of module DecisionStore.               *)
(***************************************************************************)
EXTENDS DecisionCache, FiniteSetTheorems, SequenceTheorems, WellFoundedInduction, TLAPS

-----------------------------------------------------------------------------
(* Numbers.                                                                *)

(* A non-empty set of naturals has a least element: the scans of the code  *)
(* that stop at the first slot with some property do stop.                 *)
LEMMA LeastNat ==
  ASSUME NEW T, T \subseteq Nat, T # {}
  PROVE  \E m \in T : \A n \in T : m <= n
<1>1. PICK m \in T : \A n \in T : ~ (<<n, m>> \in OpToRel(<, Nat))
  BY NatLessThanWellFounded, WFMin
<1>2. \A n \in T : <<n, m>> \in OpToRel(<, Nat) <=> n < m
  BY DEF OpToRel
<1>3. \A n \in T : ~ (n < m)
  BY <1>1, <1>2, Zenon
<1>4. QED
  BY <1>3

(* One step of (idx + 1) % capacity repeated i times: where it arrives.    *)
LEMMA ProbeAtValue ==
  ASSUME NEW a \in Slot, NEW i \in Offset
  PROVE  ProbeAt(a, i) = IF a + i < Capacity THEN a + i ELSE a + i - Capacity
BY CapacityAssumption DEF ProbeAt, Slot, Offset

(* A probe stays inside the table.                                         *)
LEMMA ProbeAtInSlot ==
  ASSUME NEW a \in Slot, NEW i \in Offset
  PROVE  ProbeAt(a, i) \in Slot
BY ProbeAtValue, CapacityAssumption DEF Slot, Offset

(* Its first Capacity steps visit every slot...                            *)
LEMMA ProbeAtOnto ==
  ASSUME NEW a \in Slot, NEW s \in Slot
  PROVE  \E i \in Offset : ProbeAt(a, i) = s
<1>1. CASE s >= a
  <2>1. s - a \in Offset /\ ProbeAt(a, s - a) = s
    BY <1>1, ProbeAtValue, CapacityAssumption DEF Slot, Offset
  <2>2. QED
    BY <2>1
<1>2. CASE s < a
  <2>1. s - a + Capacity \in Offset /\ ProbeAt(a, s - a + Capacity) = s
    BY <1>2, ProbeAtValue, CapacityAssumption DEF Slot, Offset
  <2>2. QED
    BY <2>1
<1>3. QED
  BY <1>1, <1>2 DEF Slot

(* ... and none of them twice.                                             *)
LEMMA ProbeAtInjective ==
  ASSUME NEW a \in Slot, NEW i \in Offset, NEW j \in Offset,
         ProbeAt(a, i) = ProbeAt(a, j)
  PROVE  i = j
BY ProbeAtValue, CapacityAssumption DEF Slot, Offset

(* What a scan visits before offset i.                                     *)
LEMMA EarlierOffset ==
  ASSUME NEW i \in Offset, NEW j \in 0 .. i - 1
  PROVE  j \in Offset /\ j # i
BY CapacityAssumption DEF Offset

(* A scan that has something to find stops at the first such slot.         *)
LEMMA FirstOffset ==
  ASSUME NEW T, T \subseteq Offset, T # {}
  PROVE  \E i \in T : \A j \in 0 .. i - 1 : j \notin T
<1>1. T \subseteq Nat
  BY DEF Offset
<1>2. PICK i \in T : \A n \in T : i <= n
  BY <1>1, LeastNat
<1>3. \A j \in 0 .. i - 1 : j \notin T
  BY <1>1, <1>2
<1>4. QED
  BY <1>3

-----------------------------------------------------------------------------
(* Keys and hashes.                                                        *)

(* Every key of the stream is a key.                                       *)
LEMMA StreamKeyIsKey == StreamKey \subseteq Key
<1>1. ASSUME NEW ip \in Ip PROVE ip.family \in Family
  BY DEF Ip
<1>2. ASSUME NEW ip \in Ip, NEW p \in CidrPrefixes[ip.family]
      PROVE  p \in 0 .. Bits[ip.family]
  BY <1>1, AddressAssumption
<1>3. UNION {{cidr_key(ip, p) : p \in CidrPrefixes[ip.family]} : ip \in Ip}
        \subseteq CidrKey
  BY <1>2 DEF CidrKey
<1>4. QED
  BY <1>3 DEF StreamKey, Key

(* hash_ip and hash_cidr never return the marks of a vacant slot.          *)
LEMMA HashNotReserved ==
  ASSUME NEW k \in Key
  PROVE  hash_key(k) \in Nat /\ hash_key(k) >= 2
BY FnvAssumption DEF hash_key

LEMMA HomeInSlot ==
  ASSUME NEW k \in Key
  PROVE  home(k) \in Slot
BY HashNotReserved, CapacityAssumption DEF home, Slot

-----------------------------------------------------------------------------
(* The table: what it takes for a table to be well formed, and which       *)
(* updates keep it so.                                                     *)

Table == [Slot -> Entry]
TableOK(es) == es \in Table /\ RowsIn(es) /\ ReachableIn(es) /\ UniqueIn(es)

LEMMA EntryConstants ==
  /\ EmptyEntry \in Entry /\ is_vacant(EmptyEntry) /\ is_empty(EmptyEntry)
  /\ Tombstone \in Entry /\ is_vacant(Tombstone) /\ ~ is_empty(Tombstone)
BY DEF EmptyEntry, Tombstone, Entry, is_vacant, is_empty, is_tombstone,
       HASH_EMPTY, HASH_TOMBSTONE, NoExpiry, Expiry

(* find_slot returns a slot that holds the key.                            *)
LEMMA FindSlotMatches ==
  ASSUME NEW es, NEW k \in Key, found(es, k)
  PROVE  /\ find_slot(es, k) \in Slot
         /\ Occupied(es, find_slot(es, k))
         /\ es[find_slot(es, k)].key = k
<1> DEFINE i == CHOOSE i \in Offset : FindsAt(es, k, i)
<1>1. i \in Offset /\ FindsAt(es, k, i)
  BY DEF found
<1>2. ProbeAt(home(k), i) \in Slot
  BY <1>1, HomeInSlot, ProbeAtInSlot
<1>3. find_slot(es, k) = ProbeAt(home(k), i)
  BY DEF find_slot
<1>4. QED
  BY <1>1, <1>2, <1>3 DEF FindsAt, matches, Occupied

(* find_slot_ip and find_slot_cidr are complete: in a well-formed table    *)
(* they find every key that has a row.                                     *)
LEMMA FindSlotComplete ==
  ASSUME NEW es, TableOK(es), NEW k \in Key,
         NEW s \in Slot, Occupied(es, s), es[s].key = k
  PROVE  found(es, k) /\ find_slot(es, k) = s
<1>1. PICK i \in Offset :
        /\ s = ProbeAt(home(k), i)
        /\ \A j \in 0 .. i - 1 : ~ is_empty(es[ProbeAt(home(k), j)])
  BY DEF TableOK, ReachableIn
<1>2. matches(es[ProbeAt(home(k), i)], k)
  BY <1>1 DEF TableOK, RowsIn, Occupied, matches
<1>3. ASSUME NEW j \in 0 .. i - 1
      PROVE  ~ ProbeStops(es, k, j)
  <2>1. j \in Offset /\ j # i
    BY EarlierOffset
  <2>2. ProbeAt(home(k), j) \in Slot /\ ProbeAt(home(k), j) # s
    BY <1>1, <2>1, HomeInSlot, ProbeAtInSlot, ProbeAtInjective
  <2>3. ~ matches(es[ProbeAt(home(k), j)], k)
    BY <2>2 DEF TableOK, UniqueIn, Occupied, matches
  <2>4. QED
    BY <1>1, <2>3 DEF ProbeStops
<1>4. FindsAt(es, k, i)
  BY <1>2, <1>3 DEF FindsAt
<1>5. found(es, k)
  BY <1>4 DEF found
<1>6. find_slot(es, k) = s
  BY <1>5, FindSlotMatches DEF TableOK, UniqueIn
<1>7. QED
  BY <1>5, <1>6

(* find_vacant_slot returns a vacant slot, and no slot before it is        *)
(* vacant.                                                                 *)
LEMMA FindVacantSlot ==
  ASSUME NEW es, has_vacant_slot(es), NEW k \in Key
  PROVE  \E i \in Offset :
           /\ find_vacant_slot(es, k) = ProbeAt(home(k), i)
           /\ is_vacant(es[ProbeAt(home(k), i)])
           /\ \A j \in 0 .. i - 1 : ~ is_vacant(es[ProbeAt(home(k), j)])
<1> DEFINE T == {i \in Offset : is_vacant(es[ProbeAt(home(k), i)])}
           P(i) == /\ is_vacant(es[ProbeAt(home(k), i)])
                   /\ \A j \in 0 .. i - 1 : ~ is_vacant(es[ProbeAt(home(k), j)])
<1>1. PICK s \in Slot : is_vacant(es[s])
  BY DEF has_vacant_slot
<1>2. PICK i0 \in Offset : ProbeAt(home(k), i0) = s
  BY HomeInSlot, ProbeAtOnto
<1>3. T # {} /\ T \subseteq Offset
  BY <1>1, <1>2
<1>4. PICK i \in T : \A j \in 0 .. i - 1 : j \notin T
  BY <1>3, FirstOffset
<1>5. i \in Offset /\ \A j \in 0 .. i - 1 : j \in Offset
  BY <1>4, EarlierOffset
<1>6. P(i)
  BY <1>4, <1>5
<1>7. \E x \in Offset : P(x)
  BY <1>5, <1>6
<1>8. (CHOOSE x \in Offset : P(x)) \in Offset /\ P(CHOOSE x \in Offset : P(x))
  BY <1>7
<1>9. find_vacant_slot(es, k) = ProbeAt(home(k), CHOOSE x \in Offset : P(x))
  BY DEF find_vacant_slot
<1>10. QED
  BY <1>8, <1>9

(* mark_tombstone keeps a table well formed: the slot stays non-empty, so  *)
(* no probe stops there.                                                   *)
LEMMA TombstoneKeeps ==
  ASSUME NEW es, TableOK(es), NEW s \in Slot
  PROVE  TableOK([es EXCEPT ![s] = Tombstone])
<1> DEFINE fs == [es EXCEPT ![s] = Tombstone]
<1>1. fs \in Table
  BY EntryConstants DEF TableOK, Table
<1>2. \A r \in Slot : fs[r] = IF r = s THEN Tombstone ELSE es[r]
  BY DEF TableOK, Table
<1>3. \A r \in Slot : Occupied(fs, r) => r # s /\ Occupied(es, r) /\ fs[r] = es[r]
  BY <1>2, EntryConstants DEF Occupied
<1>4. \A r \in Slot : ~ is_empty(es[r]) => ~ is_empty(fs[r])
  BY <1>2, EntryConstants
<1>5. RowsIn(fs)
  BY <1>3 DEF TableOK, RowsIn
<1>6. UniqueIn(fs)
  BY <1>3 DEF TableOK, UniqueIn
<1>7. ReachableIn(fs)
  <2> SUFFICES ASSUME NEW r \in Slot, Occupied(fs, r)
               PROVE  \E i \in Offset :
                        /\ r = ProbeAt(home(fs[r].key), i)
                        /\ \A j \in 0 .. i - 1 :
                             ~ is_empty(fs[ProbeAt(home(fs[r].key), j)])
    BY DEF ReachableIn
  <2>1. fs[r] = es[r] /\ Occupied(es, r) /\ es[r].key \in Key
    BY <1>3, StreamKeyIsKey DEF TableOK, RowsIn
  <2>2. PICK i \in Offset :
          /\ r = ProbeAt(home(es[r].key), i)
          /\ \A j \in 0 .. i - 1 : ~ is_empty(es[ProbeAt(home(es[r].key), j)])
    BY <2>1 DEF TableOK, ReachableIn
  <2>3. \A j \in 0 .. i - 1 : ProbeAt(home(es[r].key), j) \in Slot
    BY <2>1, HomeInSlot, ProbeAtInSlot, EarlierOffset
  <2>4. QED
    BY <1>4, <2>1, <2>2, <2>3
<1>8. QED
  BY <1>1, <1>5, <1>6, <1>7 DEF TableOK

(* Writing a row keeps a table well formed when no other slot has the key  *)
(* and no slot before this one in the key's probe sequence is empty.       *)
LEMMA PutKeeps ==
  ASSUME NEW es, TableOK(es), NEW s \in Slot, NEW e \in Entry,
         ~ is_vacant(e), e.key \in StreamKey, e.hash = hash_key(e.key), e.types # {},
         \A r \in Slot : Occupied(es, r) /\ es[r].key = e.key => r = s,
         NEW i0 \in Offset, s = ProbeAt(home(e.key), i0),
         \A j \in 0 .. i0 - 1 : ~ is_empty(es[ProbeAt(home(e.key), j)])
  PROVE  TableOK([es EXCEPT ![s] = e])
<1> DEFINE fs == [es EXCEPT ![s] = e]
<1>1. fs \in Table
  BY DEF TableOK, Table
<1>2. fs[s] = e /\ \A r \in Slot : r # s => fs[r] = es[r]
  BY DEF TableOK, Table
<1>3. ~ is_empty(e)
  BY DEF is_vacant
<1>4. \A r \in Slot : ~ is_empty(es[r]) => ~ is_empty(fs[r])
  BY <1>2, <1>3
<1>5. RowsIn(fs)
  BY <1>2 DEF TableOK, RowsIn, Occupied
<1>6. UniqueIn(fs)
  BY <1>2 DEF TableOK, UniqueIn, Occupied
<1>7. ReachableIn(fs)
  <2> SUFFICES ASSUME NEW r \in Slot, Occupied(fs, r)
               PROVE  \E i \in Offset :
                        /\ r = ProbeAt(home(fs[r].key), i)
                        /\ \A j \in 0 .. i - 1 :
                             ~ is_empty(fs[ProbeAt(home(fs[r].key), j)])
    BY DEF ReachableIn
  <2>1. CASE r = s
    <3>1. \A j \in 0 .. i0 - 1 : ProbeAt(home(e.key), j) \in Slot
      BY StreamKeyIsKey, HomeInSlot, ProbeAtInSlot, EarlierOffset
    <3>2. QED
      BY <1>2, <1>4, <2>1, <3>1
  <2>2. CASE r # s
    <3>1. fs[r] = es[r] /\ Occupied(es, r) /\ es[r].key \in Key
      BY <1>2, <2>2, StreamKeyIsKey DEF TableOK, RowsIn, Occupied
    <3>2. PICK i \in Offset :
            /\ r = ProbeAt(home(es[r].key), i)
            /\ \A j \in 0 .. i - 1 : ~ is_empty(es[ProbeAt(home(es[r].key), j)])
      BY <3>1 DEF TableOK, ReachableIn
    <3>3. \A j \in 0 .. i - 1 : ProbeAt(home(es[r].key), j) \in Slot
      BY <3>1, HomeInSlot, ProbeAtInSlot, EarlierOffset
    <3>4. QED
      BY <1>4, <3>1, <3>2, <3>3
  <2>3. QED
    BY <2>1, <2>2
<1>8. QED
  BY <1>1, <1>5, <1>6, <1>7 DEF TableOK

-----------------------------------------------------------------------------
(* Rows: what the operations on a single entry return.                     *)

LEMMA PrunedRow ==
  ASSUME NEW e \in Entry, NEW t \in Nat
  PROVE  /\ prune_expired(e, t) \in Entry
         /\ prune_expired(e, t).key = e.key
         /\ prune_expired(e, t).hash = e.hash
         /\ prune_expired(e, t).scenario_id = e.scenario_id
         /\ (prune_expired(e, t).types = {}) <=> is_expired_at(e, t)
<1>1. active_mask(e.expires, e.types, t) \in SUBSET DecisionType
  BY DEF active_mask, Entry
<1>2. prune_inactive(e.expires, e.types, t) \in Expiry
  BY DEF prune_inactive, Expiry, Entry
<1>3. QED
  BY <1>1, <1>2 DEF prune_expired, is_expired_at, Entry

LEMMA RemovedBit ==
  ASSUME NEW e \in Entry, NEW t \in DecisionType
  PROVE  /\ remove_bit(e, t) \in Entry
         /\ remove_bit(e, t).key = e.key
         /\ remove_bit(e, t).hash = e.hash
         /\ remove_bit(e, t).scenario_id = e.scenario_id
<1>1. clear_bit(e.expires, t) \in Expiry
  BY DEF clear_bit, Expiry, Entry
<1>2. QED
  BY <1>1 DEF remove_bit, Entry

(* merge stays within the deadlines.                                       *)
LEMMA MergeType ==
  ASSUME NEW x \in Expiry, NEW present \in SUBSET DecisionType,
         NEW t \in DecisionType, NEW deadline \in Nat
  PROVE  merge(x, present, t, deadline) \in Expiry
BY DEF merge, LaterDeadline, Expiry

LEMMA MergedRow ==
  ASSUME NEW e \in Entry, NEW t \in DecisionType, NEW deadline \in Nat,
         NEW o \in Origins, NEW id \in Nat
  PROVE  LET m == merge_entry(e, t, deadline, o, id)
         IN  /\ m \in Entry /\ m.key = e.key /\ m.hash = e.hash /\ m.types # {}
             /\ m.scenario_id \in {id, e.scenario_id}
<1>1. merge(e.expires, e.types, t, deadline) \in Expiry
  BY MergeType DEF Entry
<1>2. QED
  BY <1>1 DEF merge_entry, Entry

LEMMA NewRow ==
  ASSUME NEW k \in StreamKey, NEW t \in DecisionType, NEW deadline \in Nat,
         NEW o \in Origins, NEW id \in Nat
  PROVE  LET m == new_entry(k, t, deadline, o, id)
         IN  /\ m \in Entry /\ m.key = k /\ m.hash = hash_key(k) /\ m.types # {}
             /\ m.scenario_id = id /\ ~ is_vacant(m)
<1>1. merge(NoExpiry, {}, t, deadline) \in Expiry
  BY MergeType DEF NoExpiry, Expiry
<1>2. k \in Key /\ hash_key(k) \in Nat /\ hash_key(k) >= 2
  BY StreamKeyIsKey, HashNotReserved
<1>3. QED
  BY <1>1, <1>2 DEF new_entry, Entry, is_vacant, is_empty, is_tombstone,
                    HASH_EMPTY, HASH_TOMBSTONE

(* A row whose hash is kept stays occupied.                                *)
LEMMA OccupiedByHash ==
  ASSUME NEW e, NEW f, e.hash = f.hash
  PROVE  is_vacant(e) <=> is_vacant(f)
BY DEF is_vacant, is_empty, is_tombstone

-----------------------------------------------------------------------------
(* count: how the number of rows changes with one slot.                    *)

Rows(es) == {s \in Slot : Occupied(es, s)}

LEMMA RowsFinite == ASSUME NEW es PROVE IsFiniteSet(Rows(es))
<1>1. IsFiniteSet(Slot)
  BY FS_Interval, CapacityAssumption DEF Slot
<1>2. QED
  BY <1>1, FS_Subset DEF Rows

LEMMA RowsPut ==
  ASSUME NEW es \in Table, NEW s \in Slot, NEW e, ~ is_vacant(e)
  PROVE  Cardinality(Rows([es EXCEPT ![s] = e])) =
           IF Occupied(es, s) THEN Cardinality(Rows(es)) ELSE Cardinality(Rows(es)) + 1
<1>1. Rows([es EXCEPT ![s] = e]) = Rows(es) \union {s}
  BY DEF Rows, Occupied, Table
<1>2. s \in Rows(es) <=> Occupied(es, s)
  BY DEF Rows
<1>3. QED
  BY <1>1, <1>2, RowsFinite, FS_AddElement

LEMMA RowsTombstone ==
  ASSUME NEW es \in Table, NEW s \in Slot, Occupied(es, s)
  PROVE  /\ Cardinality(Rows(es)) \in Nat \ {0}
         /\ Cardinality(Rows([es EXCEPT ![s] = Tombstone])) = Cardinality(Rows(es)) - 1
<1>1. Rows([es EXCEPT ![s] = Tombstone]) = Rows(es) \ {s}
  BY EntryConstants DEF Rows, Occupied, Table
<1>2. s \in Rows(es)
  BY DEF Rows
<1>3. Cardinality(Rows(es)) \in Nat /\ Cardinality(Rows(es)) # 0
  BY <1>2, RowsFinite, FS_CardinalityType, FS_EmptySet
<1>4. QED
  BY <1>1, <1>2, <1>3, RowsFinite, FS_RemoveElement

-----------------------------------------------------------------------------
(* The steps of the specification preserve IInv.                           *)

(* What the proofs of the add actions take from their parameters.          *)
AddInput(k, t, deadline, o, name) ==
  /\ k \in StreamKey /\ t \in DecisionType /\ deadline \in Nat /\ o \in Origins
  /\ name \in Scenarios \union {NoScenario}

(* get_or_create_scenario_id only ever extends the table, and the id it    *)
(* returns is in it.                                                       *)
LEMMA ScenarioStep ==
  ASSUME TypeOK, NEW name \in Scenarios \union {NoScenario}, remember_scenario(name)
  PROVE  /\ scenarios' \in Seq(Seq(STRING))
         /\ Len(scenarios) <= Len(scenarios')
         /\ \A i \in 1 .. Len(scenarios) : scenarios'[i] = scenarios[i]
         /\ scenario_id(name) \in Nat
         /\ scenario_id(name) <= Len(scenarios')
<1> DEFINE new == name # NoScenario /\ ~ known(name) /\ Len(scenarios) < MAX_SCENARIOS
<1>0. scenarios \in Seq(Seq(STRING)) /\ Len(scenarios) \in Nat
  BY DEF TypeOK
<1>1. CASE new
  <2>1. name \in Seq(STRING)
    BY <1>1, StreamAssumption
  <2>2. from_str(name) \in Seq(STRING)
    <3>1. CASE Len(name) <= MAX_SCENARIO_LEN
      BY <2>1, <3>1 DEF from_str
    <3>2. CASE ~ (Len(name) <= MAX_SCENARIO_LEN)
      <4>1. SubSeq(name, 1, MAX_SCENARIO_LEN) \in Seq(STRING)
        BY <2>1, <3>2, BoundAssumption, SubSeqProperties
      <4>2. QED
        BY <3>2, <4>1 DEF from_str
    <3>3. QED
      BY <3>1, <3>2
  <2>3. scenarios' = Append(scenarios, from_str(name))
    BY <1>1 DEF remember_scenario
  <2>4. scenario_id(name) = Len(scenarios) + 1
    BY <1>1 DEF scenario_id
  <2>5. QED
    BY <1>0, <2>2, <2>3, <2>4
<1>2. CASE ~ new
  <2>1. scenarios' = scenarios
    BY <1>2 DEF remember_scenario
  <2>2. CASE name # NoScenario /\ known(name)
    <3> DEFINE T == {i \in 1 .. Len(scenarios) : scenarios[i] = name}
               P(i) == scenarios[i] = name /\ \A j \in 1 .. i - 1 : scenarios[j] # name
    <3>1. T # {} /\ T \subseteq Nat
      BY <2>2 DEF known
    <3>2. PICK m \in T : \A n \in T : m <= n
      BY <3>1, LeastNat
    <3>3. m \in 1 .. Len(scenarios) /\ P(m)
      BY <1>0, <3>2
    <3>4. (CHOOSE i \in 1 .. Len(scenarios) : P(i)) \in 1 .. Len(scenarios)
      BY <3>3
    <3>5. scenario_id(name) = CHOOSE i \in 1 .. Len(scenarios) : P(i)
      BY <2>2 DEF scenario_id
    <3>6. QED
      BY <1>0, <2>1, <3>4, <3>5
  <2>3. CASE ~ (name # NoScenario /\ known(name))
    <3>1. scenario_id(name) = 0
      BY <1>2, <2>3 DEF scenario_id
    <3>2. QED
      BY <1>0, <2>1, <3>1
  <2>4. QED
    BY <2>2, <2>3
<1>3. QED
  BY <1>1, <1>2

(* mark_prefix_present runs before the row is written.                     *)
LEMMA MarkStep ==
  ASSUME cidr_prefixes \subseteq Prefix, NEW k \in StreamKey, mark_prefix_present(k)
  PROVE  /\ cidr_prefixes \subseteq cidr_prefixes'
         /\ cidr_prefixes' \subseteq Prefix
         /\ k.cidr => k.prefix \in cidr_prefixes'
<1>1. CASE k \in IpKey
  <2>1. k.cidr = FALSE
    BY <1>1 DEF IpKey, ip_key
  <2>2. QED
    BY <2>1 DEF mark_prefix_present
<1>2. CASE k \notin IpKey
  <2>1. PICK ip \in Ip : \E p \in CidrPrefixes[ip.family] : k = cidr_key(ip, p)
    BY <1>2 DEF StreamKey
  <2>2. PICK p \in CidrPrefixes[ip.family] : k = cidr_key(ip, p)
    BY <2>1
  <2>3. k.prefix = p /\ k.cidr = TRUE
    BY <2>2 DEF cidr_key
  <2>4. ip.family \in Family
    BY DEF Ip
  <2>5. p \in Prefix
    BY <2>2, <2>4, AddressAssumption DEF Prefix
  <2>6. QED
    BY <2>3, <2>5 DEF mark_prefix_present
<1>3. QED
  BY <1>1, <1>2

(* What each of the three ways to add a decision does to the table.        *)
AddedTo(k, id) ==
  /\ TableOK(entries')
  /\ count' = Cardinality(Rows(entries'))
  /\ clock_hand' \in Slot
  /\ eviction_count' \in Nat
  /\ \A s \in Slot : Occupied(entries', s) =>
       /\ \/ entries'[s].key = k
          \/ Occupied(entries, s) /\ entries'[s].key = entries[s].key
       /\ \/ entries'[s].scenario_id = id
          \/ Occupied(entries, s) /\ entries'[s].scenario_id = entries[s].scenario_id

LEMMA TableFromInv ==
  ASSUME IInv
  PROVE  TableOK(entries) /\ count = Cardinality(Rows(entries))
BY DEF IInv, TypeOK, Reachable, UniqueKeys, CountExact, TableOK, Table, Rows

LEMMA MergeStep ==
  ASSUME IInv, NEW k, NEW t, NEW deadline, NEW o, NEW name,
         AddInput(k, t, deadline, o, name), scenario_id(name) \in Nat,
         AddMerge(k, t, deadline, o, name)
  PROVE  AddedTo(k, scenario_id(name))
<1> DEFINE s == find_slot(entries, k)
           e0 == prune_expired(entries[s], now)
           e == merge_entry(e0, t, deadline, o, scenario_id(name))
<1>1. k \in Key /\ now \in Nat
  BY StreamKeyIsKey DEF AddInput, IInv, TypeOK, Time
<1>2. s \in Slot /\ Occupied(entries, s) /\ entries[s].key = k
  BY <1>1, FindSlotMatches DEF AddMerge
<1>3. TableOK(entries) /\ count = Cardinality(Rows(entries)) /\ entries \in Table
  BY TableFromInv DEF TableOK
<1>4. entries[s] \in Entry /\ entries[s].hash = hash_key(k)
  BY <1>2, <1>3 DEF Table, TableOK, RowsIn
<1>5. e \in Entry /\ e.key = k /\ e.hash = hash_key(k) /\ e.types # {}
      /\ e.scenario_id \in {scenario_id(name), entries[s].scenario_id}
  <2>1. /\ e0 \in Entry /\ e0.key = k /\ e0.hash = hash_key(k)
        /\ e0.scenario_id = entries[s].scenario_id
    BY <1>1, <1>2, <1>4, PrunedRow
  <2> HIDE DEF e0
  <2>2. t \in DecisionType /\ deadline \in Nat /\ o \in Origins
    BY DEF AddInput
  <2>3. QED
    BY <2>1, <2>2, MergedRow
<1>6. ~ is_vacant(e)
  BY <1>2, <1>4, <1>5, OccupiedByHash DEF Occupied
<1>7. entries' = [entries EXCEPT ![s] = e]
  BY <1>2, <1>3 DEF AddMerge, Table
<1>8. PICK i \in Offset :
        /\ s = ProbeAt(home(k), i)
        /\ \A j \in 0 .. i - 1 : ~ is_empty(entries[ProbeAt(home(k), j)])
  BY <1>2, <1>3 DEF TableOK, ReachableIn
<1>9. \A r \in Slot : Occupied(entries, r) /\ entries[r].key = k => r = s
  BY <1>2, <1>3 DEF TableOK, UniqueIn
<1>10. TableOK(entries')
  BY <1>2, <1>3, <1>5, <1>6, <1>7, <1>8, <1>9, PutKeeps DEF AddInput
<1>11. count' = Cardinality(Rows(entries'))
  BY <1>2, <1>3, <1>6, <1>7, RowsPut DEF AddMerge
<1>12. \A r \in Slot : r # s => entries'[r] = entries[r]
  BY <1>3, <1>7 DEF Table
<1>13. entries'[s] = e
  BY <1>2, <1>3, <1>7 DEF Table
<1>14. clock_hand' \in Slot /\ eviction_count' \in Nat
  BY DEF AddMerge, IInv, TypeOK
<1>15. QED
  BY <1>2, <1>5, <1>10, <1>11, <1>12, <1>13, <1>14 DEF AddedTo, Occupied

(* The table an insertion starts from has no row of the key.               *)
LEMMA DropStaleStep ==
  ASSUME IInv, NEW k \in StreamKey, found(entries, k) => Stale(k)
  PROVE  /\ TableOK(DropStale(k))
         /\ Cardinality(Rows(DropStale(k))) =
              IF Stale(k) THEN decremented(count) ELSE count
         /\ \A r \in Slot : Occupied(DropStale(k), r) =>
              /\ DropStale(k)[r].key # k
              /\ Occupied(entries, r)
              /\ DropStale(k)[r] = entries[r]
<1> DEFINE s == find_slot(entries, k)
<1>1. k \in Key
  BY StreamKeyIsKey
<1>2. TableOK(entries) /\ count = Cardinality(Rows(entries)) /\ entries \in Table
  BY TableFromInv DEF TableOK
<1>3. CASE Stale(k)
  <2>1. DropStale(k) = [entries EXCEPT ![s] = Tombstone]
    BY <1>3 DEF DropStale
  <2>2. s \in Slot /\ Occupied(entries, s) /\ entries[s].key = k
    BY <1>1, <1>3, FindSlotMatches DEF Stale
  <2>3. TableOK(DropStale(k))
    BY <1>2, <2>1, <2>2, TombstoneKeeps
  <2>4. Cardinality(Rows(DropStale(k))) = decremented(count)
    BY <1>2, <2>1, <2>2, RowsTombstone DEF decremented
  <2>5. \A r \in Slot : DropStale(k)[r] = IF r = s THEN Tombstone ELSE entries[r]
    BY <1>2, <2>1 DEF Table
  <2>6. \A r \in Slot : Occupied(DropStale(k), r) => r # s /\ Occupied(entries, r)
    BY <2>5, EntryConstants DEF Occupied
  <2>7. \A r \in Slot : Occupied(entries, r) /\ r # s => entries[r].key # k
    BY <1>2, <2>2 DEF TableOK, UniqueIn
  <2>8. QED
    BY <1>3, <2>3, <2>4, <2>5, <2>6, <2>7
<1>4. CASE ~ Stale(k)
  <2>1. DropStale(k) = entries
    BY <1>4 DEF DropStale
  <2>2. \A r \in Slot : Occupied(entries, r) => entries[r].key # k
    BY <1>1, <1>2, <1>4, FindSlotComplete
  <2>3. QED
    BY <1>2, <1>4, <2>1, <2>2
<1>5. QED
  BY <1>3, <1>4

LEMMA InsertStep ==
  ASSUME IInv, NEW k, NEW t, NEW deadline, NEW o, NEW name,
         AddInput(k, t, deadline, o, name), scenario_id(name) \in Nat,
         AddInsert(k, t, deadline, o, name)
  PROVE  AddedTo(k, scenario_id(name))
<1> DEFINE es == DropStale(k)
           s == find_vacant_slot(es, k)
           e == new_entry(k, t, deadline, o, scenario_id(name))
<1>1. k \in StreamKey /\ k \in Key
  BY StreamKeyIsKey DEF AddInput
<1>2. /\ TableOK(es) /\ es \in Table
      /\ Cardinality(Rows(es)) = IF Stale(k) THEN decremented(count) ELSE count
      /\ \A r \in Slot : Occupied(es, r) =>
           es[r].key # k /\ Occupied(entries, r) /\ es[r] = entries[r]
  BY <1>1, DropStaleStep DEF AddInsert, TableOK
<1>3. PICK i \in Offset :
        /\ s = ProbeAt(home(k), i)
        /\ is_vacant(es[ProbeAt(home(k), i)])
        /\ \A j \in 0 .. i - 1 : ~ is_vacant(es[ProbeAt(home(k), j)])
  BY <1>1, FindVacantSlot DEF AddInsert
<1>4. s \in Slot /\ ~ Occupied(es, s)
  BY <1>1, <1>3, HomeInSlot, ProbeAtInSlot DEF Occupied
<1>5. /\ e \in Entry /\ e.key = k /\ e.hash = hash_key(k) /\ e.types # {}
      /\ e.scenario_id = scenario_id(name) /\ ~ is_vacant(e)
  BY <1>1, NewRow DEF AddInput
<1>6. entries' = [es EXCEPT ![s] = e]
  BY DEF AddInsert
<1> HIDE DEF es, s, e
<1>7. \A j \in 0 .. i - 1 : ~ is_empty(es[ProbeAt(home(k), j)])
  BY <1>3 DEF is_vacant
<1>8. \A r \in Slot : Occupied(es, r) /\ es[r].key = k => r = s
  BY <1>2
<1>9. TableOK(entries')
  BY <1>1, <1>2, <1>3, <1>4, <1>5, <1>6, <1>7, <1>8, PutKeeps
<1>10. count' = Cardinality(Rows(entries'))
  <2>1. count' = (IF Stale(k) THEN decremented(count) ELSE count) + 1
    BY DEF AddInsert
  <2>2. Cardinality(Rows(entries')) = Cardinality(Rows(es)) + 1
    BY <1>2, <1>4, <1>5, <1>6, RowsPut
  <2>3. QED
    BY <1>2, <2>1, <2>2, Zenon
<1>11. entries'[s] = e /\ \A r \in Slot : r # s => entries'[r] = es[r]
  BY <1>2, <1>4, <1>6 DEF Table
<1>12. clock_hand' \in Slot /\ eviction_count' \in Nat
  BY DEF AddInsert, IInv, TypeOK
<1>13. \A r \in Slot : Occupied(entries', r) /\ r # s =>
         Occupied(entries, r) /\ entries'[r] = entries[r]
  BY <1>2, <1>11 DEF Occupied
<1>14. QED
  BY <1>5, <1>9, <1>10, <1>11, <1>12, <1>13 DEF AddedTo

(* evict_clock always finds a victim in a full table, and an expired one   *)
(* if there is one.                                                        *)
LEMMA EvictClock ==
  ASSUME clock_hand \in Slot, \A s \in Slot : Occupied(entries, s)
  PROVE  /\ evict_clock \in Slot
         /\ (\E s \in Slot : Evictable(TRUE, s)) => Evictable(TRUE, evict_clock)
<1> DEFINE expired_only == \E s \in Slot : Evictable(TRUE, s)
           T == {i \in Offset : Evictable(expired_only, ProbeAt(clock_hand, i))}
           P(i) == /\ Evictable(expired_only, ProbeAt(clock_hand, i))
                   /\ \A j \in 0 .. i - 1 :
                        ~ Evictable(expired_only, ProbeAt(clock_hand, j))
<1>1. \E s \in Slot : Evictable(expired_only, s)
  <2>1. CASE expired_only
    <3>1. PICK s \in Slot : Evictable(TRUE, s)
      BY <2>1
    <3>2. Evictable(expired_only, s)
      BY <2>1, <3>1 DEF Evictable
    <3>3. QED
      BY <3>2
  <2>2. CASE ~ expired_only
    <3>1. Evictable(expired_only, clock_hand)
      BY <2>2 DEF Evictable, Occupied
    <3>2. QED
      BY <3>1
  <2>3. QED
    BY <2>1, <2>2
<1> HIDE DEF expired_only
<1>2. PICK s \in Slot : Evictable(expired_only, s)
  BY <1>1
<1>3. PICK i0 \in Offset : ProbeAt(clock_hand, i0) = s
  BY ProbeAtOnto
<1>4. T # {} /\ T \subseteq Offset
  BY <1>2, <1>3
<1>5. PICK i \in T : \A j \in 0 .. i - 1 : j \notin T
  BY <1>4, FirstOffset
<1>6. i \in Offset /\ \A j \in 0 .. i - 1 : j \in Offset
  BY <1>5, EarlierOffset
<1>7. P(i)
  BY <1>5, <1>6
<1> DEFINE c == CHOOSE x \in Offset : P(x)
<1>8. c \in Offset /\ Evictable(expired_only, ProbeAt(clock_hand, c))
  BY <1>6, <1>7
<1>9. evict_clock = ProbeAt(clock_hand, CHOOSE x \in Offset : P(x))
  BY DEF evict_clock, expired_only
<1>10. expired_only => Evictable(TRUE, ProbeAt(clock_hand, c))
  BY <1>8 DEF Evictable
<1>11. QED
  BY <1>8, <1>9, <1>10, ProbeAtInSlot DEF expired_only

LEMMA EvictStep ==
  ASSUME IInv, NEW k, NEW t, NEW deadline, NEW o, NEW name,
         AddInput(k, t, deadline, o, name), scenario_id(name) \in Nat,
         AddEvict(k, t, deadline, o, name)
  PROVE  AddedTo(k, scenario_id(name))
<1> DEFINE s == evict_clock
           e == new_entry(k, t, deadline, o, scenario_id(name))
<1>1. k \in StreamKey /\ k \in Key
  BY StreamKeyIsKey DEF AddInput
<1>2. TableOK(entries) /\ count = Cardinality(Rows(entries)) /\ entries \in Table
  BY TableFromInv DEF TableOK
<1>3. /\ \A r \in Slot : Occupied(DropStale(k), r)
      /\ \A r \in Slot : Occupied(entries, r) /\ entries[r].key # k
  BY <1>1, DropStaleStep DEF AddEvict, has_vacant_slot, Occupied
<1>4. s \in Slot
  BY <1>3, EvictClock DEF IInv, TypeOK
<1>5. /\ e \in Entry /\ e.key = k /\ e.hash = hash_key(k) /\ e.types # {}
      /\ e.scenario_id = scenario_id(name) /\ ~ is_vacant(e)
  BY <1>1, NewRow DEF AddInput
<1>6. entries' = [entries EXCEPT ![s] = e]
  BY DEF AddEvict
<1>7. clock_hand' \in Slot /\ eviction_count' \in Nat
  BY <1>4, CapacityAssumption DEF AddEvict, hand_after, IInv, TypeOK, Slot
<1>8. count' = decremented(count) + 1
  BY DEF AddEvict
<1> HIDE DEF s, e
<1>9. PICK i \in Offset : ProbeAt(home(k), i) = s
  BY <1>1, <1>4, HomeInSlot, ProbeAtOnto
<1>10. \A j \in 0 .. i - 1 : ~ is_empty(entries[ProbeAt(home(k), j)])
  BY <1>1, <1>3, HomeInSlot, ProbeAtInSlot, EarlierOffset DEF Occupied, is_vacant
<1>11. TableOK(entries')
  BY <1>1, <1>2, <1>3, <1>4, <1>5, <1>6, <1>9, <1>10, PutKeeps
<1>12. count' = Cardinality(Rows(entries'))
  <2>1. count \in Nat \ {0}
    BY <1>2, <1>3, <1>4, RowsTombstone
  <2>2. Cardinality(Rows(entries')) = count
    BY <1>2, <1>3, <1>4, <1>5, <1>6, RowsPut
  <2>3. QED
    BY <1>8, <2>1, <2>2 DEF decremented
<1>13. entries'[s] = e /\ \A r \in Slot : r # s => entries'[r] = entries[r]
  BY <1>2, <1>4, <1>6 DEF Table
<1>14. QED
  BY <1>3, <1>5, <1>7, <1>11, <1>12, <1>13 DEF AddedTo

LEMMA AddStep ==
  ASSUME IInv, Add
  PROVE  IInv'
<1>1. PICK k \in StreamKey, t \in StreamTypes, d \in Durations, asked \in AskedAt,
           o \in Origins, name \in Scenarios \union {NoScenario} :
        add_decision(k, t, deadline_of(asked, d), o, name)
  BY DEF Add
<1> DEFINE deadline == deadline_of(asked, d)
           id == scenario_id(name)
<1>2. deadline \in Nat
  BY StreamAssumption DEF deadline_of, AskedAt, Time
<1>3. AddInput(k, t, deadline, o, name)
  BY <1>2, StreamAssumption DEF AddInput
<1>4. /\ scenarios' \in Seq(Seq(STRING)) /\ Len(scenarios) <= Len(scenarios')
      /\ id \in Nat /\ id <= Len(scenarios')
  BY <1>1, ScenarioStep DEF add_decision, IInv
<1>5. /\ cidr_prefixes \subseteq cidr_prefixes' /\ cidr_prefixes' \subseteq Prefix
      /\ k.cidr => k.prefix \in cidr_prefixes'
  BY <1>1, MarkStep DEF add_decision, IInv, TypeOK
<1>6. AddedTo(k, id)
  <2>1. CASE AddMerge(k, t, deadline, o, name)
    BY <1>3, <1>4, <2>1, MergeStep
  <2>2. CASE AddInsert(k, t, deadline, o, name)
    BY <1>3, <1>4, <2>2, InsertStep
  <2>3. CASE AddEvict(k, t, deadline, o, name)
    BY <1>3, <1>4, <2>3, EvictStep
  <2>4. QED
    BY <1>1, <2>1, <2>2, <2>3 DEF add_decision
<1>7. now' = now
  BY <1>1 DEF add_decision
<1> HIDE DEF id, deadline
<1>8. CountExact' /\ count' \in Nat
  BY <1>6, RowsFinite, FS_CardinalityType DEF AddedTo, CountExact, Rows
<1>9. TypeOK'
  BY <1>4, <1>5, <1>6, <1>7, <1>8 DEF AddedTo, TableOK, Table, TypeOK, IInv
<1>10. PrefixesMarked'
  BY <1>5, <1>6 DEF AddedTo, PrefixesMarked, IInv
<1>11. ScenarioIdsKnown'
  <2> SUFFICES ASSUME NEW s \in Slot, Occupied(entries', s)
               PROVE  entries'[s].scenario_id <= Len(scenarios')
    BY DEF ScenarioIdsKnown
  <2>1. CASE entries'[s].scenario_id = id
    BY <1>4, <2>1
  <2>2. CASE Occupied(entries, s) /\ entries'[s].scenario_id = entries[s].scenario_id
    <3>1. entries[s].scenario_id <= Len(scenarios) /\ entries[s].scenario_id \in Nat
      BY <2>2 DEF IInv, ScenarioIdsKnown, TypeOK, Entry
    <3>2. Len(scenarios) \in Nat /\ Len(scenarios') \in Nat
      BY <1>4 DEF IInv, TypeOK
    <3>3. QED
      BY <1>4, <2>2, <3>1, <3>2
  <2>3. QED
    BY <1>6, <2>1, <2>2 DEF AddedTo
<1>12. QED
  BY <1>6, <1>8, <1>9, <1>10, <1>11
     DEF IInv, AddedTo, TableOK, Reachable, UniqueKeys

LEMMA RemoveStep ==
  ASSUME IInv, Remove
  PROVE  IInv'
<1>1. PICK k \in StreamKey, t \in StreamTypes : remove_decision_type(k, t)
  BY DEF Remove
<1> DEFINE s == find_slot(entries, k)
           e0 == prune_expired(entries[s], now)
           e == remove_bit(e0, t)
<1>2. k \in Key /\ t \in DecisionType /\ now \in Nat
  BY StreamKeyIsKey, StreamAssumption DEF IInv, TypeOK, Time
<1>3. s \in Slot /\ Occupied(entries, s) /\ entries[s].key = k
  BY <1>1, <1>2, FindSlotMatches DEF remove_decision_type
<1>4. TableOK(entries) /\ count = Cardinality(Rows(entries)) /\ entries \in Table
  BY TableFromInv DEF TableOK
<1>5. entries[s] \in Entry /\ entries[s].hash = hash_key(k)
  BY <1>3, <1>4 DEF Table, TableOK, RowsIn
<1>6. e0 \in Entry /\ e0.key = k /\ e0.hash = hash_key(k)
      /\ e0.scenario_id = entries[s].scenario_id
  BY <1>2, <1>3, <1>5, PrunedRow
<1>7. /\ entries' = [entries EXCEPT ![s] = IF e.types = {} THEN Tombstone ELSE e]
      /\ count' = IF e.types = {} THEN decremented(count) ELSE count
      /\ UNCHANGED <<clock_hand, eviction_count, cidr_prefixes, scenarios, now>>
  BY <1>1 DEF remove_decision_type
<1> HIDE DEF e0
<1>8. e \in Entry /\ e.key = k /\ e.hash = hash_key(k)
      /\ e.scenario_id = entries[s].scenario_id
  BY <1>2, <1>6, RemovedBit
<1> HIDE DEF s, e
<1>9. CASE e.types = {}
  <2>1. entries' = [entries EXCEPT ![s] = Tombstone]
    BY <1>7, <1>9
  <2>2. TableOK(entries')
    BY <1>3, <1>4, <2>1, TombstoneKeeps
  <2>3. count' = Cardinality(Rows(entries'))
    BY <1>3, <1>4, <1>7, <1>9, <2>1, RowsTombstone DEF decremented
  <2>4. \A r \in Slot : Occupied(entries', r) =>
          Occupied(entries, r) /\ entries'[r] = entries[r]
    BY <1>3, <1>4, <2>1, EntryConstants DEF Table, Occupied
  <2>5. CountExact' /\ count' \in Nat
    BY <2>3, RowsFinite, FS_CardinalityType DEF CountExact, Rows
  <2>6. TypeOK'
    BY <1>7, <2>2, <2>5 DEF TableOK, Table, TypeOK, IInv
  <2>7. PrefixesMarked' /\ ScenarioIdsKnown'
    BY <1>7, <2>4 DEF PrefixesMarked, ScenarioIdsKnown, IInv
  <2>8. QED
    BY <2>2, <2>5, <2>6, <2>7 DEF IInv, TableOK, Reachable, UniqueKeys
<1>10. CASE e.types # {}
  <2>1. entries' = [entries EXCEPT ![s] = e]
    BY <1>7, <1>10
  <2>2. ~ is_vacant(e)
    BY <1>3, <1>5, <1>8, OccupiedByHash DEF Occupied
  <2>3. PICK i \in Offset :
          /\ s = ProbeAt(home(k), i)
          /\ \A j \in 0 .. i - 1 : ~ is_empty(entries[ProbeAt(home(k), j)])
    BY <1>3, <1>4 DEF TableOK, ReachableIn
  <2>4. \A r \in Slot : Occupied(entries, r) /\ entries[r].key = k => r = s
    BY <1>3, <1>4 DEF TableOK, UniqueIn
  <2>5. TableOK(entries')
    BY <1>3, <1>4, <1>8, <1>10, <2>1, <2>2, <2>3, <2>4, PutKeeps
  <2>6. count' = Cardinality(Rows(entries'))
    BY <1>3, <1>4, <1>7, <1>10, <2>1, <2>2, RowsPut
  <2>7. \A r \in Slot : Occupied(entries', r) =>
          /\ Occupied(entries, r) /\ entries'[r].key = entries[r].key
          /\ entries'[r].scenario_id = entries[r].scenario_id
    BY <1>3, <1>4, <1>8, <2>1 DEF Table, Occupied
  <2>8. CountExact' /\ count' \in Nat
    BY <2>6, RowsFinite, FS_CardinalityType DEF CountExact, Rows
  <2>9. TypeOK'
    BY <1>7, <2>5, <2>8 DEF TableOK, Table, TypeOK, IInv
  <2>10. PrefixesMarked' /\ ScenarioIdsKnown'
    BY <1>7, <2>7 DEF PrefixesMarked, ScenarioIdsKnown, IInv
  <2>11. QED
    BY <2>5, <2>8, <2>9, <2>10 DEF IInv, TableOK, Reachable, UniqueKeys
<1>11. QED
  BY <1>9, <1>10

(* An empty table is well formed.                                          *)
LEMMA EmptyTable ==
  ASSUME NEW es, es = [s \in Slot |-> EmptyEntry]
  PROVE  /\ TableOK(es) /\ Cardinality(Rows(es)) = 0
         /\ \A s \in Slot : ~ Occupied(es, s)
<1>1. \A s \in Slot : ~ Occupied(es, s)
  BY EntryConstants DEF Occupied
<1>2. es \in Table
  BY EntryConstants DEF Table
<1>3. Rows(es) = {}
  BY <1>1 DEF Rows
<1>4. QED
  BY <1>1, <1>2, <1>3, FS_EmptySet DEF TableOK, RowsIn, ReachableIn, UniqueIn

(* Every step preserves the invariant.                                     *)
LEMMA IInvInductive == IInv /\ [Next]_vars => IInv'
<1> SUFFICES ASSUME IInv, [Next]_vars PROVE IInv'
  OBVIOUS
<1>1. CASE Add
  BY <1>1, AddStep
<1>2. CASE Remove
  BY <1>2, RemoveStep
<1>3. CASE clear_all
  <2>1. /\ TableOK(entries') /\ Cardinality(Rows(entries')) = 0
        /\ \A s \in Slot : ~ Occupied(entries', s)
    BY <1>3, EmptyTable DEF clear_all
  <2>2. 0 \in Slot
    BY CapacityAssumption DEF Slot
  <2>3. TypeOK'
    BY <1>3, <2>1, <2>2 DEF clear_all, TypeOK, IInv, TableOK, Table
  <2>4. CountExact' /\ PrefixesMarked' /\ ScenarioIdsKnown'
    BY <1>3, <2>1 DEF clear_all, CountExact, Rows, PrefixesMarked, ScenarioIdsKnown
  <2>5. QED
    BY <2>1, <2>3, <2>4 DEF IInv, TableOK, Reachable, UniqueKeys
<1>4. CASE Tick
  <2>1. now' \in Time
    BY <1>4, BoundAssumption DEF Tick, IInv, TypeOK, Time
  <2>2. UNCHANGED <<entries, count, clock_hand, eviction_count, cidr_prefixes, scenarios>>
    BY <1>4 DEF Tick, tableVars
  <2>3. QED
    BY <2>1, <2>2 DEF IInv, TypeOK, Reachable, UniqueKeys, PrefixesMarked,
                      ScenarioIdsKnown, CountExact
<1>5. CASE UNCHANGED vars
  BY <1>5 DEF vars, IInv, TypeOK, Reachable, UniqueKeys, PrefixesMarked,
              ScenarioIdsKnown, CountExact
<1>6. QED
  BY <1>1, <1>2, <1>3, <1>4, <1>5 DEF Next

LEMMA InitIInv == Init => IInv
<1> SUFFICES ASSUME Init PROVE IInv
  OBVIOUS
<1>1. /\ TableOK(entries) /\ Cardinality(Rows(entries)) = 0
      /\ \A s \in Slot : ~ Occupied(entries, s)
  BY EmptyTable DEF Init
<1>2. 0 \in Slot /\ 1 \in Time
  BY CapacityAssumption, BoundAssumption DEF Slot, Time
<1>3. TypeOK
  BY <1>1, <1>2 DEF Init, TypeOK, TableOK, Table
<1>4. CountExact /\ PrefixesMarked /\ ScenarioIdsKnown
  BY <1>1 DEF Init, CountExact, Rows, PrefixesMarked, ScenarioIdsKnown
<1>5. QED
  BY <1>1, <1>3, <1>4 DEF IInv, TableOK, Reachable, UniqueKeys

(* The inductive invariant holds in every state of the cache.              *)
THEOREM CacheInvariant == Spec => []IInv
BY InitIInv, IInvInductive, PTL DEF Spec

(* Every field of the shared header and of the rows keeps its type.        *)
THEOREM CacheTypeCorrect == Spec => []TypeOK
<1>1. IInv => TypeOK
  BY DEF IInv
<1>2. QED
  BY <1>1, CacheInvariant, PTL

(* No operation ever cuts a key off from its probe sequence.               *)
THEOREM CacheReachable == Spec => []Reachable
<1>1. IInv => Reachable
  BY DEF IInv
<1>2. QED
  BY <1>1, CacheInvariant, PTL

(* No key ever has two rows.                                               *)
THEOREM CacheUniqueKeys == Spec => []UniqueKeys
<1>1. IInv => UniqueKeys
  BY DEF IInv
<1>2. QED
  BY <1>1, CacheInvariant, PTL

(* count is the number of rows, so no decrement saturates.                 *)
THEOREM CacheCountExact == Spec => []CountExact
<1>1. IInv => CountExact
  BY DEF IInv
<1>2. QED
  BY <1>1, CacheInvariant, PTL

-----------------------------------------------------------------------------
(* Lookups.                                                                *)

(* The probing search and the search of the whole table agree.             *)
LEMMA FindsActiveExact ==
  ASSUME IInv, NEW k \in Key
  PROVE  /\ finds_active(k) <=> InForce(k)
         /\ finds_active(k) => entries[find_slot(entries, k)] = RowOf(k)
<1>1. TableOK(entries)
  BY TableFromInv
<1>2. ASSUME HasRow(k)
      PROVE  found(entries, k) /\ entries[find_slot(entries, k)] = RowOf(k)
  <2> DEFINE s == CHOOSE s \in Slot : Occupied(entries, s) /\ entries[s].key = k
  <2>1. s \in Slot /\ Occupied(entries, s) /\ entries[s].key = k
    BY <1>2 DEF HasRow
  <2>2. found(entries, k) /\ find_slot(entries, k) = s
    BY <1>1, <2>1, FindSlotComplete
  <2>3. QED
    BY <2>2 DEF RowOf
<1>3. ASSUME found(entries, k) PROVE HasRow(k)
  BY <1>3, FindSlotMatches DEF HasRow
<1>4. QED
  BY <1>2, <1>3 DEF finds_active, InForce

(* lookup_cidr skips no prefix length that matters.                        *)
LEMMA CidrHitExact ==
  ASSUME IInv, NEW ip \in Ip, NEW p \in 0 .. Bits[ip.family]
  PROVE  CidrHit(ip, p) <=> InForce(cidr_key(ip, p))
<1>1. cidr_key(ip, p) \in Key
  BY DEF Key, CidrKey
<1>2. cidr_key(ip, p).cidr /\ cidr_key(ip, p).prefix = p
  BY DEF cidr_key
<1>3. ASSUME InForce(cidr_key(ip, p)) PROVE prefix_is_present(p)
  <2>1. PICK s \in Slot : Occupied(entries, s) /\ entries[s].key = cidr_key(ip, p)
    BY <1>3 DEF InForce, HasRow
  <2>2. QED
    BY <1>2, <2>1 DEF IInv, PrefixesMarked, prefix_is_present
<1>4. QED
  BY <1>1, <1>3, FindsActiveExact DEF CidrHit

(* Some prefix length is the longest.                                      *)
LEMMA LongestPrefix ==
  ASSUME NEW b \in Nat, NEW T, T \subseteq 0 .. b, T # {}
  PROVE  \E p \in T : \A q \in T : q <= p
<1> DEFINE U == {n \in 0 .. b : b - n \in T}
<1>1. U \subseteq Nat /\ U # {}
  <2>1. PICK q \in T : TRUE
    OBVIOUS
  <2>2. b - q \in 0 .. b /\ b - (b - q) = q
    OBVIOUS
  <2>3. QED
    BY <2>1, <2>2
<1>2. PICK m \in U : \A n \in U : m <= n
  BY <1>1, LeastNat
<1>3. ASSUME NEW q \in T PROVE b - q \in U /\ q \in 0 .. b
  <2>1. q \in 0 .. b /\ b - q \in 0 .. b /\ b - (b - q) = q
    OBVIOUS
  <2>2. QED
    BY <2>1
<1>4. b - m \in T /\ m \in 0 .. b
  BY <1>2
<1>5. ASSUME NEW q \in T PROVE q <= b - m
  <2>1. m <= b - q
    BY <1>2, <1>3
  <2>2. q \in 0 .. b
    OBVIOUS
  <2>3. QED
    BY <1>4, <2>1, <2>2
<1>6. QED
  BY <1>4, <1>5

LEMMA LookupFromInv == IInv => LookupExact
<1> SUFFICES ASSUME IInv, NEW ip \in Ip
             PROVE  LET Ranges == {p \in 0 .. Bits[ip.family] : InForce(cidr_key(ip, p))}
                    IN  CASE InForce(ip_key(ip)) ->
                               lookup_ip(ip) = result_of(RowOf(ip_key(ip)))
                          [] ~ InForce(ip_key(ip)) /\ Ranges # {} ->
                               \E p \in Ranges :
                                 /\ \A q \in Ranges : q <= p
                                 /\ lookup_ip(ip) = result_of(RowOf(cidr_key(ip, p)))
                          [] OTHER -> lookup_ip(ip) = NotFound
  BY DEF LookupExact
<1> DEFINE b == Bits[ip.family]
           Ranges == {p \in 0 .. b : InForce(cidr_key(ip, p))}
           Best(p) == CidrHit(ip, p) /\ \A q \in p + 1 .. b : ~ CidrHit(ip, q)
<1>1. ip_key(ip) \in Key
  BY DEF Key, IpKey
<1>2. ip.family \in Family /\ b \in Nat
  BY AddressAssumption DEF Ip
<1>3. \A p \in 0 .. b : CidrHit(ip, p) <=> p \in Ranges
  BY CidrHitExact
<1>4. CASE InForce(ip_key(ip))
  BY <1>1, <1>4, FindsActiveExact DEF lookup_ip
<1>5. CASE ~ InForce(ip_key(ip))
  <2>1. lookup_ip(ip) = lookup_cidr(ip)
    BY <1>1, <1>5, FindsActiveExact DEF lookup_ip
  <2>2. CASE Ranges # {}
    <3>1. PICK p \in Ranges : \A q \in Ranges : q <= p
      BY <1>2, <2>2, LongestPrefix
    <3>2. p \in 0 .. b /\ Best(p)
      BY <1>2, <1>3, <3>1
    <3>3. ASSUME NEW r \in 0 .. b, Best(r) PROVE r = p
      BY <1>2, <1>3, <3>1, <3>2, <3>3
    <3>4. (CHOOSE r \in 0 .. b : Best(r)) = p
      BY <3>2, <3>3
    <3>5. lookup_cidr(ip) = result_of(entries[find_slot(entries, cidr_key(ip, p))])
      BY <3>2, <3>4 DEF lookup_cidr
    <3>6. cidr_key(ip, p) \in Key /\ finds_active(cidr_key(ip, p))
      BY <3>2 DEF Key, CidrKey, CidrHit
    <3>7. entries[find_slot(entries, cidr_key(ip, p))] = RowOf(cidr_key(ip, p))
      BY <3>6, FindsActiveExact
    <3>8. QED
      BY <1>5, <2>1, <2>2, <3>1, <3>5, <3>7
  <2>3. CASE Ranges = {}
    <3>1. lookup_cidr(ip) = NotFound
      BY <1>3, <2>3 DEF lookup_cidr
    <3>2. QED
      BY <1>5, <2>1, <2>3, <3>1
  <2>4. QED
    BY <2>2, <2>3
<1>6. QED
  BY <1>4, <1>5

(* For every address, in every state: lookup_ip returns the decision in    *)
(* force for the address itself, else for the longest range around it,     *)
(* else nothing.                                                           *)
THEOREM CacheLookupExact == Spec => []LookupExact
BY LookupFromInv, CacheInvariant, PTL

(* No step renumbers or rewrites a scenario: get_or_create_scenario_id     *)
(* only appends, and clear_all leaves the scenario table alone.            *)
LEMMA ScenariosKept ==
  ASSUME TypeOK, [Next]_vars
  PROVE  \A i \in 1 .. Len(scenarios) :
           i <= Len(scenarios') /\ scenarios'[i] = scenarios[i]
<1>1. scenarios \in Seq(Seq(STRING))
  BY DEF TypeOK
<1>3. CASE Add
  <2>1. PICK name \in Scenarios \union {NoScenario} : remember_scenario(name)
    BY <1>3 DEF Add, add_decision
  <2>2. scenarios' \in Seq(Seq(STRING)) /\ Len(scenarios) <= Len(scenarios')
        /\ \A i \in 1 .. Len(scenarios) : scenarios'[i] = scenarios[i]
    BY <2>1, ScenarioStep
  <2> QED
    BY <1>1, <2>2
<1>4. CASE Remove
  BY <1>1, <1>4 DEF Remove, remove_decision_type
<1>5. CASE clear_all \/ Tick \/ UNCHANGED vars
  BY <1>1, <1>5 DEF clear_all, Tick, vars
<1> QED
  BY <1>3, <1>4, <1>5 DEF Next

(* A scenario id a lookup has returned names the same scenario for ever,   *)
(* whatever the poller does between lookup_ip and get_scenario.            *)
THEOREM CacheScenarioIdsStable == Spec => ScenarioIdsStable
<1>1. TypeOK /\ [Next]_vars =>
        [\A i \in 1 .. Len(scenarios) :
           i <= Len(scenarios') /\ scenarios'[i] = scenarios[i]]_vars
  BY ScenariosKept
<1> QED
  BY <1>1, CacheTypeCorrect, PTL DEF Spec, ScenarioIdsStable

(* A name that get_or_create_scenario_id appends and that is shorter than  *)
(* MAX_SCENARIO_LEN was not cut, and was not in the table.                 *)
LEMMA ShortNamesStep ==
  ASSUME TypeOK, ShortNamesOnce, [Next]_vars
  PROVE  ShortNamesOnce'
<1>1. scenarios \in Seq(Seq(STRING)) /\ Len(scenarios) \in Nat
  BY DEF TypeOK
<1>2. ASSUME scenarios' = scenarios PROVE ShortNamesOnce'
  BY <1>2 DEF ShortNamesOnce
<1>3. ASSUME NEW name \in Scenarios \union {NoScenario}, remember_scenario(name)
      PROVE  ShortNamesOnce'
  <2>1. CASE scenarios' = scenarios
    BY <1>2, <2>1
  <2>2. CASE scenarios' # scenarios
    <3>1. /\ name # NoScenario /\ ~ known(name)
          /\ scenarios' = Append(scenarios, from_str(name))
      BY <1>3, <2>2 DEF remember_scenario
    <3>2. name \in Seq(STRING) /\ MAX_SCENARIO_LEN \in Nat
      BY <3>1, StreamAssumption, BoundAssumption
    <3>3. Len(from_str(name)) < MAX_SCENARIO_LEN => from_str(name) = name
      <4>1. CASE Len(name) <= MAX_SCENARIO_LEN
        BY <4>1 DEF from_str
      <4>2. CASE ~ (Len(name) <= MAX_SCENARIO_LEN)
        <5>1. Len(SubSeq(name, 1, MAX_SCENARIO_LEN)) = MAX_SCENARIO_LEN
          BY <3>2, <4>2, SubSeqProperties
        <5> QED
          BY <3>2, <4>2, <5>1 DEF from_str
      <4> QED
        BY <4>1, <4>2
    <3>4. \A i \in 1 .. Len(scenarios) : scenarios[i] # name
      BY <3>1 DEF known
    <3>5. /\ Len(scenarios') = Len(scenarios) + 1
          /\ scenarios'[Len(scenarios) + 1] = from_str(name)
          /\ \A i \in 1 .. Len(scenarios) : scenarios'[i] = scenarios[i]
      BY <1>1, <3>1
    <3> SUFFICES ASSUME NEW i \in 1 .. Len(scenarios) + 1,
                        NEW j \in 1 .. Len(scenarios) + 1,
                        scenarios'[i] = scenarios'[j],
                        Len(scenarios'[i]) < MAX_SCENARIO_LEN
                 PROVE  i = j
      BY <3>5 DEF ShortNamesOnce
    <3>6. CASE i \in 1 .. Len(scenarios) /\ j \in 1 .. Len(scenarios)
      BY <3>5, <3>6 DEF ShortNamesOnce
    <3>7. CASE i = Len(scenarios) + 1 /\ j \in 1 .. Len(scenarios)
      BY <3>3, <3>4, <3>5, <3>7
    <3>8. CASE i \in 1 .. Len(scenarios) /\ j = Len(scenarios) + 1
      BY <3>3, <3>4, <3>5, <3>8
    <3> QED
      BY <1>1, <3>6, <3>7, <3>8
  <2> QED
    BY <2>1, <2>2
<1>4. CASE Add
  BY <1>3, <1>4 DEF Add, add_decision
<1>5. CASE Remove \/ clear_all \/ Tick \/ UNCHANGED vars
  BY <1>2, <1>5 DEF Remove, remove_decision_type, clear_all, Tick, vars
<1> QED
  BY <1>4, <1>5 DEF Next

(* Short scenario names are in the table once, whatever is added and       *)
(* cleared: get_or_create_scenario_id gives one name one id.               *)
THEOREM CacheShortNamesOnce == Spec => []ShortNamesOnce
<1>1. Init => ShortNamesOnce
  BY DEF Init, ShortNamesOnce
<1>2. TypeOK /\ ShortNamesOnce /\ [Next]_vars => ShortNamesOnce'
  BY ShortNamesStep
<1> QED
  BY <1>1, <1>2, CacheTypeCorrect, PTL DEF Spec

-----------------------------------------------------------------------------
(* The cache implements DecisionStore.  A table shows a store: what is in  *)
(* force for each key at a given time.                                     *)

UntilBar(e, t) ==
  [r \in DecisionType |->
     IF r \in active_mask(e.expires, e.types, t) THEN EndOf(e.expires[r]) ELSE 0]

RowBar(e, t) ==
  IF is_expired_at(e, t)
    THEN Store!Nothing
    ELSE [until |-> UntilBar(e, t), origin |-> e.origin, scenario |-> e.scenario_id]

Holds(es, s, k) == Occupied(es, s) /\ es[s].key = k

StoreOf(es, t) ==
  [k \in StreamKey |->
     IF \E s \in Slot : Holds(es, s, k)
       THEN RowBar(es[CHOOSE s \in Slot : Holds(es, s, k)], t)
       ELSE Store!Nothing]

(* Every deadline in the table is one that a decision had.                 *)
BoundedRow(e) == e \in Entry /\ \A r \in e.types : e.expires[r] \in Deadline
Bounded ==
  /\ Len(scenarios) <= MAX_SCENARIOS
  /\ \A s \in Slot : Occupied(entries, s) => BoundedRow(entries[s])

(* Forever is later than every deadline and every time.                    *)
LEMMA ForeverIsLast ==
  /\ Forever \in Nat
  /\ Forever > MaxTime
  /\ \A d \in Deadline : d \in Nat /\ d < Forever
<1> DEFINE m == CHOOSE m \in Durations : \A d \in Durations : d <= m
<1>1. m \in Durations /\ \A d \in Durations : d <= m
  BY StreamAssumption
<1>2. m \in Nat /\ MaxTime \in Nat /\ Durations \subseteq Nat
  BY <1>1, StreamAssumption, BoundAssumption
<1>3. Forever = MaxTime + 1 + m
  BY DEF Forever
<1> HIDE DEF m
<1>4. ASSUME NEW t \in Time, NEW d \in Durations \ {0}
      PROVE  t + d \in Nat /\ t + d < Forever
  BY <1>1, <1>2, <1>3 DEF Time
<1>5. QED
  BY <1>2, <1>3, <1>4 DEF Deadline

(* EndOf turns the deadlines of the code, where 0 means no end, into       *)
(* plain numbers: the same are in force, and the later one is the larger.  *)
LEMMA EndOfActive ==
  ASSUME NEW d \in Deadline, NEW t \in Time
  PROVE  /\ EndOf(d) \in Nat
         /\ (d = 0 \/ t < d) <=> EndOf(d) > t
BY ForeverIsLast, BoundAssumption DEF EndOf, Time

LEMMA EndOfLater ==
  ASSUME NEW d \in Deadline, NEW e \in Deadline
  PROVE  /\ LaterDeadline(d, e) \in Deadline
         /\ EndOf(LaterDeadline(d, e)) = Store!Later(EndOf(d), EndOf(e))
<1>1. d \in Nat /\ e \in Nat /\ d < Forever /\ e < Forever /\ Forever \in Nat
  BY ForeverIsLast
<1>2. QED
  BY <1>1 DEF EndOf, LaterDeadline, Store!Later

LEMMA ActiveEnd ==
  ASSUME NEW e, BoundedRow(e), NEW t \in Time, NEW r \in DecisionType
  PROVE  /\ r \in active_mask(e.expires, e.types, t)
              <=> r \in e.types /\ EndOf(e.expires[r]) > t
         /\ r \in e.types => EndOf(e.expires[r]) \in Nat
         /\ UntilBar(e, t)[r] \in Nat
         /\ UntilBar(e, t)[r] = IF r \in e.types /\ EndOf(e.expires[r]) > t
                                  THEN EndOf(e.expires[r]) ELSE 0
<1>1. r \in e.types => e.expires[r] \in Deadline
  BY DEF BoundedRow
<1>2. r \in active_mask(e.expires, e.types, t)
        <=> r \in e.types /\ (e.expires[r] = 0 \/ t < e.expires[r])
  BY DEF active_mask
<1>3. r \in active_mask(e.expires, e.types, t)
        <=> r \in e.types /\ EndOf(e.expires[r]) > t
  BY <1>1, <1>2, EndOfActive
<1>4. r \in e.types => EndOf(e.expires[r]) \in Nat
  BY <1>1, EndOfActive
<1>5. QED
  BY <1>3, <1>4 DEF UntilBar

LEMMA UntilBarType ==
  ASSUME NEW e, BoundedRow(e), NEW t \in Time
  PROVE  UntilBar(e, t) \in [DecisionType -> Nat]
<1>1. \A r \in DecisionType : UntilBar(e, t)[r] \in Nat
  BY ActiveEnd
<1>2. UntilBar(e, t) = [r \in DecisionType |-> UntilBar(e, t)[r]]
  BY DEF UntilBar
<1>3. QED
  BY <1>1, <1>2

(* The table has a decision in force where the store has.                  *)
LEMMA ExpiredNever ==
  ASSUME NEW e, BoundedRow(e), NEW t \in Time
  PROVE  is_expired_at(e, t) <=> UntilBar(e, t) = Store!Never
<1>1. ASSUME NEW r \in DecisionType, r \in active_mask(e.expires, e.types, t)
      PROVE  UntilBar(e, t)[r] # 0
  BY <1>1, ActiveEnd DEF Time
<1>2. active_mask(e.expires, e.types, t) \subseteq DecisionType
  BY DEF active_mask, BoundedRow, Entry
<1>3. CASE is_expired_at(e, t)
  BY <1>3 DEF is_expired_at, UntilBar, Store!Never
<1>4. CASE ~ is_expired_at(e, t)
  <2>1. PICK r \in DecisionType : r \in active_mask(e.expires, e.types, t)
    BY <1>2, <1>4 DEF is_expired_at
  <2>2. UntilBar(e, t)[r] # 0 /\ Store!Never[r] = 0
    BY <1>1, <2>1 DEF Store!Never
  <2>3. QED
    BY <1>4, <2>2
<1>5. QED
  BY <1>3, <1>4

LEMMA InForceRow ==
  ASSUME NEW e, BoundedRow(e), NEW t \in Time
  PROVE  /\ RowBar(e, t).until = UntilBar(e, t)
         /\ RowBar(e, t) = Store!Nothing <=> is_expired_at(e, t)
         /\ ~ is_expired_at(e, t) =>
              RowBar(e, t).origin = e.origin /\ RowBar(e, t).scenario = e.scenario_id
<1>1. CASE is_expired_at(e, t)
  BY <1>1, ExpiredNever DEF RowBar, Store!Nothing
<1>2. CASE ~ is_expired_at(e, t)
  BY <1>2, ExpiredNever DEF RowBar, Store!Nothing
<1>3. QED
  BY <1>1, <1>2


(* Two ways to say the same row.                                           *)
LEMMA RowAt ==
  ASSUME NEW e, BoundedRow(e), NEW t \in Time, NEW u, NEW o, NEW id,
         \A r \in DecisionType :
           UntilBar(e, t)[r] = IF u[r] > t THEN u[r] ELSE 0,
         ~ is_expired_at(e, t) => e.origin = o /\ e.scenario_id = id
  PROVE  RowBar(e, t) = Store!At([until |-> u, origin |-> o, scenario |-> id], t)
<1> DEFINE row == [until |-> u, origin |-> o, scenario |-> id]
           v == [r \in DecisionType |-> IF row.until[r] > t THEN row.until[r] ELSE 0]
<1>1. v = UntilBar(e, t)
  BY DEF UntilBar
<1>2. Store!At(row, t) = IF v = Store!Never THEN Store!Nothing ELSE [row EXCEPT !.until = v]
  BY DEF Store!At
<1> HIDE DEF v
<1>3. [row EXCEPT !.until = v] = [until |-> v, origin |-> o, scenario |-> id]
  OBVIOUS
<1>4. QED
  BY <1>1, <1>2, <1>3, ExpiredNever DEF RowBar

LEMMA RowBarFields ==
  ASSUME NEW e, NEW t
  PROVE  RowBar(e, t) = [until |-> RowBar(e, t).until, origin |-> RowBar(e, t).origin,
                         scenario |-> RowBar(e, t).scenario]
BY DEF RowBar, Store!Nothing

(* A second passes: what has ended goes.                                   *)
LEMMA RowTick ==
  ASSUME NEW e, BoundedRow(e), NEW t \in Time, t + 1 \in Time
  PROVE  RowBar(e, t + 1) = Store!At(RowBar(e, t), t + 1)
<1> DEFINE u == RowBar(e, t).until
           o == RowBar(e, t).origin
           id == RowBar(e, t).scenario
<1>1. \A r \in DecisionType :
        UntilBar(e, t + 1)[r] = IF u[r] > t + 1 THEN u[r] ELSE 0
  BY ActiveEnd, InForceRow DEF Time
<1>2. is_expired_at(e, t) => is_expired_at(e, t + 1)
  BY DEF is_expired_at, active_mask, BoundedRow, Entry, Expiry, Time
<1>3. ~ is_expired_at(e, t + 1) => e.origin = o /\ e.scenario_id = id
  BY <1>2, InForceRow
<1> HIDE DEF u, o, id
<1>4. RowBar(e, t + 1) = Store!At([until |-> u, origin |-> o, scenario |-> id], t + 1)
  BY <1>1, <1>3, RowAt
<1>5. QED
  BY <1>4, RowBarFields DEF u, o, id

(* prune_expired does not show.                                            *)
LEMMA RowPruned ==
  ASSUME NEW e, BoundedRow(e), NEW t \in Time
  PROVE  /\ BoundedRow(prune_expired(e, t))
         /\ \A r \in DecisionType :
              r \in prune_expired(e, t).types
                <=> r \in e.types /\ EndOf(e.expires[r]) > t
         /\ \A r \in prune_expired(e, t).types :
              prune_expired(e, t).expires[r] = e.expires[r]
         /\ prune_expired(e, t).origin = e.origin
<1> DEFINE p == prune_expired(e, t)
<1>1. e \in Entry /\ t \in Nat
  BY DEF BoundedRow, Time
<1>2. p \in Entry
  BY <1>1, PrunedRow
<1>3. p.types = active_mask(e.expires, e.types, t) /\ p.origin = e.origin
      /\ p.expires = prune_inactive(e.expires, e.types, t)
  BY <1>1 DEF prune_expired, Entry
<1> HIDE DEF p
<1>4. p.types \subseteq DecisionType
  BY <1>2 DEF Entry
<1>5. \A r \in p.types : p.expires[r] = e.expires[r] /\ r \in e.types
  BY <1>3, <1>4 DEF prune_inactive, active_mask
<1>6. \A r \in DecisionType : r \in p.types <=> r \in e.types /\ EndOf(e.expires[r]) > t
  BY <1>3, ActiveEnd
<1>7. QED
  BY <1>2, <1>3, <1>5, <1>6 DEF BoundedRow, p

(* A removal ends the decision about one remediation.                      *)
LEMMA RowRemoved ==
  ASSUME NEW e, BoundedRow(e), NEW t \in Time, NEW q \in DecisionType
  PROVE  LET f == remove_bit(prune_expired(e, t), q)
         IN  /\ BoundedRow(f)
             /\ RowBar(f, t) = Store!At([RowBar(e, t) EXCEPT !.until[q] = 0], t)
             /\ f.types = {} => is_expired_at(f, t)
<1> DEFINE p == prune_expired(e, t)
           f == remove_bit(p, q)
           w == [RowBar(e, t).until EXCEPT ![q] = 0]
           o == RowBar(e, t).origin
           id == RowBar(e, t).scenario
<1>1. /\ BoundedRow(p) /\ p.origin = e.origin
      /\ \A r \in DecisionType : r \in p.types <=> r \in e.types /\ EndOf(e.expires[r]) > t
      /\ \A r \in p.types : p.expires[r] = e.expires[r]
  BY RowPruned
<1>2. p.scenario_id = e.scenario_id
  BY PrunedRow DEF BoundedRow, Time
<1> HIDE DEF p
<1>3. p \in Entry
  BY <1>1 DEF BoundedRow
<1>4. f \in Entry /\ f.types = p.types \ {q} /\ f.origin = e.origin /\ f.scenario_id = e.scenario_id
      /\ \A r \in f.types : f.expires[r] = e.expires[r]
  <2>1. f.types = p.types \ {q} /\ f.expires = [p.expires EXCEPT ![q] = 0]
        /\ f.origin = p.origin /\ f.scenario_id = p.scenario_id
    BY <1>3 DEF remove_bit, clear_bit, Entry
  <2>2. f \in Entry
    BY <1>3, RemovedBit
  <2> HIDE DEF f
  <2>3. \A r \in f.types : f.expires[r] = p.expires[r]
    BY <1>3, <2>1 DEF Entry, Expiry
  <2>4. QED
    BY <1>1, <1>2, <2>1, <2>2, <2>3
<1> HIDE DEF f
<1>5. BoundedRow(f)
  BY <1>1, <1>3, <1>4 DEF BoundedRow
<1>6. \A r \in DecisionType : UntilBar(f, t)[r] = IF r = q THEN 0 ELSE UntilBar(e, t)[r]
  <2> SUFFICES ASSUME NEW r \in DecisionType
               PROVE  UntilBar(f, t)[r] = IF r = q THEN 0 ELSE UntilBar(e, t)[r]
    OBVIOUS
  <2>1. UntilBar(f, t)[r] = IF r \in f.types /\ EndOf(f.expires[r]) > t
                              THEN EndOf(f.expires[r]) ELSE 0
    BY <1>5, ActiveEnd
  <2>2. UntilBar(e, t)[r] = IF r \in e.types /\ EndOf(e.expires[r]) > t
                              THEN EndOf(e.expires[r]) ELSE 0
    BY ActiveEnd
  <2>3. r \in f.types <=> r # q /\ r \in e.types /\ EndOf(e.expires[r]) > t
    BY <1>1, <1>4
  <2>4. r \in f.types => f.expires[r] = e.expires[r]
    BY <1>4
  <2>5. QED
    BY <2>1, <2>2, <2>3, <2>4
<1>7. RowBar(e, t).until \in [DecisionType -> Nat]
  BY InForceRow, UntilBarType
<1>8. \A r \in DecisionType : UntilBar(f, t)[r] = IF w[r] > t THEN w[r] ELSE 0
  <2> SUFFICES ASSUME NEW r \in DecisionType
               PROVE  UntilBar(f, t)[r] = IF w[r] > t THEN w[r] ELSE 0
    OBVIOUS
  <2>1. w[r] = IF r = q THEN 0 ELSE UntilBar(e, t)[r]
    BY <1>7, InForceRow
  <2>2. UntilBar(e, t)[r] > t \/ UntilBar(e, t)[r] = 0
    BY ActiveEnd
  <2>3. t \in Nat /\ UntilBar(e, t)[r] \in Nat
    BY ActiveEnd DEF Time
  <2>4. QED
    BY <1>6, <2>1, <2>2, <2>3
<1>9. ~ is_expired_at(f, t) => f.origin = o /\ f.scenario_id = id
  <2>1. ~ is_expired_at(f, t) => ~ is_expired_at(e, t)
    BY <1>6, <1>5, ExpiredNever DEF UntilBar, Store!Never
  <2>2. QED
    BY <1>4, <2>1, InForceRow
<1> HIDE DEF w, o, id
<1>10. RowBar(f, t) = Store!At([until |-> w, origin |-> o, scenario |-> id], t)
  BY <1>5, <1>8, <1>9, RowAt
<1>11. [RowBar(e, t) EXCEPT !.until[q] = 0] = [until |-> w, origin |-> o, scenario |-> id]
  <2>1. RowBar(e, t) = [until |-> RowBar(e, t).until, origin |-> o, scenario |-> id]
    BY RowBarFields DEF o, id
  <2>2. QED
    BY <2>1 DEF w
<1>12. f.types = {} => is_expired_at(f, t)
  BY DEF is_expired_at, active_mask
<1>13. QED
  BY <1>5, <1>10, <1>11, <1>12 DEF f, p


(* A row that was just written shows the decision added to what it was.    *)
LEMMA RowExtended ==
  ASSUME NEW f, BoundedRow(f), NEW t \in Time, NEW q \in DecisionType,
         NEW u \in [DecisionType -> Nat], NEW row, row.until = u,
         NEW end \in Nat, NEW o, NEW id,
         \A r \in DecisionType : u[r] > t \/ u[r] = 0,
         \A r \in DecisionType \ {q} : UntilBar(f, t)[r] = u[r],
         UntilBar(f, t)[q] = IF Store!Later(u[q], end) > t THEN Store!Later(u[q], end) ELSE 0,
         f.origin = o, f.scenario_id = IF id # 0 THEN id ELSE row.scenario
  PROVE  RowBar(f, t) = Store!At(Store!Extended(row, q, end, o, id), t)
<1> DEFINE w == [u EXCEPT ![q] = Store!Later(u[q], end)]
           sc == IF id # 0 THEN id ELSE row.scenario
<1>1. Store!Extended(row, q, end, o, id) = [until |-> w, origin |-> o, scenario |-> sc]
  BY DEF Store!Extended
<1>2. \A r \in DecisionType : UntilBar(f, t)[r] = IF w[r] > t THEN w[r] ELSE 0
  <2> SUFFICES ASSUME NEW r \in DecisionType
               PROVE  UntilBar(f, t)[r] = IF w[r] > t THEN w[r] ELSE 0
    OBVIOUS
  <2>1. w[r] = IF r = q THEN Store!Later(u[q], end) ELSE u[r]
    OBVIOUS
  <2> HIDE DEF w
  <2>2. CASE r = q
    BY <2>1, <2>2
  <2>3. CASE r # q
    BY <2>1, <2>3 DEF Time
  <2>4. QED
    BY <2>2, <2>3
<1>3. f.origin = o /\ f.scenario_id = sc
  OBVIOUS
<1> HIDE DEF w, sc
<1>4. QED
  BY <1>1, <1>2, <1>3, RowAt

(* merge keeps the later deadline.                                         *)
LEMMA RowMerged ==
  ASSUME NEW e, BoundedRow(e), NEW t \in Time, ~ is_expired_at(e, t),
         NEW q \in DecisionType, NEW d \in Deadline, NEW o \in Origins, NEW id \in Nat
  PROVE  LET f == merge_entry(prune_expired(e, t), q, d, o, id)
         IN  /\ BoundedRow(f)
             /\ RowBar(f, t) =
                  Store!At(Store!Extended(RowBar(e, t), q, EndOf(d), o, id), t)
<1> DEFINE p == prune_expired(e, t)
           f == merge_entry(p, q, d, o, id)
           u == UntilBar(e, t)
           row == RowBar(e, t)
<1>1. /\ BoundedRow(p)
      /\ \A r \in DecisionType : r \in p.types <=> r \in e.types /\ EndOf(e.expires[r]) > t
      /\ \A r \in p.types : p.expires[r] = e.expires[r]
  BY RowPruned
<1>2. p.scenario_id = e.scenario_id
  BY PrunedRow DEF BoundedRow, Time
<1>3. row.until = u /\ row.scenario = e.scenario_id
  BY InForceRow
<1> HIDE DEF p
<1>4. p \in Entry /\ d \in Nat /\ EndOf(d) \in Nat
  BY <1>1, ForeverIsLast, EndOfActive DEF BoundedRow
<1>5. /\ f.types = p.types \union {q} /\ f.origin = o
      /\ f.scenario_id = IF id # 0 THEN id ELSE p.scenario_id
      /\ f.expires = merge(p.expires, p.types, q, d)
      /\ f \in Entry
  BY <1>4, MergedRow DEF merge_entry, Entry
<1> HIDE DEF f
<1>6. p.expires \in Expiry /\ p.types \subseteq DecisionType
  BY <1>4 DEF Entry
<1>7. /\ \A r \in DecisionType \ {q} : f.expires[r] = p.expires[r]
      /\ f.expires[q] = IF q \in p.types THEN LaterDeadline(p.expires[q], d) ELSE d
  BY <1>5, <1>6 DEF merge, Expiry
<1>8. \A r \in p.types : p.expires[r] \in Deadline
  BY <1>1 DEF BoundedRow
<1>9. BoundedRow(f)
  <2> SUFFICES ASSUME NEW r \in f.types PROVE f.expires[r] \in Deadline
    BY <1>5 DEF BoundedRow
  <2>1. CASE r = q
    BY <1>7, <1>8, <2>1, EndOfLater
  <2>2. CASE r # q
    BY <1>5, <1>6, <1>7, <1>8, <2>2
  <2>3. QED
    BY <2>1, <2>2
<1>10. u \in [DecisionType -> Nat] /\ \A r \in DecisionType : u[r] > t \/ u[r] = 0
  BY UntilBarType, ActiveEnd
<1>11. \A r \in DecisionType \ {q} : UntilBar(f, t)[r] = u[r]
  <2> SUFFICES ASSUME NEW r \in DecisionType \ {q} PROVE UntilBar(f, t)[r] = u[r]
    OBVIOUS
  <2>1. UntilBar(f, t)[r] = IF r \in f.types /\ EndOf(f.expires[r]) > t
                              THEN EndOf(f.expires[r]) ELSE 0
    BY <1>9, ActiveEnd
  <2>2. UntilBar(e, t)[r] = IF r \in e.types /\ EndOf(e.expires[r]) > t
                              THEN EndOf(e.expires[r]) ELSE 0
    BY ActiveEnd
  <2>3. r \in f.types <=> r \in p.types
    BY <1>5
  <2>4. r \in p.types => f.expires[r] = e.expires[r]
    BY <1>1, <1>7
  <2>5. QED
    BY <1>1, <2>1, <2>2, <2>3, <2>4
<1>12. UntilBar(f, t)[q] = IF Store!Later(u[q], EndOf(d)) > t
                             THEN Store!Later(u[q], EndOf(d)) ELSE 0
  <2>1. UntilBar(f, t)[q] = IF EndOf(f.expires[q]) > t THEN EndOf(f.expires[q]) ELSE 0
    BY <1>5, <1>9, ActiveEnd
  <2>2. CASE q \in p.types
    <3>1. u[q] = EndOf(p.expires[q])
      BY <1>1, <2>2, ActiveEnd
    <3>2. EndOf(f.expires[q]) = Store!Later(u[q], EndOf(d))
      BY <1>7, <1>8, <2>2, <3>1, EndOfLater
    <3>3. QED
      BY <2>1, <3>2
  <2>3. CASE q \notin p.types
    <3>1. u[q] = 0
      BY <1>1, <2>3, ActiveEnd
    <3>2. t \in Nat
      BY DEF Time
    <3>3. f.expires[q] = d
      BY <1>7, <2>3
    <3>4. Store!Later(u[q], EndOf(d)) = EndOf(d)
      BY <1>4, <3>1 DEF Store!Later
    <3>5. QED
      BY <2>1, <3>3, <3>4
  <2>4. QED
    BY <2>2, <2>3
<1>13. f.scenario_id = IF id # 0 THEN id ELSE row.scenario
  BY <1>2, <1>3, <1>5
<1> HIDE DEF u, row
<1>14. RowBar(f, t) = Store!At(Store!Extended(row, q, EndOf(d), o, id), t)
  BY <1>3, <1>4, <1>5, <1>9, <1>10, <1>11, <1>12, <1>13, RowExtended
<1>15. QED
  BY <1>9, <1>14 DEF f, p, row

LEMMA RowNew ==
  ASSUME NEW k \in StreamKey, NEW t \in Time, NEW q \in DecisionType,
         NEW d \in Deadline, NEW o \in Origins, NEW id \in Nat
  PROVE  LET f == new_entry(k, q, d, o, id)
         IN  /\ BoundedRow(f)
             /\ RowBar(f, t) =
                  Store!At(Store!Extended(Store!Nothing, q, EndOf(d), o, id), t)
<1> DEFINE f == new_entry(k, q, d, o, id)
           u == Store!Never
<1>1. d \in Nat /\ EndOf(d) \in Nat
  BY ForeverIsLast, EndOfActive
<1>2. f \in Entry
  BY <1>1, NewRow
<1>3. /\ f.types = {q} /\ f.origin = o /\ f.scenario_id = id
      /\ f.expires = merge(NoExpiry, {}, q, d)
  BY DEF new_entry
<1> HIDE DEF f
<1>4. f.expires[q] = d
  BY <1>3 DEF merge, NoExpiry
<1>5. BoundedRow(f)
  BY <1>2, <1>3, <1>4 DEF BoundedRow
<1>6. /\ u \in [DecisionType -> Nat] /\ \A r \in DecisionType : u[r] = 0
      /\ Store!Nothing.until = u /\ Store!Nothing.scenario = 0
  BY DEF Store!Never, Store!Nothing
<1> HIDE DEF u
<1>7. \A r \in DecisionType \ {q} : UntilBar(f, t)[r] = u[r]
  BY <1>3, <1>5, <1>6, ActiveEnd
<1>8. UntilBar(f, t)[q] = IF EndOf(d) > t THEN EndOf(d) ELSE 0
  BY <1>3, <1>4, <1>5, ActiveEnd
<1>9. Store!Later(u[q], EndOf(d)) = EndOf(d)
  BY <1>1, <1>6 DEF Store!Later
<1>10. f.scenario_id = IF id # 0 THEN id ELSE Store!Nothing.scenario
  BY <1>3, <1>6
<1>11. RowBar(f, t) = Store!At(Store!Extended(Store!Nothing, q, EndOf(d), o, id), t)
  BY <1>1, <1>3, <1>5, <1>6, <1>7, <1>8, <1>9, <1>10, RowExtended
<1>12. QED
  BY <1>5, <1>11 DEF f


-----------------------------------------------------------------------------
(* Tables and the stores they show.                                        *)

LEMMA StoreBarValue == storeBar = StoreOf(entries, now)
BY DEF storeBar, StoreOf, Holds, HasRow, RowOf, InForce, RowBar, UntilBar, Store!Nothing,
       Store!Never, NoExpiry

(* The row of a key is what the store has for it.                          *)
LEMMA StoreOfRow ==
  ASSUME NEW es, UniqueIn(es), NEW t, NEW k \in StreamKey, NEW s \in Slot, Holds(es, s, k)
  PROVE  StoreOf(es, t)[k] = RowBar(es[s], t)
<1>1. \A r \in Slot : Holds(es, r, k) => r = s
  BY DEF UniqueIn, Holds
<1>2. (CHOOSE r \in Slot : Holds(es, r, k)) = s
  BY <1>1
<1>3. QED
  BY <1>2 DEF StoreOf

LEMMA StoreOfNone ==
  ASSUME NEW es, NEW t, NEW k \in StreamKey, \A s \in Slot : ~ Holds(es, s, k)
  PROVE  StoreOf(es, t)[k] = Store!Nothing
BY DEF StoreOf

(* A change of other rows does not show.                                   *)
LEMMA StoreOfSame ==
  ASSUME NEW es, NEW es2, UniqueIn(es), UniqueIn(es2), NEW t, NEW k \in StreamKey,
         \A s \in Slot : Holds(es, s, k) => es2[s] = es[s],
         \A s \in Slot : Holds(es2, s, k) => es2[s] = es[s]
  PROVE  StoreOf(es2, t)[k] = StoreOf(es, t)[k]
<1>1. \A s \in Slot : Holds(es, s, k) <=> Holds(es2, s, k)
  BY DEF Holds, Occupied
<1>2. CASE \E s \in Slot : Holds(es, s, k)
  <2>1. PICK s \in Slot : Holds(es, s, k)
    BY <1>2
  <2>2. QED
    BY <1>1, <2>1, StoreOfRow
<1>3. CASE ~ \E s \in Slot : Holds(es, s, k)
  BY <1>1, <1>3, StoreOfNone
<1>4. QED
  BY <1>2, <1>3

(* How many keys have a decision in force: the store is full when every    *)
(* slot of the table has a row in force.                                   *)
KnownIn(store) == {k \in StreamKey : store[k] # Store!Nothing}
Live(es, t) == {s \in Slot : Occupied(es, s) /\ ~ is_expired_at(es[s], t)}
BoundedRows(es) == \A s \in Slot : Occupied(es, s) => BoundedRow(es[s])

LEMMA KnownRow ==
  ASSUME NEW es, UniqueIn(es), RowsIn(es), BoundedRows(es), NEW t \in Time,
         NEW k \in StreamKey
  PROVE  StoreOf(es, t)[k] # Store!Nothing <=> \E s \in Live(es, t) : es[s].key = k
<1>1. CASE \E s \in Slot : Holds(es, s, k)
  <2>1. PICK s \in Slot : Holds(es, s, k)
    BY <1>1
  <2>2. StoreOf(es, t)[k] = RowBar(es[s], t) /\ BoundedRow(es[s])
    BY <2>1, StoreOfRow DEF BoundedRows, Holds
  <2>3. StoreOf(es, t)[k] # Store!Nothing <=> ~ is_expired_at(es[s], t)
    BY <2>2, InForceRow
  <2>4. \A r \in Slot : Occupied(es, r) /\ es[r].key = k => r = s
    BY <2>1 DEF UniqueIn, Holds
  <2>5. QED
    BY <2>1, <2>3, <2>4 DEF Live, Holds
<1>2. CASE ~ \E s \in Slot : Holds(es, s, k)
  BY <1>2, StoreOfNone DEF Live, Holds
<1>3. QED
  BY <1>1, <1>2

LEMMA KnownFull ==
  ASSUME NEW es, UniqueIn(es), RowsIn(es), BoundedRows(es), NEW t \in Time
  PROVE  Cardinality(KnownIn(StoreOf(es, t))) = Capacity <=> Live(es, t) = Slot
<1> DEFINE L == Live(es, t)
           K == KnownIn(StoreOf(es, t))
           f == [s \in L |-> es[s].key]
<1>1. IsFiniteSet(Slot) /\ Cardinality(Slot) = Capacity
  <2>1. 0 \in Int /\ Capacity - 1 \in Int /\ Capacity \in Nat /\ Capacity >= 1
    BY CapacityAssumption
  <2>2. /\ IsFiniteSet(0 .. Capacity - 1)
        /\ Cardinality(0 .. Capacity - 1)
             = IF 0 > Capacity - 1 THEN 0 ELSE Capacity - 1 - 0 + 1
    BY <2>1, FS_Interval
  <2>3. QED
    BY <2>1, <2>2 DEF Slot
<1>2. L \subseteq Slot
  BY DEF Live
<1>3. IsFiniteSet(L) /\ (Cardinality(L) = Capacity => L = Slot)
  BY <1>1, <1>2, FS_Subset
<1>4. \A s \in L : es[s].key \in StreamKey
  BY DEF Live, RowsIn
<1>5. \A s \in L : es[s].key \in K
  BY <1>4, KnownRow DEF KnownIn
<1>6. f \in [L -> K]
  BY <1>5
<1>7. \A a, b \in L : f[a] = f[b] => a = b
  BY DEF Live, UniqueIn
<1>8. \A k \in K : \E s \in L : f[s] = k
  BY KnownRow DEF KnownIn
<1> HIDE DEF L, K, f
<1>9. f \in Bijection(L, K)
  BY <1>6, <1>7, <1>8 DEF Bijection, Injection, Surjection, IsInjective
<1>10. Cardinality(K) = Cardinality(L)
  BY <1>3, <1>9, FS_Bijection DEF ExistsBijection
<1>11. QED
  BY <1>1, <1>3, <1>10 DEF L, K


-----------------------------------------------------------------------------
(* Every step of the cache shows a step of the store, or none.             *)

LEMMA TablesOfStep ==
  ASSUME IInv, IInv', Bounded
  PROVE  /\ TableOK(entries) /\ TableOK(entries') /\ entries \in Table /\ entries' \in Table
         /\ UniqueIn(entries) /\ RowsIn(entries) /\ BoundedRows(entries)
         /\ UniqueIn(entries') /\ RowsIn(entries')
         /\ now \in Time /\ now' \in Time
BY DEF IInv, TypeOK, Reachable, UniqueKeys, TableOK, Table, Bounded, BoundedRows

LEMMA ExtensionsOf ==
  ASSUME NEW row, NEW q \in DecisionType, NEW d \in Deadline, NEW o \in Origins,
         NEW id \in 0 .. MAX_SCENARIOS
  PROVE  Store!At(Store!Extended(row, q, EndOf(d), o, id), now) \in Store!Extensions(row)
<1>1. EndOf(d) \in {EndOf(x) : x \in Deadline}
  OBVIOUS
<1>2. QED
  BY <1>1 DEF Store!Extensions

(* The store counts as the cache does.                                     *)
LEMMA SameCount == \A S : Store!Cardinality(S) = Cardinality(S)
BY DEF Store!Cardinality, Cardinality

(* An addition that lets no other decision go.                             *)
LEMMA PlainAddition ==
  ASSUME NEW es, NEW es2, NEW k \in StreamKey, NEW q \in DecisionType,
         NEW d \in Deadline, NEW o \in Origins, NEW id \in 0 .. MAX_SCENARIOS,
         \A j \in StreamKey \ {k} : StoreOf(es2, now)[j] = StoreOf(es, now)[j],
         StoreOf(es2, now)[k] =
           Store!At(Store!Extended(StoreOf(es, now)[k], q, EndOf(d), o, id), now),
         \/ StoreOf(es, now)[k] # Store!Nothing
         \/ Cardinality(KnownIn(StoreOf(es, now))) # Capacity
  PROVE  Store!AddedTo(StoreOf(es, now), StoreOf(es2, now), k)
<1> DEFINE before == StoreOf(es, now)
           after == StoreOf(es2, now)
<1>1. after[k] \in Store!Extensions(before[k])
  BY ExtensionsOf
<1>2. /\ before = [j \in StreamKey |-> before[j]]
      /\ after = [j \in StreamKey |-> after[j]]
  BY DEF StoreOf
<1>3. ~ (k \notin KnownIn(before) /\ Store!Cardinality(KnownIn(before)) = Capacity)
  BY SameCount DEF KnownIn
<1>4. \A j \in StreamKey \ {k} : after[j] = before[j]
  OBVIOUS
<1> HIDE DEF before, after
<1>5. after = [before EXCEPT ![k] = after[k]]
  BY <1>2, <1>4
<1>6. Store!AddedTo(before, after, k)
  BY <1>1, <1>3, <1>5 DEF Store!AddedTo, KnownIn
<1>7. QED
  BY <1>6 DEF before, after

(* One slot is written: the other keys keep what they have, but for the    *)
(* key whose row was there.                                                *)
LEMMA OneSlot ==
  ASSUME NEW es, NEW es2, UniqueIn(es), UniqueIn(es2), NEW t, NEW s \in Slot,
         NEW j \in StreamKey, \A r \in Slot \ {s} : es2[r] = es[r],
         ~ Holds(es, s, j), ~ Holds(es2, s, j)
  PROVE  StoreOf(es2, t)[j] = StoreOf(es, t)[j]
<1>1. \A r \in Slot : Holds(es, r, j) \/ Holds(es2, r, j) => r # s
  OBVIOUS
<1>2. QED
  BY <1>1, StoreOfSame

LEMMA MergeShows ==
  ASSUME IInv, IInv', Bounded, NEW k, NEW q, NEW d \in Deadline, NEW o, NEW name,
         AddInput(k, q, d, o, name), scenario_id(name) \in 0 .. MAX_SCENARIOS,
         AddMerge(k, q, d, o, name)
  PROVE  /\ Store!AddedTo(StoreOf(entries, now), StoreOf(entries', now), k)
         /\ BoundedRows(entries')
<1> DEFINE s == find_slot(entries, k)
           id == scenario_id(name)
           e == entries[s]
           f == merge_entry(prune_expired(e, now), q, d, o, id)
<1>1. k \in StreamKey /\ k \in Key /\ q \in DecisionType /\ o \in Origins
  BY StreamKeyIsKey DEF AddInput
<1>2. /\ entries \in Table /\ UniqueIn(entries) /\ UniqueIn(entries') /\ now \in Time
      /\ BoundedRows(entries)
  BY TablesOfStep
<1>3. s \in Slot /\ Holds(entries, s, k)
  BY <1>1, FindSlotMatches DEF AddMerge, Holds
<1>4. BoundedRow(e) /\ now \in Nat /\ id \in Nat
  BY <1>2, <1>3, BoundAssumption DEF BoundedRows, Holds, Time
<1>5. ~ is_expired_at(e, now)
  BY <1>4, PrunedRow DEF AddMerge, Stale, BoundedRow
<1>6. BoundedRow(f) /\ RowBar(f, now) =
        Store!At(Store!Extended(RowBar(e, now), q, EndOf(d), o, id), now)
  BY <1>1, <1>2, <1>4, <1>5, RowMerged
<1>7. f.key = k /\ f.hash = e.hash
  <2>1. e \in Entry /\ prune_expired(e, now) \in Entry /\ prune_expired(e, now).key = k
        /\ prune_expired(e, now).hash = e.hash
    BY <1>3, <1>4, PrunedRow DEF BoundedRow, Holds
  <2>2. d \in Nat
    BY ForeverIsLast
  <2> HIDE DEF e, id
  <2>3. QED
    BY <1>1, <1>4, <2>1, <2>2, MergedRow
<1>8. entries' = [entries EXCEPT ![s] = f]
  BY <1>2, <1>3 DEF AddMerge, Table
<1> HIDE DEF f
<1>9. entries'[s] = f /\ \A r \in Slot \ {s} : entries'[r] = entries[r]
  BY <1>2, <1>3, <1>8 DEF Table
<1>10. Holds(entries', s, k)
  BY <1>3, <1>7, <1>9, OccupiedByHash DEF Holds, Occupied
<1> HIDE DEF s, id
<1>11. StoreOf(entries, now)[k] = RowBar(e, now) /\ StoreOf(entries', now)[k] = RowBar(f, now)
  BY <1>1, <1>2, <1>3, <1>9, <1>10, StoreOfRow
<1>12. \A j \in StreamKey \ {k} : StoreOf(entries', now)[j] = StoreOf(entries, now)[j]
  BY <1>2, <1>3, <1>9, <1>10, OneSlot DEF Holds
<1>13. StoreOf(entries, now)[k] # Store!Nothing
  BY <1>2, <1>4, <1>5, <1>11, InForceRow
<1>14. BoundedRows(entries')
  BY <1>2, <1>6, <1>9 DEF BoundedRows, Occupied
<1>15. id \in 0 .. MAX_SCENARIOS
  BY DEF id
<1>16. QED
  BY <1>1, <1>6, <1>11, <1>12, <1>13, <1>14, <1>15, PlainAddition


(* A key without a row in force: it can be added if the store is not full. *)
LEMMA NewShows ==
  ASSUME IInv, IInv', Bounded, NEW k, NEW q, NEW d \in Deadline, NEW o, NEW name,
         AddInput(k, q, d, o, name), scenario_id(name) \in 0 .. MAX_SCENARIOS,
         NEW s \in Slot, entries'[s] = new_entry(k, q, d, o, scenario_id(name)),
         \A r \in Slot \ {s} : Occupied(entries', r) => entries'[r] = entries[r],
         StoreOf(entries, now)[k] = Store!Nothing
  PROVE  /\ BoundedRows(entries')
         /\ StoreOf(entries', now)[k] =
              Store!At(Store!Extended(StoreOf(entries, now)[k], q, EndOf(d), o,
                                      scenario_id(name)), now)
         /\ Holds(entries', s, k)
<1> DEFINE id == scenario_id(name)
           f == new_entry(k, q, d, o, id)
<1>1. k \in StreamKey /\ q \in DecisionType /\ o \in Origins /\ d \in Nat /\ id \in Nat
  BY ForeverIsLast, BoundAssumption DEF AddInput
<1>2. /\ UniqueIn(entries') /\ now \in Time /\ BoundedRows(entries)
  BY TablesOfStep
<1> HIDE DEF id
<1>3. BoundedRow(f) /\ RowBar(f, now) =
        Store!At(Store!Extended(Store!Nothing, q, EndOf(d), o, id), now)
  BY <1>1, <1>2, RowNew
<1>4. ~ is_vacant(f) /\ f.key = k
  BY <1>1, NewRow
<1> HIDE DEF f
<1>5. entries'[s] = f
  BY DEF f, id
<1>6. Holds(entries', s, k)
  BY <1>4, <1>5 DEF Holds, Occupied
<1>7. StoreOf(entries', now)[k] = RowBar(f, now)
  BY <1>1, <1>2, <1>5, <1>6, StoreOfRow
<1>8. BoundedRows(entries')
  BY <1>2, <1>3, <1>5 DEF BoundedRows, Occupied
<1>9. QED
  BY <1>3, <1>6, <1>7, <1>8 DEF id

(* A table with a slot that has no row in force shows a store that is not  *)
(* full.                                                                   *)
LEMMA NotFull ==
  ASSUME IInv, Bounded, NEW s \in Slot, s \notin Live(entries, now)
  PROVE  Cardinality(KnownIn(StoreOf(entries, now))) # Capacity
<1>1. UniqueIn(entries) /\ RowsIn(entries) /\ BoundedRows(entries) /\ now \in Time
  BY DEF IInv, TypeOK, UniqueKeys, Bounded, BoundedRows
<1>2. QED
  BY <1>1, KnownFull

LEMMA InsertShows ==
  ASSUME IInv, IInv', Bounded, NEW k, NEW q, NEW d \in Deadline, NEW o, NEW name,
         AddInput(k, q, d, o, name), scenario_id(name) \in 0 .. MAX_SCENARIOS,
         AddInsert(k, q, d, o, name)
  PROVE  /\ Store!AddedTo(StoreOf(entries, now), StoreOf(entries', now), k)
         /\ BoundedRows(entries')
<1> DEFINE es == DropStale(k)
           s == find_vacant_slot(es, k)
           id == scenario_id(name)
           e == new_entry(k, q, d, o, id)
<1>1. k \in StreamKey /\ k \in Key /\ q \in DecisionType /\ o \in Origins
  BY StreamKeyIsKey DEF AddInput
<1>2. /\ UniqueIn(entries) /\ UniqueIn(entries') /\ RowsIn(entries) /\ now \in Time
      /\ BoundedRows(entries) /\ entries \in Table
  BY TablesOfStep
<1>3. /\ es \in Table
      /\ \A r \in Slot : Occupied(es, r) =>
           es[r].key # k /\ Occupied(entries, r) /\ es[r] = entries[r]
  BY <1>1, DropStaleStep DEF AddInsert, TableOK
<1>4. PICK i \in Offset :
        /\ s = ProbeAt(home(k), i)
        /\ is_vacant(es[ProbeAt(home(k), i)])
  BY <1>1, FindVacantSlot DEF AddInsert
<1>5. s \in Slot /\ ~ Occupied(es, s)
  BY <1>1, <1>4, HomeInSlot, ProbeAtInSlot DEF Occupied
<1>6. entries' = [es EXCEPT ![s] = e]
  BY DEF AddInsert
<1>7. \A j \in Slot : Holds(entries, j, k) => is_expired_at(entries[j], now)
  <2> SUFFICES ASSUME NEW j \in Slot, Holds(entries, j, k)
               PROVE  is_expired_at(entries[j], now)
    OBVIOUS
  <2>1. found(entries, k) /\ find_slot(entries, k) = j
    <3>1. found(entries, k)
      BY <1>1, FindSlotComplete, TablesOfStep DEF Holds
    <3>2. Holds(entries, find_slot(entries, k), k) /\ find_slot(entries, k) \in Slot
      BY <1>1, <3>1, FindSlotMatches DEF Holds
    <3>3. QED
      BY <1>2, <3>1, <3>2 DEF UniqueIn, Holds
  <2>2. prune_expired(entries[j], now).types = {}
    BY <2>1 DEF AddInsert, Stale
  <2>3. entries[j] \in Entry /\ now \in Nat
    BY <1>2 DEF Table, Time
  <2>4. QED
    BY <2>2, <2>3, PrunedRow
<1>8. \A r \in Slot : r \in Live(entries, now) => Occupied(es, r)
  <2>1. \A r \in Slot : Occupied(entries, r) /\ ~ Occupied(es, r) => Holds(entries, r, k)
    <3>1. CASE Stale(k)
      <4>1. found(entries, k) /\ es = [entries EXCEPT ![find_slot(entries, k)] = Tombstone]
        BY <3>1 DEF DropStale, Stale
      <4>2. Holds(entries, find_slot(entries, k), k)
        BY <1>1, <4>1, FindSlotMatches DEF Holds
      <4>3. \A r \in Slot : r # find_slot(entries, k) => es[r] = entries[r]
        BY <1>2, <4>1 DEF Table
      <4>4. QED
        BY <4>2, <4>3 DEF Occupied
    <3>2. CASE ~ Stale(k)
      BY <3>2 DEF DropStale
    <3>3. QED
      BY <3>1, <3>2
  <2>2. QED
    BY <1>7, <2>1 DEF Live
<1> HIDE DEF es, s, e
<1>9. StoreOf(entries, now)[k] = Store!Nothing
  BY <1>1, <1>2, <1>7, KnownRow DEF Live, Holds
<1>10. entries'[s] = e /\ \A r \in Slot \ {s} : entries'[r] = es[r]
  BY <1>3, <1>5, <1>6 DEF Table
<1>11. \A r \in Slot \ {s} : Occupied(entries', r) => entries'[r] = entries[r]
  BY <1>3, <1>10 DEF Occupied
<1>12. /\ BoundedRows(entries') /\ Holds(entries', s, k)
       /\ StoreOf(entries', now)[k] =
            Store!At(Store!Extended(StoreOf(entries, now)[k], q, EndOf(d), o, id), now)
  BY <1>5, <1>9, <1>10, <1>11, NewShows DEF e
<1>13. \A j \in StreamKey \ {k} : StoreOf(entries', now)[j] = StoreOf(entries, now)[j]
  <2> SUFFICES ASSUME NEW j \in StreamKey \ {k}
               PROVE  StoreOf(entries', now)[j] = StoreOf(entries, now)[j]
    OBVIOUS
  <2>1. \A r \in Slot : Holds(entries', r, j) => r # s /\ entries'[r] = entries[r]
    BY <1>11, <1>12 DEF Holds
  <2>2. \A r \in Slot : Holds(entries, r, j) => entries'[r] = entries[r] \/ ~ Occupied(es, r)
    BY <1>3, <1>5, <1>10 DEF Holds
  <2>3. CASE \E r \in Slot : Holds(entries, r, j) /\ ~ Occupied(es, r)
    <3>1. PICK r \in Slot : Holds(entries, r, j) /\ ~ Occupied(es, r)
      BY <2>3
    <3>2. \A i2 \in Slot : Holds(entries', i2, j) => i2 = r
      BY <1>2, <2>1, <3>1 DEF UniqueIn, Holds, Occupied
    <3>3. \A i2 \in Slot : ~ Holds(entries', i2, j)
      BY <1>3, <1>10, <2>1, <3>1, <3>2 DEF Holds, Occupied
    <3>4. StoreOf(entries', now)[j] = Store!Nothing
      BY <3>3, StoreOfNone
    <3>5. r \notin Live(entries, now)
      BY <1>8, <3>1
    <3>6. \A i2 \in Slot : Holds(entries, i2, j) => i2 = r
      BY <1>2, <3>1 DEF UniqueIn, Holds
    <3>7. ~ \E i2 \in Live(entries, now) : entries[i2].key = j
      BY <3>5, <3>6 DEF Live, Holds
    <3>8. StoreOf(entries, now)[j] = Store!Nothing
      BY <1>2, <3>7, KnownRow
    <3>9. QED
      BY <3>4, <3>8
  <2>4. CASE ~ \E r \in Slot : Holds(entries, r, j) /\ ~ Occupied(es, r)
    BY <1>2, <2>1, <2>2, <2>4, StoreOfSame
  <2>5. QED
    BY <2>3, <2>4
<1>14. Cardinality(KnownIn(StoreOf(entries, now))) # Capacity
  BY <1>5, <1>8, NotFull
<1>15. id \in 0 .. MAX_SCENARIOS
  BY DEF id
<1> HIDE DEF id
<1>16. QED
  BY <1>1, <1>12, <1>13, <1>14, <1>15, PlainAddition


(* The table is full: the victim's row is one that has expired, or the     *)
(* store is full and the victim's decision goes.                           *)
LEMMA EvictShows ==
  ASSUME IInv, IInv', Bounded, NEW k, NEW q, NEW d \in Deadline, NEW o, NEW name,
         AddInput(k, q, d, o, name), scenario_id(name) \in 0 .. MAX_SCENARIOS,
         AddEvict(k, q, d, o, name)
  PROVE  /\ Store!AddedTo(StoreOf(entries, now), StoreOf(entries', now), k)
         /\ BoundedRows(entries')
<1> DEFINE s == evict_clock
           id == scenario_id(name)
           e == new_entry(k, q, d, o, id)
           victim == entries[s].key
           before == StoreOf(entries, now)
           after == StoreOf(entries', now)
<1>1. k \in StreamKey /\ k \in Key /\ q \in DecisionType /\ o \in Origins
  BY StreamKeyIsKey DEF AddInput
<1>2. /\ UniqueIn(entries) /\ UniqueIn(entries') /\ RowsIn(entries) /\ now \in Time
      /\ BoundedRows(entries) /\ entries \in Table
  BY TablesOfStep
<1>3. /\ \A r \in Slot : Occupied(DropStale(k), r)
      /\ \A r \in Slot : Occupied(entries, r) /\ entries[r].key # k
  BY <1>1, DropStaleStep DEF AddEvict, has_vacant_slot, Occupied
<1>4. s \in Slot /\ ((\E r \in Slot : Evictable(TRUE, r)) => Evictable(TRUE, s))
  BY <1>3, EvictClock DEF IInv, TypeOK
<1>5. entries' = [entries EXCEPT ![s] = e]
  BY DEF AddEvict
<1> HIDE DEF s, e
<1>6. entries'[s] = e /\ \A r \in Slot \ {s} : entries'[r] = entries[r]
  BY <1>2, <1>4, <1>5 DEF Table
<1>7. before[k] = Store!Nothing
  BY <1>1, <1>3, StoreOfNone DEF Holds
<1>8. /\ BoundedRows(entries') /\ Holds(entries', s, k)
      /\ after[k] = Store!At(Store!Extended(before[k], q, EndOf(d), o, id), now)
  BY <1>4, <1>6, <1>7, NewShows DEF e
<1>9. victim \in StreamKey /\ Holds(entries, s, victim) /\ victim # k
  BY <1>2, <1>3, <1>4 DEF RowsIn, Holds
<1>10. \A j \in StreamKey \ {k, victim} : after[j] = before[j]
  BY <1>2, <1>4, <1>6, <1>8, <1>9, OneSlot DEF Holds
<1>11. after[victim] = Store!Nothing
  <2>1. \A r \in Slot : Holds(entries', r, victim) => r # s
    BY <1>8, <1>9 DEF Holds
  <2>2. \A r \in Slot : Holds(entries', r, victim) => Holds(entries, r, victim)
    BY <1>6, <2>1 DEF Holds, Occupied
  <2>3. \A r \in Slot : ~ Holds(entries', r, victim)
    BY <1>2, <1>4, <1>9, <2>1, <2>2 DEF UniqueIn, Holds
  <2>4. QED
    BY <1>9, <2>3, StoreOfNone
<1>12. id \in 0 .. MAX_SCENARIOS
  BY DEF id
<1>13. before[victim] # Store!Nothing <=> s \in Live(entries, now)
  <2>1. \A r \in Slot : Holds(entries, r, victim) => r = s
    BY <1>2, <1>4, <1>9 DEF UniqueIn, Holds
  <2>2. QED
    BY <1>2, <1>4, <1>9, <2>1, KnownRow DEF Live, Holds
<1>14. CASE \E r \in Slot : Evictable(TRUE, r)
  <2>1. s \notin Live(entries, now)
    BY <1>4, <1>14 DEF Evictable, Live
  <2>2. before[victim] = Store!Nothing
    BY <1>13, <2>1
  <2>3. \A j \in StreamKey \ {k} : after[j] = before[j]
    BY <1>10, <1>11, <2>2
  <2>4. Cardinality(KnownIn(before)) # Capacity
    BY <1>4, <2>1, NotFull
  <2> HIDE DEF id, victim
  <2>5. QED
    BY <1>1, <1>8, <1>12, <2>3, <2>4, PlainAddition
<1>15. CASE ~ \E r \in Slot : Evictable(TRUE, r)
  <2>1. Live(entries, now) = Slot
    BY <1>3, <1>15 DEF Live, Evictable, Occupied
  <2>2. Store!Cardinality(KnownIn(before)) = Capacity
    BY <1>2, <2>1, KnownFull, SameCount
  <2>3. k \notin KnownIn(before) /\ victim \in KnownIn(before)
    BY <1>4, <1>7, <1>9, <1>13, <2>1 DEF KnownIn
  <2>4. /\ before = [j \in StreamKey |-> before[j]]
        /\ after = [j \in StreamKey |-> after[j]]
    BY DEF StoreOf
  <2>5. after[k] \in Store!Extensions(before[k])
    BY <1>1, <1>8, <1>12, ExtensionsOf
  <2> HIDE DEF before, after, victim, id
  <2>6. after = [[before EXCEPT ![k] = after[k]] EXCEPT ![victim] = Store!Nothing]
    BY <1>1, <1>9, <1>10, <1>11, <2>4
  <2>7. Store!AddedTo(before, after, k)
    BY <2>2, <2>3, <2>5, <2>6 DEF Store!AddedTo, KnownIn
  <2>8. QED
    BY <1>8, <2>7 DEF before, after
<1>16. QED
  BY <1>14, <1>15

(* The table of scenarios does not outgrow MAX_SCENARIOS.                  *)
LEMMA ScenariosBounded ==
  ASSUME IInv, Bounded, NEW name \in Scenarios \union {NoScenario},
         remember_scenario(name)
  PROVE  /\ Len(scenarios') <= MAX_SCENARIOS
         /\ scenario_id(name) \in 0 .. MAX_SCENARIOS
<1>1. /\ scenarios \in Seq(Seq(STRING)) /\ scenarios' \in Seq(Seq(STRING))
      /\ scenario_id(name) \in Nat /\ scenario_id(name) <= Len(scenarios')
  BY ScenarioStep DEF IInv, TypeOK
<1>2. \/ Len(scenarios') = Len(scenarios)
      \/ Len(scenarios) < MAX_SCENARIOS /\ Len(scenarios') = Len(scenarios) + 1
  BY <1>1 DEF remember_scenario
<1>3. Len(scenarios) \in Nat /\ Len(scenarios') \in Nat /\ MAX_SCENARIOS \in Nat
  BY <1>1, BoundAssumption
<1>4. Len(scenarios) <= MAX_SCENARIOS
  BY DEF Bounded
<1>5. QED
  BY <1>1, <1>2, <1>3, <1>4

LEMMA AddShows ==
  ASSUME IInv, IInv', Bounded, Add
  PROVE  Bounded' /\ Store!Add(StoreOf(entries, now), StoreOf(entries', now'))
<1>1. PICK k \in StreamKey, q \in StreamTypes, len \in Durations, asked \in AskedAt,
           o \in Origins, name \in Scenarios \union {NoScenario} :
        add_decision(k, q, deadline_of(asked, len), o, name)
  BY DEF Add
<1> DEFINE d == deadline_of(asked, len)
<1>2. d \in Deadline
  BY DEF deadline_of, Deadline, AskedAt
<1>3. AddInput(k, q, d, o, name)
  BY <1>2, ForeverIsLast, StreamAssumption DEF AddInput
<1>4. Len(scenarios') <= MAX_SCENARIOS /\ scenario_id(name) \in 0 .. MAX_SCENARIOS
  BY <1>1, ScenariosBounded DEF add_decision
<1>5. now' = now
  BY <1>1 DEF add_decision
<1>6. AddMerge(k, q, d, o, name) \/ AddInsert(k, q, d, o, name) \/ AddEvict(k, q, d, o, name)
  BY <1>1 DEF add_decision
<1> HIDE DEF d
<1>7. /\ Store!AddedTo(StoreOf(entries, now), StoreOf(entries', now), k)
      /\ BoundedRows(entries')
  BY <1>2, <1>3, <1>4, <1>6, MergeShows, InsertShows, EvictShows
<1>8. Bounded'
  BY <1>4, <1>7 DEF Bounded, BoundedRows
<1>9. Store!Add(StoreOf(entries, now), StoreOf(entries', now'))
  BY <1>5, <1>7 DEF Store!Add
<1>10. QED
  BY <1>8, <1>9


LEMMA RemoveShows ==
  ASSUME IInv, IInv', Bounded, Remove
  PROVE  Bounded' /\ Store!Remove(StoreOf(entries, now), StoreOf(entries', now'))
<1>1. PICK k \in StreamKey, q \in StreamTypes : remove_decision_type(k, q)
  BY DEF Remove
<1> DEFINE s == find_slot(entries, k)
           f == remove_bit(prune_expired(entries[s], now), q)
           before == StoreOf(entries, now)
           after == StoreOf(entries', now)
           row == Store!At([before[k] EXCEPT !.until[q] = 0], now)
<1>2. /\ UniqueIn(entries) /\ UniqueIn(entries') /\ RowsIn(entries) /\ now \in Time
      /\ BoundedRows(entries) /\ entries \in Table
  BY TablesOfStep
<1>3. k \in Key /\ q \in DecisionType
  BY StreamKeyIsKey, StreamAssumption
<1>4. s \in Slot /\ Holds(entries, s, k)
  BY <1>1, <1>3, FindSlotMatches DEF remove_decision_type, Holds
<1>5. entries' = [entries EXCEPT ![s] = IF f.types = {} THEN Tombstone ELSE f]
      /\ now' = now /\ scenarios' = scenarios
  BY <1>1 DEF remove_decision_type
<1>6. BoundedRow(entries[s])
  BY <1>2, <1>4 DEF BoundedRows, Holds
<1>7. /\ BoundedRow(f)
      /\ f.types = {} => is_expired_at(f, now)
      /\ RowBar(f, now) = Store!At([RowBar(entries[s], now) EXCEPT !.until[q] = 0], now)
  BY <1>2, <1>3, <1>6, RowRemoved
<1>8. f.key = k /\ f.hash = entries[s].hash
  <2>1. /\ prune_expired(entries[s], now) \in Entry
        /\ prune_expired(entries[s], now).key = k
        /\ prune_expired(entries[s], now).hash = entries[s].hash
    BY <1>2, <1>4, <1>6, PrunedRow DEF BoundedRow, Holds, Time
  <2>2. QED
    BY <1>3, <2>1, RemovedBit
<1> HIDE DEF f
<1>9. /\ entries'[s] = IF f.types = {} THEN Tombstone ELSE f
      /\ \A r \in Slot \ {s} : entries'[r] = entries[r]
  BY <1>2, <1>4, <1>5 DEF Table
<1>10. before[k] = RowBar(entries[s], now)
  BY <1>2, <1>4, StoreOfRow
<1>11. RowBar(f, now) = row
  BY <1>7, <1>10
<1> HIDE DEF s, row
<1>12. Occupied(entries', s) => entries'[s] = f /\ Holds(entries', s, k)
  BY <1>8, <1>9, EntryConstants DEF Holds, Occupied
<1>13. after[k] = row
  <2>1. CASE f.types = {}
    <3>1. ~ Occupied(entries', s)
      BY <1>9, <2>1, EntryConstants DEF Occupied
    <3>2. \A r \in Slot : ~ Holds(entries', r, k)
      BY <1>2, <1>4, <1>9, <3>1 DEF Holds, Occupied, UniqueIn
    <3>3. after[k] = Store!Nothing
      BY <3>2, StoreOfNone
    <3>4. RowBar(f, now) = Store!Nothing
      BY <1>2, <1>7, <2>1, InForceRow
    <3>5. QED
      BY <1>11, <3>3, <3>4
  <2>2. CASE f.types # {}
    <3>1. Occupied(entries', s)
      BY <1>4, <1>8, <1>9, <2>2, OccupiedByHash DEF Holds, Occupied
    <3>2. QED
      BY <1>2, <1>4, <1>11, <1>12, <3>1, StoreOfRow
  <2>3. QED
    BY <2>1, <2>2
<1>14. \A j \in StreamKey \ {k} : after[j] = before[j]
  BY <1>2, <1>4, <1>9, <1>12, OneSlot DEF Holds
<1>15. Bounded'
  <2>1. BoundedRows(entries')
    BY <1>2, <1>7, <1>9, <1>12 DEF BoundedRows, Occupied
  <2>2. QED
    BY <1>5, <2>1 DEF Bounded, BoundedRows
<1>16. /\ before = [j \in StreamKey |-> before[j]]
       /\ after = [j \in StreamKey |-> after[j]]
  BY DEF StoreOf
<1> HIDE DEF before, after
<1>17. after = [before EXCEPT ![k] = row]
  BY <1>13, <1>14, <1>16
<1>18. after = [before EXCEPT ![k] = Store!At([@ EXCEPT !.until[q] = 0], now)]
  BY <1>16, <1>17 DEF row
<1>19. Store!Remove(before, after)
  BY <1>3, <1>5, <1>18 DEF Store!Remove
<1>20. QED
  BY <1>5, <1>15, <1>19 DEF before, after

LEMMA ClearShows ==
  ASSUME Bounded, clear_all
  PROVE  Bounded' /\ Store!Clear(StoreOf(entries', now'))
<1>1. entries' = [s \in Slot |-> EmptyEntry] /\ now' = now /\ scenarios' = scenarios
  BY DEF clear_all
<1>2. \A s \in Slot : ~ Occupied(entries', s)
  BY <1>1, EntryConstants DEF Occupied
<1>3. StoreOf(entries', now') = [k \in StreamKey |-> Store!Nothing]
  BY <1>2 DEF StoreOf, Holds
<1>4. QED
  BY <1>1, <1>2, <1>3 DEF Bounded, Store!Clear

LEMMA TickShows ==
  ASSUME IInv, IInv', Bounded, Tick
  PROVE  Bounded' /\ Store!Tick(StoreOf(entries, now), StoreOf(entries', now'))
<1>1. entries' = entries /\ now' = now + 1 /\ now < MaxTime /\ scenarios' = scenarios
  BY DEF Tick, tableVars
<1>2. UniqueIn(entries) /\ BoundedRows(entries) /\ now \in Time /\ now + 1 \in Time
  BY <1>1, TablesOfStep
<1>3. ASSUME NEW k \in StreamKey
      PROVE  StoreOf(entries, now + 1)[k] = Store!At(StoreOf(entries, now)[k], now + 1)
  <2>1. CASE \E s \in Slot : Holds(entries, s, k)
    <3>1. PICK s \in Slot : Holds(entries, s, k)
      BY <2>1
    <3>2. BoundedRow(entries[s])
      BY <1>2, <3>1 DEF BoundedRows, Holds
    <3>3. QED
      BY <1>2, <3>1, <3>2, StoreOfRow, RowTick
  <2>2. CASE ~ \E s \in Slot : Holds(entries, s, k)
    <3>1. StoreOf(entries, now + 1)[k] = Store!Nothing
          /\ StoreOf(entries, now)[k] = Store!Nothing
      BY <2>2, StoreOfNone
    <3>2. \A r \in DecisionType : Store!Nothing.until[r] = 0
      BY DEF Store!Nothing, Store!Never
    <3>3. Store!At(Store!Nothing, now + 1) = Store!Nothing
      <4>1. [r \in DecisionType |-> IF Store!Nothing.until[r] > now + 1
                                      THEN Store!Nothing.until[r] ELSE 0] = Store!Never
        BY <3>2 DEF Store!Never
      <4>2. QED
        BY <4>1 DEF Store!At
    <3>4. QED
      BY <3>1, <3>3
  <2>3. QED
    BY <2>1, <2>2
<1>4. StoreOf(entries, now + 1)
        = [k \in StreamKey |-> Store!At(StoreOf(entries, now)[k], now + 1)]
  <2>1. StoreOf(entries, now + 1) = [k \in StreamKey |-> StoreOf(entries, now + 1)[k]]
    BY DEF StoreOf
  <2>2. QED
    BY <1>3, <2>1
<1>5. QED
  BY <1>1, <1>4 DEF Bounded, Store!Tick

LEMMA BoundedInit == Init => Bounded
BY BoundAssumption, EntryConstants DEF Init, Bounded, Occupied

LEMMA StepShows ==
  ASSUME IInv, IInv', Bounded, [Next]_vars
  PROVE  Bounded' /\ [Store!Next]_(Store!vars)
<1> DEFINE before == StoreOf(entries, now)
           after == StoreOf(entries', now')
<1>1. storeBar = before /\ storeBar' = after
  BY StoreBarValue DEF storeBar, StoreOf, Holds, HasRow, RowOf, InForce, RowBar, UntilBar,
                       Store!Nothing, Store!Never, NoExpiry
<1>2. CASE Next
  <2>1. /\ Bounded'
        /\ \/ Store!Add(before, after)
           \/ Store!Remove(before, after)
           \/ Store!Clear(after)
           \/ Store!Tick(before, after)
    BY <1>2, AddShows, RemoveShows, ClearShows, TickShows DEF Next
  <2> HIDE DEF before, after
  <2>2. Store!Next
    BY <1>1, <2>1 DEF Store!Next
  <2>3. QED
    BY <2>1, <2>2
<1>3. CASE UNCHANGED vars
  <2>1. entries' = entries /\ now' = now /\ scenarios' = scenarios
    BY <1>3 DEF vars
  <2>2. Store!vars' = Store!vars
    BY <1>1, <2>1 DEF Store!vars
  <2>3. QED
    BY <2>1, <2>2 DEF Bounded
<1>4. QED
  BY <1>2, <1>3

LEMMA InitShows == Init => Store!Init
<1> SUFFICES ASSUME Init PROVE Store!Init
  OBVIOUS
<1>1. \A s \in Slot : ~ Occupied(entries, s)
  BY EntryConstants DEF Init, Occupied
<1>2. StoreOf(entries, now) = [k \in StreamKey |-> Store!Nothing]
  BY <1>1 DEF StoreOf, Holds
<1>3. QED
  BY <1>2, StoreBarValue DEF Init, Store!Init

(* The deadlines and the scenario table stay within their bounds.          *)
THEOREM CacheBounded == Spec => []Bounded
<1>1. IInv /\ IInv' /\ Bounded /\ [Next]_vars => Bounded'
  BY StepShows
<1>2. QED
  BY <1>1, BoundedInit, CacheInvariant, PTL DEF Spec

(* The hash table implements the plain store: whatever the capacity, the   *)
(* hash function and the order of additions, removals, expiries and        *)
(* clears, what lookups can see ends only when its time is over, when it   *)
(* is deleted or cleared, or when it is evicted from a table in which      *)
(* every slot has a decision in force.                                     *)
THEOREM CacheImplementsStore == Spec => ImplementsStore
<1>1. IInv /\ IInv' /\ Bounded /\ [Next]_vars => [Store!Next]_(Store!vars)
  BY StepShows
<1>2. QED
  BY <1>1, InitShows, CacheInvariant, CacheBounded, PTL
     DEF Spec, ImplementsStore, Store!Spec
=============================================================================
