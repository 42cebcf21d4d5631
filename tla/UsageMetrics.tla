---------------------------- MODULE UsageMetrics ----------------------------
(***************************************************************************)
(* The usage counters in shared memory (src/usage_metrics.rs).  Workers    *)
(* count processed and dropped requests in a lock-free table of buckets,   *)
(* the poller uploads the counters to LAPI and, once LAPI has accepted     *)
(* them, subtracts what it uploaded.  Nothing is ever locked: every atomic *)
(* instruction of another process may come between two of these steps.     *)
(*                                                                         *)
(* Left out: the gauge of active decisions, computed anew for each upload  *)
(* and never subtracted, and the time window of an upload.                 *)
(***************************************************************************)
EXTENDS Integers, Sequences, FiniteSets

CONSTANTS
  Workers,       \* processes that count requests
  Keys,          \* labels: kind, address family, origin
  Hash,          \* Hash[k]: the hash of a key, never 0
  MAX_BUCKETS,
  Modulus,       \* counters are unsigned words: 2^64 in the code
  MaxCount,      \* bound on requests counted per key
  MaxPushes,     \* bound on uploads
  MaxCrashes,    \* bound on crashes
  MaxLate        \* bound on uploads that LAPI accepts unnoticed

ASSUME KeyAssumption == Hash \in [Keys -> Nat \ {0}]
ASSUME SizeAssumption == MAX_BUCKETS \in Nat \ {0} /\ Modulus \in Nat \ {0, 1}
ASSUME UsageBoundAssumption == {MaxCount, MaxPushes, MaxCrashes, MaxLate} \subseteq Nat

VARIABLES
  bucket,      \* bucket[i]: the shared table
  pc,          \* pc[w]: where worker w is in bucket_inc
  key,         \* key[w]: the key it counts
  idx,         \* idx[w]: the bucket it looks at
  push,        \* where the poller is in push_to_lapi
  at,          \* the bucket collect_items looks at
  items,       \* the snapshot: what is uploaded and not yet subtracted
  counted,     \* auxiliary: counted[k]: increments that were stored
  accepted,    \* auxiliary: accepted[k]: sum of the uploads LAPI accepted
  repeated,    \* auxiliary: repeated[k]: accepted, and left to be uploaded again
  pushes, crashes, late

inc_vars == <<pc, key, idx>>
push_vars == <<push, at, items, accepted, repeated, pushes, late>>
vars == <<bucket, inc_vars, push_vars, counted, crashes>>

Bucket == 0 .. MAX_BUCKETS - 1
NoKey == "none"
Vacant == [key_hash |-> 0, key |-> NoKey, value |-> 0, ready |-> FALSE]

home(k) == Hash[k] % MAX_BUCKETS

(* A slip: the search leaves the table.                                    *)
after_Unwrapped(i) == i + 1

after(i) == (i + 1) % MAX_BUCKETS

(* usage_metrics_zone_init.                                                *)
Init ==
  /\ bucket = [i \in Bucket |-> Vacant]
  /\ pc = [w \in Workers |-> "idle"]
  /\ key = [w \in Workers |-> NoKey]
  /\ idx = [w \in Workers |-> 0]
  /\ push = "idle"
  /\ at = 0
  /\ items = <<>>
  /\ counted = [k \in Keys |-> 0]
  /\ accepted = [k \in Keys |-> 0]
  /\ repeated = [k \in Keys |-> 0]
  /\ pushes = 0 /\ crashes = 0 /\ late = 0

-----------------------------------------------------------------------------
(* record_processed, record_dropped, record_appsec_dropped: a request is   *)
(* counted under one key.                                                  *)
InFlight(k) == Cardinality({w \in Workers : pc[w] # "idle" /\ key[w] = k})

Record(w, k) ==
  /\ pc[w] = "idle" /\ counted[k] + InFlight(k) < MaxCount
  /\ pc' = [pc EXCEPT ![w] = "load"]
  /\ key' = [key EXCEPT ![w] = k]
  /\ idx' = [idx EXCEPT ![w] = home(k)]
  /\ UNCHANGED <<bucket, push_vars, counted, crashes>>

Done(w) == pc' = [pc EXCEPT ![w] = "idle"] /\ UNCHANGED <<key, idx>>

(* The next bucket, or give up when the table is full.                     *)
Advance(w) ==
  IF after(idx[w]) = home(key[w])
  THEN Done(w)
  ELSE /\ pc' = [pc EXCEPT ![w] = "load"]
       /\ idx' = [idx EXCEPT ![w] = after(@)]
       /\ UNCHANGED key

(* bucket_inc in a bucket of this key: one fetch_add.                      *)
AddToBucket(w) ==
  LET i == idx[w]
  IN  /\ pc[w] = "load"
      /\ bucket[i].ready /\ bucket[i].key = key[w]
      /\ bucket' = [bucket EXCEPT ![i].value = (@ + 1) % Modulus]
      /\ counted' = [counted EXCEPT ![key[w]] = @ + 1]
      /\ Done(w)
      /\ UNCHANGED <<push_vars, crashes>>

(* A bucket of another key, or one of this hash whose owner is not ready   *)
(* after 1024 rounds.                                                      *)
PassBucket(w) ==
  LET b == bucket[idx[w]]
  IN  /\ pc[w] = "load"
      /\ b.key_hash # 0
      /\ ~b.ready \/ b.key # key[w]
      /\ Advance(w)
      /\ UNCHANGED <<bucket, push_vars, counted, crashes>>

SeeVacant(w) ==
  /\ pc[w] = "load"
  /\ bucket[idx[w]].key_hash = 0
  /\ pc' = [pc EXCEPT ![w] = "claim"]
  /\ UNCHANGED <<bucket, key, idx, push_vars, counted, crashes>>

(* A slip: key_hash is stored, as the bucket was seen to be vacant.        *)
ClaimBucket_Store(w) ==
  /\ pc[w] = "claim"
  /\ bucket' = [bucket EXCEPT ![idx[w]].key_hash = Hash[key[w]]]
  /\ pc' = [pc EXCEPT ![w] = "fill"]
  /\ UNCHANGED <<key, idx, push_vars, counted, crashes>>

(* The compare-exchange on key_hash.  Who loses it does not look at the    *)
(* bucket again.                                                           *)
ClaimBucket(w) ==
  LET i == idx[w]
  IN  /\ pc[w] = "claim"
      /\ IF bucket[i].key_hash = 0
         THEN /\ bucket' = [bucket EXCEPT ![i].key_hash = Hash[key[w]]]
              /\ pc' = [pc EXCEPT ![w] = "fill"]
              /\ UNCHANGED <<key, idx>>
         ELSE Advance(w) /\ UNCHANGED bucket
      /\ UNCHANGED <<push_vars, counted, crashes>>

(* The fields, the value and then ready, which lets others look at them.   *)
FillBucket(w) ==
  LET i == idx[w]
  IN  /\ pc[w] = "fill"
      /\ bucket' = [bucket EXCEPT ![i].key = key[w], ![i].value = 1, ![i].ready = TRUE]
      /\ counted' = [counted EXCEPT ![key[w]] = @ + 1]
      /\ Done(w)
      /\ UNCHANGED <<push_vars, crashes>>

(* A worker is killed; a bucket it claimed and did not fill stays claimed. *)
Crash(w) ==
  /\ pc[w] # "idle" /\ crashes < MaxCrashes
  /\ crashes' = crashes + 1
  /\ Done(w)
  /\ UNCHANGED <<bucket, push_vars, counted>>

-----------------------------------------------------------------------------
(* push_to_lapi in the poller, or flush_on_shutdown once it has stopped.   *)
BeginPush ==
  /\ push = "idle" /\ pushes < MaxPushes
  /\ pushes' = pushes + 1
  /\ push' = "collect"
  /\ at' = 0
  /\ items' = <<>>
  /\ UNCHANGED <<bucket, inc_vars, counted, accepted, repeated, crashes, late>>

(* collect_items, one bucket.                                              *)
Collect ==
  /\ push = "collect" /\ at < MAX_BUCKETS
  /\ LET b == bucket[at]
     IN  items' = IF b.ready /\ b.value # 0
                  THEN Append(items, [key |-> b.key, value |-> b.value])
                  ELSE items
  /\ at' = at + 1
  /\ UNCHANGED <<bucket, inc_vars, push, counted, accepted, repeated, pushes, crashes, late>>

(* f[1] + ... + f[n].                                                      *)
SumTo(f, n) ==
  LET sum[i \in 0 .. n] == IF i = 0 THEN 0 ELSE sum[i - 1] + f[i]
  IN  sum[n]

(* The snapshot's values of a key.                                         *)
ValueAt(seq, k) ==
  [i \in 1 .. Len(seq) |-> IF seq[i].key = k THEN seq[i].value ELSE 0]
ValuesOf(k) == SumTo(ValueAt(items, k), Len(items))

(* The upload is done, or there was nothing to upload; an error leaves the *)
(* counters alone.                                                         *)
Posted ==
  /\ push = "collect" /\ at = MAX_BUCKETS
  /\ push' = IF items = <<>> THEN "idle" ELSE "reset"
  /\ accepted' = [k \in Keys |-> accepted[k] + ValuesOf(k)]
  /\ UNCHANGED <<bucket, inc_vars, at, items, counted, repeated, pushes, crashes, late>>

PostFailed ==
  /\ push = "collect" /\ at = MAX_BUCKETS /\ items # <<>>
  /\ push' = "idle"
  /\ items' = <<>>
  /\ UNCHANGED <<bucket, inc_vars, at, counted, accepted, repeated, pushes, crashes, late>>

(* LAPI accepts the upload and the answer comes too late, or is lost: the  *)
(* counters stay, and are uploaded again.                                  *)
PostedLate ==
  /\ push = "collect" /\ at = MAX_BUCKETS /\ items # <<>> /\ late < MaxLate
  /\ late' = late + 1
  /\ push' = "idle"
  /\ items' = <<>>
  /\ accepted' = [k \in Keys |-> accepted[k] + ValuesOf(k)]
  /\ repeated' = [k \in Keys |-> repeated[k] + ValuesOf(k)]
  /\ UNCHANGED <<bucket, inc_vars, at, counted, pushes, crashes>>

(* The first bucket of a key in the order of the search, if any.           *)
FirstOf(k) ==
  LET rank(i) == (i - home(k)) % MAX_BUCKETS
      hits == {i \in Bucket : bucket[i].ready /\ bucket[i].key = k}
  IN  {i \in hits : \A j \in hits : rank(i) <= rank(j)}

Subtract(S, v) ==
  bucket' = [i \in Bucket |->
               IF i \in S THEN [bucket[i] EXCEPT !.value = (@ - v) % Modulus] ELSE bucket[i]]

(* A slip: the counter is set to zero.                                     *)
reset_after_push_Zero ==
  LET item == Head(items)
      first == FirstOf(item.key)
  IN  bucket' = [i \in Bucket |->
                   IF i \in first THEN [bucket[i] EXCEPT !.value = 0] ELSE bucket[i]]

(* reset_after_push for one item: fetch_sub what was uploaded.             *)
reset_after_push ==
  LET item == Head(items)
  IN  Subtract(FirstOf(item.key), item.value)

ResetItem ==
  /\ push = "reset" /\ items # <<>>
  /\ reset_after_push
  /\ items' = Tail(items)
  /\ UNCHANGED <<inc_vars, push, at, counted, accepted, repeated, pushes, crashes, late>>

EndPush ==
  /\ push = "reset" /\ items = <<>>
  /\ push' = "idle"
  /\ UNCHANGED <<bucket, inc_vars, at, items, counted, accepted, repeated, pushes, crashes, late>>

(* What LAPI has accepted and is still to be subtracted.                   *)
Pending(k) == IF push = "reset" THEN ValuesOf(k) ELSE 0

(* The poller is killed while it uploads; another one starts anew.  What   *)
(* LAPI has accepted and is not subtracted yet will be uploaded again.     *)
KillPoller ==
  /\ push # "idle" /\ crashes < MaxCrashes
  /\ crashes' = crashes + 1
  /\ push' = "idle"
  /\ items' = <<>>
  /\ repeated' = [k \in Keys |-> repeated[k] + Pending(k)]
  /\ UNCHANGED <<bucket, inc_vars, at, counted, accepted, pushes, late>>

-----------------------------------------------------------------------------
bucket_inc(w) ==
  AddToBucket(w) \/ PassBucket(w) \/ SeeVacant(w) \/ ClaimBucket(w) \/ FillBucket(w)

push_to_lapi ==
  BeginPush \/ Collect \/ Posted \/ PostedLate \/ PostFailed \/ ResetItem \/ EndPush

Next ==
  \/ \E w \in Workers : (\E k \in Keys : Record(w, k)) \/ bucket_inc(w) \/ Crash(w)
  \/ push_to_lapi \/ KillPoller

Spec == Init /\ [][Next]_vars

-----------------------------------------------------------------------------
TypeOK ==
  /\ bucket \in [Bucket -> [key_hash : Nat, key : Keys \union {NoKey},
                            value : 0 .. Modulus - 1, ready : BOOLEAN]]
  /\ pc \in [Workers -> {"idle", "load", "claim", "fill"}]
  /\ key \in [Workers -> Keys \union {NoKey}]
  /\ idx \in [Workers -> Bucket]
  /\ push \in {"idle", "collect", "reset"}
  /\ at \in 0 .. MAX_BUCKETS
  /\ items \in Seq([key : Keys, value : 1 .. Modulus - 1])
  /\ counted \in [Keys -> Nat] /\ accepted \in [Keys -> Nat]
  /\ repeated \in [Keys -> Nat]
  /\ pushes \in Nat /\ crashes \in Nat /\ late \in Nat

(* What the buckets of a key hold.                                         *)
StoredAt(table, k) ==
  [i \in 1 .. MAX_BUCKETS |->
     LET b == table[i - 1] IN IF b.ready /\ b.key = k THEN b.value ELSE 0]
Stored(k) == SumTo(StoredAt(bucket, k), MAX_BUCKETS)

(* No request is lost, and none is uploaded twice but by an upload that    *)
(* LAPI accepted unnoticed or whose poller was killed before it subtracted:*)
(* what is stored and what LAPI has accepted make up what was counted and  *)
(* what was left to be repeated, through increments that arrive during an  *)
(* upload, failed uploads and races for a bucket.  Words wrap around, so   *)
(* the sum does.                                                           *)
NothingLost ==
  \A k \in Keys :
    (Stored(k) + accepted[k] - Pending(k)) % Modulus = (counted[k] + repeated[k]) % Modulus

(* Who fills a bucket has it alone, and it is ready for nobody before it   *)
(* is filled.  A worker that is killed between the claim and ready takes   *)
(* one bucket with it and no more: every other claimed bucket is ready or  *)
(* has a worker that will make it so (bucket_inc).                         *)
Fillers == {w \in Workers : pc[w] = "fill"}
Unready == {i \in Bucket : bucket[i].key_hash # 0 /\ ~bucket[i].ready}

BucketsOwned ==
  /\ \A w, v \in Fillers : idx[w] = idx[v] => w = v
  /\ \A w \in Fillers : idx[w] \in Unready /\ bucket[idx[w]].key_hash = Hash[key[w]]
  /\ Cardinality(Unready) <= Cardinality(Fillers) + crashes

(* An upload never holds more than was counted: the changelog says that    *)
(* the same snapshot is uploaded and subtracted, so no counter goes below  *)
(* zero.                                                                   *)
UploadsPlausible ==
  \A i \in DOMAIN items : items[i].value <= counted[items[i].key]
=============================================================================
