------------------------ MODULE ConfigurationProofs ------------------------
(***************************************************************************)
(* Proofs about Configuration for any files, any number of reloads and any *)
(* requests: what a worker serves with is what its file says.              *)
(***************************************************************************)
EXTENDS Configuration, SequenceTheorems, WellFoundedInduction, TLAPS

-----------------------------------------------------------------------------
(* Numbers.                                                                *)

LEMMA LeastNat ==
  ASSUME NEW T, T \subseteq Nat, T # {}
  PROVE  \E m \in T : \A n \in T : m <= n
<1>1. PICK m \in T : \A n \in T : ~ (<<n, m>> \in OpToRel(<, Nat))
  BY NatLessThanWellFounded, WFMin
<1>2. \A n \in T : <<n, m>> \in OpToRel(<, Nat) <=> n < m
  BY DEF OpToRel
<1>3. \A n \in T : ~ (n < m)
  BY <1>1, <1>2, Zenon
<1>4. QED
  BY <1>3

(* A number that is in the set and no less than any other is its greatest. *)
LEMMA MaxIs ==
  ASSUME NEW T, T \subseteq Int, NEW m \in T, \A n \in T : n <= m
  PROVE  Max(T) = m
<1>1. Max(T) \in T /\ \A n \in T : Max(T) >= n
  <2>1. \E x \in T : \A y \in T : x >= y
    OBVIOUS
  <2> DEFINE P(x) == x \in T /\ \A y \in T : x >= y
  <2>2. Max(T) = CHOOSE x : P(x)
    BY DEF Max
  <2>3. QED
    BY <2>1, <2>2
<1> DEFINE x == Max(T)
<1>2. x \in Int /\ m \in Int /\ x >= m /\ x <= m
  BY <1>1
<1> HIDE DEF x
<1>3. x = m
  BY <1>2
<1>4. QED
  BY <1>3 DEF x

-----------------------------------------------------------------------------
(* Directives.                                                             *)

Field(d) == d.context \in 0 .. Nested /\ d.field \in Fields(d.context)

LEMMA DirectiveField ==
  ASSUME NEW d, Directive(d)
  PROVE  Field(d)
BY DEF Directive, Field, Fields, Contexts, Http, Nested

(* What reading a file leaves: a value for each field of each context.     *)
Shape(confs) ==
  /\ confs = [c \in 0 .. Nested |-> confs[c]]
  /\ \A c \in 0 .. Nested : confs[c] = [f \in Fields(c) |-> confs[c][f]]

Put(confs, c0, f0, v) == [confs EXCEPT ![c0][f0] = v]

LEMMA Stored ==
  ASSUME NEW confs, Shape(confs), NEW c0 \in 0 .. Nested, NEW f0 \in Fields(c0), NEW v
  PROVE  /\ Shape(Put(confs, c0, f0, v))
         /\ \A c \in 0 .. Nested : \A f \in Fields(c) :
              Put(confs, c0, f0, v)[c][f] = IF c = c0 /\ f = f0 THEN v ELSE confs[c][f]
<1> DEFINE row == [confs[c0] EXCEPT ![f0] = v]
           new == Put(confs, c0, f0, v)
<1>1. new = [confs EXCEPT ![c0] = row]
  BY DEF Put
<1>2. row = [f \in Fields(c0) |-> IF f = f0 THEN v ELSE confs[c0][f]]
  BY DEF Shape
<1> HIDE DEF row
<1>3. new = [c \in 0 .. Nested |-> IF c = c0 THEN row ELSE confs[c]]
  BY <1>1 DEF Shape
<1> HIDE DEF new
<1>4. \A c \in 0 .. Nested : new[c] = IF c = c0 THEN row ELSE confs[c]
  BY <1>3
<1>5. \A c \in 0 .. Nested : \A f \in Fields(c) :
        new[c][f] = IF c = c0 /\ f = f0 THEN v ELSE confs[c][f]
  BY <1>2, <1>4
<1>6. Shape(new)
  <2>1. new = [c \in 0 .. Nested |-> new[c]]
    BY <1>3
  <2>2. \A c \in 0 .. Nested : new[c] = [f \in Fields(c) |-> new[c][f]]
    BY <1>2, <1>4 DEF Shape
  <2>3. QED
    BY <2>1, <2>2 DEF Shape
<1>7. QED
  BY <1>5, <1>6 DEF new

(* The state of reading.                                                   *)
Reading(st) ==
  {"ok", "confs", "cache"} \subseteq DOMAIN st /\ Shape(st.confs) /\ st.cache \in Nat

LEMMA StoreWorks ==
  ASSUME NEW st, Reading(st), NEW d, Field(d), NEW v
  PROVE  LET new == Store(st, d, v)
         IN  /\ Reading(new)
             /\ new.ok = st.ok
             /\ \A c \in 0 .. Nested : \A f \in Fields(c) :
                  new.confs[c][f] = IF c = d.context /\ f = d.field THEN v ELSE st.confs[c][f]
<1> DEFINE confs == Put(st.confs, d.context, d.field, v)
<1>1. Store(st, d, v) = [st EXCEPT !.confs = confs]
  BY DEF Store, Put
<1>2. /\ Shape(confs)
      /\ \A c \in 0 .. Nested : \A f \in Fields(c) :
           confs[c][f] = IF c = d.context /\ f = d.field THEN v ELSE st.confs[c][f]
  <2>1. Shape(st.confs) /\ d.context \in 0 .. Nested /\ d.field \in Fields(d.context)
    BY DEF Reading, Field
  <2>2. QED
    BY <2>1, Stored
<1> HIDE DEF confs
<1>3. /\ [st EXCEPT !.confs = confs].confs = confs
      /\ [st EXCEPT !.confs = confs].ok = st.ok
      /\ [st EXCEPT !.confs = confs].cache = st.cache
      /\ DOMAIN [st EXCEPT !.confs = confs] = DOMAIN st
  BY DEF Reading
<1>4. QED
  BY <1>1, <1>2, <1>3 DEF Reading

LEMMA RefuseWorks ==
  ASSUME NEW st, Reading(st)
  PROVE  Reading(Refuse(st)) /\ ~ Refuse(st).ok
<1>1. Refuse(st).ok = FALSE
  BY DEF Refuse, Reading
<1>2. Refuse(st).confs = st.confs /\ Refuse(st).cache = st.cache
  BY DEF Refuse, Reading
<1>3. DOMAIN Refuse(st) = DOMAIN st
  BY DEF Refuse
<1>4. QED
  BY <1>1, <1>2, <1>3 DEF Reading

(* What a handler accepts.                                                 *)
Plain == (MainFields \union LocFields) \ (Lists \union Templates)
Accepts(d) == IF d.field \in Flags THEN d.value \in {TRUE, FALSE} ELSE WellFormed(d)
Names(d) == {Off, Invalid} \intersect Range(d.value) = {}

(* A handler that succeeds leaves all other fields alone.                  *)
Effect(st, d, new) ==
  /\ st.ok
  /\ \A c \in 0 .. Nested : \A f \in Fields(c) :
       c # d.context \/ f # d.field => new.confs[c][f] = st.confs[c][f]
  /\ d.field \in Plain => Accepts(d) /\ new.confs[d.context][d.field] = d.value
  /\ d.field \in NetworkLists =>
       new.confs[0][d.field] =
         IF d.value = <<Off>> THEN {} ELSE st.confs[0][d.field] \union Range(d.value)
  /\ d.field \in NetworkLists => d.value = <<Off>> \/ Names(d)

Handled(st, d, new) == Reading(new) /\ (new.ok => Effect(st, d, new))

LEMMA StoreIfHandled ==
  ASSUME NEW st, Reading(st), NEW d, Field(d), NEW accepted,
         accepted => Accepts(d), d.field \notin NetworkLists
  PROVE  Handled(st, d, StoreIf(st, d, accepted))
<1>1. CASE accepted
  <2> DEFINE new == Store(st, d, d.value)
  <2>1. StoreIf(st, d, accepted) = new
    BY <1>1 DEF StoreIf
  <2>2. /\ Reading(new) /\ new.ok = st.ok
        /\ \A c \in 0 .. Nested : \A f \in Fields(c) :
             new.confs[c][f] = IF c = d.context /\ f = d.field THEN d.value ELSE st.confs[c][f]
    BY StoreWorks
  <2>3. d.context \in 0 .. Nested /\ d.field \in Fields(d.context)
    BY DEF Field
  <2> HIDE DEF new
  <2>4. QED
    BY <1>1, <2>1, <2>2, <2>3 DEF Handled, Effect
<1>2. CASE ~ accepted
  BY <1>2, RefuseWorks DEF StoreIf, Handled
<1>3. QED
  BY <1>1, <1>2

LEMMA ListHandled ==
  ASSUME NEW st, Reading(st), NEW d, Field(d), d.field \in Lists, NEW list,
         d.field \in NetworkLists => d.context = 0 /\ list = st.confs[0][d.field]
  PROVE  Handled(st, d, ExtendList(st, d, list))
<1>1. d.context \in 0 .. Nested /\ d.field \in Fields(d.context) /\ d.field \notin Plain
  BY DEF Field, Plain
<1>2. ASSUME NEW v PROVE
        LET new == Store(st, d, v)
        IN  /\ Reading(new) /\ new.ok = st.ok
            /\ \A c \in 0 .. Nested : \A f \in Fields(c) :
                 c # d.context \/ f # d.field => new.confs[c][f] = st.confs[c][f]
            /\ new.confs[d.context][d.field] = v
  BY <1>1, StoreWorks
<1>3. CASE d.value = <<Off>>
  BY <1>1, <1>2, <1>3 DEF ExtendList, Handled, Effect
<1>4. CASE d.value # <<Off>> /\ ~ Names(d)
  BY <1>4, RefuseWorks DEF ExtendList, Names, Handled
<1>5. CASE d.value # <<Off>> /\ Names(d)
  <2>1. ExtendList(st, d, list) = Store(st, d, list \union Range(d.value))
    BY <1>5 DEF ExtendList, Names
  <2> DEFINE v == list \union Range(d.value)
             new == Store(st, d, v)
  <2>2. /\ Reading(new) /\ new.ok = st.ok
        /\ \A c \in 0 .. Nested : \A f \in Fields(c) :
             c # d.context \/ f # d.field => new.confs[c][f] = st.confs[c][f]
        /\ new.confs[d.context][d.field] = v
    BY <1>2
  <2>3. d.field \in NetworkLists =>
          new.confs[0][d.field] =
            IF d.value = <<Off>> THEN {} ELSE st.confs[0][d.field] \union Range(d.value)
    <3>1. d.field \in NetworkLists => new.confs[0][d.field] = st.confs[0][d.field] \union Range(d.value)
      BY <2>2
    <3> HIDE DEF new
    <3>2. QED
      BY <1>5, <3>1
  <2> HIDE DEF new, v
  <2>4. new.ok => Effect(st, d, new)
    BY <1>1, <1>5, <2>2, <2>3 DEF Effect
  <2>5. ExtendList(st, d, list) = new
    BY <2>1 DEF new, v
  <2>6. QED
    BY <2>2, <2>4, <2>5 DEF Handled
<1>6. QED
  BY <1>3, <1>4, <1>5

LEMMA TemplateHandled ==
  ASSUME NEW st, Reading(st), page \in Nat, NEW d, Field(d), d.field \in Templates
  PROVE  Handled(st, d, set_template(st, d))
<1> DEFINE template == IF st.cache = 0 THEN page ELSE st.cache
           st2 == [st EXCEPT !.cache = template]
           new == Store(st2, d, template)
<1>1. CASE template = 0
  BY <1>1, RefuseWorks DEF set_template, Handled
<1>2. CASE template # 0
  <2>1. Reading(st2) /\ st2.ok = st.ok /\ st2.confs = st.confs
    <3>1. template \in Nat
      BY DEF Reading
    <3> HIDE DEF template
    <3>2. QED
      BY <3>1 DEF Reading
  <2> HIDE DEF template
  <2>2. set_template(st, d) = new
    BY <1>2 DEF set_template, Store, template
  <2> HIDE DEF st2
  <2>3. /\ Reading(new) /\ new.ok = st.ok
        /\ \A c \in 0 .. Nested : \A f \in Fields(c) :
             c # d.context \/ f # d.field => new.confs[c][f] = st.confs[c][f]
    <3>1. /\ Reading(new) /\ new.ok = st2.ok
          /\ \A c \in 0 .. Nested : \A f \in Fields(c) :
               new.confs[c][f] =
                 IF c = d.context /\ f = d.field THEN template ELSE st2.confs[c][f]
      BY <2>1, StoreWorks
    <3> HIDE DEF new
    <3>2. QED
      BY <2>1, <3>1
  <2>4. d.field \notin Plain /\ d.field \notin NetworkLists
    BY DEF Plain, Templates, NetworkLists
  <2> HIDE DEF new
  <2>5. QED
    BY <2>2, <2>3, <2>4 DEF Handled, Effect
<1>3. QED
  BY <1>1, <1>2

(* Which handler a directive has.                                          *)
LEMMA HandlerOf ==
  ASSUME NEW st, NEW d, Directive(d)
  PROVE  /\ d.field \in Flags => handler(st, d) = set_flag_on_off(st, d)
         /\ d.field = "shm_size" => handler(st, d) = set_shm_size(st, d)
         /\ d.field \in NetworkLists =>
              handler(st, d) = ExtendList(st, d, st.confs[d.context][d.field])
         /\ d.field = "static_asset_extensions" =>
              handler(st, d) = set_static_extensions(st, d)
         /\ d.field \in Templates => handler(st, d) = set_template(st, d)
         /\ d.field \in Plain \ (Flags \union {"shm_size"}) =>
              handler(st, d) = StoreIf(st, d, WellFormed(d))
<1> USE DEF handler, Flags, LapiFields, BanFields, CaptchaFields, CaptchaKeys, PolicyFields,
            AppSecMain, AppSecLoc, Templates, NetworkLists
<1>1. d.field \in Flags => handler(st, d) = set_flag_on_off(st, d)
  OBVIOUS
<1>2. d.field = "shm_size" => handler(st, d) = set_shm_size(st, d)
  OBVIOUS
<1>3. d.field \in NetworkLists => handler(st, d) = ExtendList(st, d, st.confs[d.context][d.field])
  BY DEF set_trusted_proxies, set_bypass
<1>4. d.field = "static_asset_extensions" => handler(st, d) = set_static_extensions(st, d)
  OBVIOUS
<1>5. d.field \in Templates => handler(st, d) = set_template(st, d)
  OBVIOUS
<1>6. d.field \in Plain \ (Flags \union {"shm_size"}) =>
        handler(st, d) = StoreIf(st, d, WellFormed(d))
  BY DEF Plain, MainFields, LocFields, Lists,
     set_lapi, set_real_ip_header, set_ban, set_captcha, set_policy, set_appsec
<1>7. QED
  BY <1>1, <1>2, <1>3, <1>4, <1>5, <1>6


LEMMA HandlerWorks ==
  ASSUME NEW st, Reading(st), page \in Nat, NEW d, Directive(d)
  PROVE  Handled(st, d, handler(st, d))
<1>1. Field(d)
  BY DirectiveField
<1>2. CASE d.field \in Flags
  <2>1. handler(st, d) = StoreIf(st, d, d.value \in {TRUE, FALSE})
    BY <1>2, HandlerOf DEF set_flag_on_off
  <2>2. d.field \notin NetworkLists
    BY <1>2 DEF Flags, NetworkLists
  <2>3. d.value \in {TRUE, FALSE} => Accepts(d)
    BY <1>2 DEF Accepts
  <2>4. QED
    BY <1>1, <2>1, <2>2, <2>3, StoreIfHandled
<1>3. CASE d.field = "shm_size"
  <2> DEFINE accepted == WellFormed(d) /\ st.confs[0].shm_size \in {Unset, d.value}
  <2>1. handler(st, d) = StoreIf(st, d, accepted)
    BY <1>3, HandlerOf DEF set_shm_size
  <2>2. d.field \notin NetworkLists /\ d.field \notin Flags
    BY <1>3 DEF Flags, NetworkLists
  <2>3. accepted => Accepts(d)
    BY <2>2 DEF Accepts
  <2> HIDE DEF accepted
  <2>4. QED
    BY <1>1, <2>1, <2>2, <2>3, StoreIfHandled
<1>4. CASE d.field \in NetworkLists
  <2>1. d.context = 0
    BY <1>4 DEF Directive, NetworkLists, LocFields, Flags, BanFields, CaptchaFields,
       CaptchaKeys, AppSecLoc, Templates
  <2>2. handler(st, d) = ExtendList(st, d, st.confs[d.context][d.field])
    BY <1>4, HandlerOf
  <2>3. d.field \in Lists
    BY <1>4 DEF Lists
  <2>4. QED
    BY <1>1, <2>1, <2>2, <2>3, ListHandled
<1>5. CASE d.field = "static_asset_extensions"
  <2>1. handler(st, d) = ExtendList(st, d, OrElse(st.confs[d.context][d.field], {}))
    BY <1>5, HandlerOf DEF set_static_extensions
  <2>2. d.field \in Lists /\ d.field \notin NetworkLists
    BY <1>5 DEF Lists, NetworkLists
  <2>3. QED
    BY <1>1, <2>1, <2>2, ListHandled
<1>6. CASE d.field \in Templates
  BY <1>1, <1>6, HandlerOf, TemplateHandled
<1>7. CASE d.field \in Plain \ (Flags \union {"shm_size"})
  <2>1. handler(st, d) = StoreIf(st, d, WellFormed(d))
    BY <1>7, HandlerOf
  <2>2. d.field \notin NetworkLists /\ d.field \notin Flags
    BY <1>7 DEF Plain, Lists
  <2>3. WellFormed(d) => Accepts(d)
    BY <2>2 DEF Accepts
  <2>4. QED
    BY <1>1, <2>1, <2>2, <2>3, StoreIfHandled
<1>8. d.field \in MainFields \union LocFields
  BY DEF Directive
<1>9. QED
  BY <1>2, <1>3, <1>4, <1>5, <1>6, <1>7, <1>8 DEF Plain, Lists


-----------------------------------------------------------------------------
(* Reading: a recursive function, which has a value for each prefix.       *)

Begin(cached) == [ok |-> TRUE, confs |-> EmptyConfs, cache |-> cached]
Step(st, d) == IF st.ok THEN handler(st, d) ELSE st

Reads(text, cached, m, g) ==
  g = [n \in 0 .. m |-> IF n = 0 THEN Begin(cached) ELSE Step(g[n - 1], text[n])]

Runs(text, cached, m, g) ==
  g[0] = Begin(cached) /\ \A n \in 1 .. m : g[n] = Step(g[n - 1], text[n])

LEMMA ReadsValue ==
  ASSUME NEW text, NEW cached, NEW m \in Nat, NEW g, Reads(text, cached, m, g)
  PROVE  Runs(text, cached, m, g)
<1> DEFINE F(n) == IF n = 0 THEN Begin(cached) ELSE Step(g[n - 1], text[n])
<1>1. g = [n \in 0 .. m |-> F(n)]
  BY DEF Reads
<1>2. \A n \in 0 .. m : F(n) = IF n = 0 THEN Begin(cached) ELSE Step(g[n - 1], text[n])
  OBVIOUS
<1> HIDE DEF F
<1>3. \A n \in 0 .. m : g[n] = F(n)
  BY <1>1
<1>4. 0 \in 0 .. m /\ \A n \in 1 .. m : n \in 0 .. m /\ n # 0
  OBVIOUS
<1>5. g[0] = Begin(cached)
  BY <1>2, <1>3, <1>4
<1>6. ASSUME NEW n \in 1 .. m PROVE g[n] = Step(g[n - 1], text[n])
  BY <1>2, <1>3, <1>4
<1>7. QED
  BY <1>5, <1>6 DEF Runs

LEMMA ReadsExists ==
  ASSUME NEW text, NEW cached, NEW m \in Nat
  PROVE  \E g : Reads(text, cached, m, g)
<1> DEFINE T == {n \in 0 .. m : ~ \E g : Reads(text, cached, n, g)}
<1>1. SUFFICES ASSUME T # {} PROVE FALSE
  OBVIOUS
<1>2. T \subseteq Nat
  OBVIOUS
<1>3. PICK k \in T : \A n \in T : k <= n
  BY <1>1, <1>2, LeastNat
<1>4. k # 0
  <2>1. SUFFICES ASSUME k = 0 PROVE FALSE
    OBVIOUS
  <2> DEFINE g == [n \in 0 .. 0 |-> Begin(cached)]
  <2>2. Reads(text, cached, 0, g)
    BY DEF Reads
  <2>3. QED
    BY <1>3, <2>1, <2>2
<1>5. k \in 1 .. m /\ k - 1 \in 0 .. m /\ k - 1 \notin T
  BY <1>3, <1>4
<1>6. PICK g : Reads(text, cached, k - 1, g)
  BY <1>5
<1>7. g[0] = Begin(cached) /\ \A n \in 1 .. k - 1 : g[n] = Step(g[n - 1], text[n])
  <2>1. k - 1 \in Nat
    BY <1>5
  <2>2. Runs(text, cached, k - 1, g)
    BY <1>6, <2>1, ReadsValue
  <2>3. QED
    BY <2>2 DEF Runs
<1> DEFINE h == [n \in 0 .. k |-> IF n <= k - 1 THEN g[n] ELSE Step(g[k - 1], text[k])]
           F(n) == IF n = 0 THEN Begin(cached) ELSE Step(h[n - 1], text[n])
<1>8. \A n \in 0 .. k : h[n] = F(n)
  <2> SUFFICES ASSUME NEW n \in 0 .. k PROVE h[n] = F(n)
    OBVIOUS
  <2>1. CASE n = 0
    BY <1>5, <1>7, <2>1
  <2>2. CASE n \in 1 .. k - 1
    <3>1. h[n] = g[n] /\ h[n - 1] = g[n - 1]
      BY <1>5, <2>2
    <3> HIDE DEF h
    <3>2. QED
      BY <1>7, <2>2, <3>1
  <2>3. CASE n = k
    <3>1. h[n] = Step(g[k - 1], text[k]) /\ h[n - 1] = g[k - 1]
      BY <1>5, <2>3
    <3> HIDE DEF h
    <3>2. QED
      BY <1>5, <2>3, <3>1
  <2>4. QED
    BY <1>5, <2>1, <2>2, <2>3
<1>9. h = [n \in 0 .. k |-> F(n)]
  <2>1. h = [n \in 0 .. k |-> h[n]]
    OBVIOUS
  <2> HIDE DEF h, F
  <2>2. QED
    BY <1>8, <2>1
<1>10. Reads(text, cached, k, h)
  BY <1>9 DEF Reads
<1>11. QED
  BY <1>3, <1>10

(* The states of reading a file, from none of it to all.                   *)
LEMMA ReadRuns ==
  ASSUME NEW text, Len(text) \in Nat, NEW cached
  PROVE  \E g : Runs(text, cached, Len(text), g) /\ Read(text, cached) = g[Len(text)]
<1> DEFINE g == CHOOSE h : Reads(text, cached, Len(text), h)
<1>1. Reads(text, cached, Len(text), g)
  BY ReadsExists
<1>2. Read(text, cached) = g[Len(text)]
  BY DEF Read, Reads, Begin, Step
<1> HIDE DEF g
<1>3. Runs(text, cached, Len(text), g)
  BY <1>1, ReadsValue
<1>4. QED
  BY <1>2, <1>3


-----------------------------------------------------------------------------
(* What has been read of a file is what its first directives say.          *)

Sound(text) ==
  /\ Len(text) \in Nat /\ DOMAIN text = 1 .. Len(text)
  /\ \A i \in 1 .. Len(text) : Directive(text[i])

Upto(text, n, c, f) == {i \in Set(text, c, f) : i <= n}
LastValue(text, n, c, f) ==
  IF Upto(text, n, c, f) = {} THEN Unset ELSE text[Max(Upto(text, n, c, f))].value
InList(text, n, f, x) ==
  \E i \in Upto(text, n, 0, f) :
    /\ x \in Range(text[i].value)
    /\ \A j \in Upto(text, n, 0, f) : text[j].value = <<Off>> => i > j

AsRead(text, n, st) ==
  /\ Reading(st)
  /\ st.ok =>
       /\ \A i \in 1 .. n : text[i].field \in Plain => Accepts(text[i])
       /\ \A c \in 0 .. Nested : \A f \in Fields(c) \intersect Plain :
            st.confs[c][f] = LastValue(text, n, c, f)
       /\ \A f \in NetworkLists :
            /\ st.confs[0][f] \subseteq Network
            /\ \A x : x \in st.confs[0][f] <=> InList(text, n, f, x)

LEMMA LastStep ==
  ASSUME NEW text, Sound(text), NEW n \in 1 .. Len(text), NEW c, NEW f
  PROVE  LastValue(text, n, c, f) =
           IF text[n].context = c /\ text[n].field = f THEN text[n].value
           ELSE LastValue(text, n - 1, c, f)
<1>1. n \in DOMAIN text /\ DOMAIN text \subseteq Int
  BY DEF Sound
<1>2. CASE text[n].context = c /\ text[n].field = f
  <2>1. /\ n \in Upto(text, n, c, f) /\ Upto(text, n, c, f) \subseteq Int
        /\ \A i \in Upto(text, n, c, f) : i <= n
    BY <1>1, <1>2 DEF Upto, Set
  <2>2. Max(Upto(text, n, c, f)) = n
    BY <2>1, MaxIs
  <2>3. QED
    BY <1>2, <2>1, <2>2 DEF LastValue
<1>3. CASE ~ (text[n].context = c /\ text[n].field = f)
  <2>1. Upto(text, n, c, f) = Upto(text, n - 1, c, f)
    BY <1>1, <1>3 DEF Upto, Set
  <2>2. QED
    BY <1>3, <2>1 DEF LastValue
<1>4. QED
  BY <1>2, <1>3

LEMMA ListStep ==
  ASSUME NEW text, Sound(text), NEW n \in 1 .. Len(text), NEW f, NEW x
  PROVE  InList(text, n, f, x) <=>
           IF text[n].context = 0 /\ text[n].field = f
           THEN /\ text[n].value # <<Off>>
                /\ InList(text, n - 1, f, x) \/ x \in Range(text[n].value)
           ELSE InList(text, n - 1, f, x)
<1>1. n \in DOMAIN text /\ DOMAIN text \subseteq Int
  BY DEF Sound
<1> DEFINE new == Upto(text, n, 0, f)
           old == Upto(text, n - 1, 0, f)
           off(j) == text[j].value = <<Off>>
<1>2. CASE text[n].context = 0 /\ text[n].field = f
  <2>1. new = old \union {n} /\ \A i \in old : i \in Int /\ i < n
    BY <1>1, <1>2 DEF Upto, Set
  <2>2. InList(text, n, f, x) <=>
          \E i \in new : x \in Range(text[i].value) /\ \A j \in new : off(j) => i > j
    BY DEF InList
  <2>3. InList(text, n - 1, f, x) <=>
          \E i \in old : x \in Range(text[i].value) /\ \A j \in old : off(j) => i > j
    BY DEF InList
  <2> HIDE DEF new, old
  <2>4. CASE off(n)
    <3>1. \A i \in new : ~ (i > n)
      BY <2>1
    <3>2. n \in new
      BY <2>1
    <3>3. ~ InList(text, n, f, x)
      BY <2>2, <2>4, <3>1, <3>2
    <3>4. QED
      BY <1>2, <2>4, <3>3
  <2>5. CASE ~ off(n)
    <3>1. \A i \in new : (\A j \in new : off(j) => i > j) <=> (\A j \in old : off(j) => i > j)
      BY <2>1, <2>5
    <3>2. \A j \in old : n > j
      BY <2>1
    <3>3. InList(text, n, f, x) <=> InList(text, n - 1, f, x) \/ x \in Range(text[n].value)
      BY <2>1, <2>2, <2>3, <3>1, <3>2
    <3>4. QED
      BY <1>2, <2>5, <3>3
  <2>6. QED
    BY <2>4, <2>5
<1>3. CASE ~ (text[n].context = 0 /\ text[n].field = f)
  <2>1. Upto(text, n, 0, f) = Upto(text, n - 1, 0, f)
    BY <1>1, <1>3 DEF Upto, Set
  <2>2. InList(text, n, f, x) <=> InList(text, n - 1, f, x)
    BY <2>1 DEF InList
  <2>3. QED
    BY <1>3, <2>2
<1>4. QED
  BY <1>2, <1>3

LEMMA BeginAsRead ==
  ASSUME NEW text, Sound(text), NEW cached \in Nat
  PROVE  AsRead(text, 0, Begin(cached))
<1>1. Reading(Begin(cached))
  <2>1. Shape(EmptyConfs)
    <3>1. \A c \in 0 .. Nested :
            EmptyConfs[c] = [f \in Fields(c) |-> IF f \in NetworkLists THEN {} ELSE Unset]
      BY DEF EmptyConfs
    <3>2. EmptyConfs = [c \in 0 .. Nested |-> EmptyConfs[c]]
      BY DEF EmptyConfs
    <3>3. \A c \in 0 .. Nested : EmptyConfs[c] = [f \in Fields(c) |-> EmptyConfs[c][f]]
      BY <3>1
    <3>4. QED
      BY <3>2, <3>3 DEF Shape
  <2>2. QED
    BY <2>1 DEF Begin, Reading
<1>2. \A c, f : Upto(text, 0, c, f) = {}
  BY DEF Upto, Set, Sound
<1>3. \A c \in 0 .. Nested : \A f \in Fields(c) \intersect Plain :
        Begin(cached).confs[c][f] = LastValue(text, 0, c, f)
  BY <1>2 DEF Begin, EmptyConfs, LastValue, Plain, Lists
<1>4. \A f \in NetworkLists : Begin(cached).confs[0][f] = {}
  BY DEF Begin, EmptyConfs, Fields, MainFields, Nested
<1>5. \A f, x : ~ InList(text, 0, f, x)
  BY <1>2 DEF InList
<1>6. QED
  BY <1>1, <1>3, <1>4, <1>5 DEF AsRead

LEMMA StepAsRead ==
  ASSUME NEW text, Sound(text), NEW n \in 1 .. Len(text), NEW st, AsRead(text, n - 1, st),
         page \in Nat
  PROVE  AsRead(text, n, Step(st, text[n]))
<1> DEFINE d == text[n]
           new == Step(st, d)
<1>1. CASE ~ st.ok
  BY <1>1 DEF AsRead, Step
<1>2. CASE st.ok
  <2>1. Directive(d)
    BY DEF Sound
  <2>2. Handled(st, d, new)
    BY <1>2, <2>1, HandlerWorks DEF AsRead, Step
  <2>3. Reading(new)
    BY <2>2 DEF Handled
  <2>4. SUFFICES ASSUME new.ok
                 PROVE  /\ \A i \in 1 .. n : text[i].field \in Plain => Accepts(text[i])
                        /\ \A c \in 0 .. Nested : \A f \in Fields(c) \intersect Plain :
                             new.confs[c][f] = LastValue(text, n, c, f)
                        /\ \A f \in NetworkLists :
                             /\ new.confs[0][f] \subseteq Network
                             /\ \A x : x \in new.confs[0][f] <=> InList(text, n, f, x)
    BY <2>3 DEF AsRead
  <2>5. Effect(st, d, new)
    BY <2>2, <2>4 DEF Handled
  <2> HIDE DEF new
  <2>6. \A i \in 1 .. n : text[i].field \in Plain => Accepts(text[i])
    <3> SUFFICES ASSUME NEW i \in 1 .. n, text[i].field \in Plain PROVE Accepts(text[i])
      OBVIOUS
    <3>1. CASE i = n
      BY <2>5, <3>1 DEF Effect
    <3>2. CASE i # n
      BY <1>2, <3>2 DEF AsRead
    <3>3. QED
      BY <3>1, <3>2
  <2>7. \A c \in 0 .. Nested : \A f \in Fields(c) \intersect Plain :
          new.confs[c][f] = LastValue(text, n, c, f)
    <3> SUFFICES ASSUME NEW c \in 0 .. Nested, NEW f \in Fields(c) \intersect Plain
                 PROVE  new.confs[c][f] = LastValue(text, n, c, f)
      OBVIOUS
    <3>1. st.confs[c][f] = LastValue(text, n - 1, c, f)
      BY <1>2 DEF AsRead
    <3>2. new.confs[c][f] = IF d.context = c /\ d.field = f THEN d.value ELSE st.confs[c][f]
      BY <2>5 DEF Effect
    <3>3. QED
      BY <3>1, <3>2, LastStep
  <2>8. \A f \in NetworkLists :
          /\ new.confs[0][f] \subseteq Network
          /\ \A x : x \in new.confs[0][f] <=> InList(text, n, f, x)
    <3> SUFFICES ASSUME NEW f \in NetworkLists
                 PROVE  /\ new.confs[0][f] \subseteq Network
                        /\ \A x : x \in new.confs[0][f] <=> InList(text, n, f, x)
      OBVIOUS
    <3>1. /\ st.confs[0][f] \subseteq Network
          /\ \A x : x \in st.confs[0][f] <=> InList(text, n - 1, f, x)
      BY <1>2 DEF AsRead
    <3>2. 0 \in 0 .. Nested /\ f \in Fields(0)
      BY DEF Fields, MainFields, Nested
    <3>3. CASE d.context = 0 /\ d.field = f
      <4>1. /\ new.confs[0][f] =
                 IF d.value = <<Off>> THEN {} ELSE st.confs[0][f] \union Range(d.value)
            /\ d.value = <<Off>> \/ Names(d)
        BY <2>5, <3>3 DEF Effect
      <4>2. Range(d.value) \subseteq Network \union {Off, Invalid}
        BY <2>1, <3>3 DEF Directive
      <4>3. new.confs[0][f] \subseteq Network
        BY <3>1, <4>1, <4>2 DEF Names
      <4>4. ASSUME NEW x PROVE x \in new.confs[0][f] <=> InList(text, n, f, x)
        BY <3>1, <3>3, <4>1, ListStep
      <4>5. QED
        BY <4>3, <4>4
    <3>4. CASE ~ (d.context = 0 /\ d.field = f)
      <4>1. new.confs[0][f] = st.confs[0][f]
        BY <2>5, <3>2, <3>4 DEF Effect
      <4>2. ASSUME NEW x PROVE x \in new.confs[0][f] <=> InList(text, n, f, x)
        BY <3>1, <3>4, <4>1, ListStep
      <4>3. QED
        BY <3>1, <4>1, <4>2
    <3>5. QED
      BY <3>3, <3>4
  <2>9. QED
    BY <2>6, <2>7, <2>8
<1>3. QED
  BY <1>1, <1>2

LEMMA ReadWorks ==
  ASSUME NEW text, Sound(text), NEW cached \in Nat, page \in Nat
  PROVE  AsRead(text, Len(text), Read(text, cached))
<1>1. Len(text) \in Nat
  BY DEF Sound
<1>2. PICK g : Runs(text, cached, Len(text), g) /\ Read(text, cached) = g[Len(text)]
  BY <1>1, ReadRuns
<1> DEFINE T == {n \in 0 .. Len(text) : ~ AsRead(text, n, g[n])}
<1>3. T = {}
  <2>1. SUFFICES ASSUME T # {} PROVE FALSE
    OBVIOUS
  <2>2. T \subseteq Nat
    BY <1>1
  <2>3. PICK n \in T : \A m \in T : n <= m
    BY <2>1, <2>2, LeastNat
  <2>4. n # 0
    BY <1>2, <2>3, BeginAsRead DEF Runs
  <2>5. n \in 1 .. Len(text) /\ n - 1 \in 0 .. Len(text) /\ n - 1 \notin T
    BY <1>1, <2>3, <2>4
  <2>6. AsRead(text, n - 1, g[n - 1]) /\ g[n] = Step(g[n - 1], text[n])
    BY <1>2, <2>5 DEF Runs
  <2>7. AsRead(text, n, g[n])
    BY <2>5, <2>6, StepAsRead
  <2>8. QED
    BY <2>3, <2>7
<1>4. QED
  BY <1>1, <1>2, <1>3


-----------------------------------------------------------------------------
(* What a file says, in full.                                              *)

Written(text, c, f) ==
  IF Set(text, c, f) = {} THEN Unset ELSE text[Max(Set(text, c, f))].value

(* A setting that is written is what one of its directives says.           *)
LEMMA WrittenIn ==
  ASSUME NEW text, Sound(text), NEW c, NEW f, Set(text, c, f) # {}
  PROVE  \E i \in 1 .. Len(text) :
           /\ text[i].context = c /\ text[i].field = f
           /\ Written(text, c, f) = text[i].value
<1> DEFINE S == Set(text, c, f)
           T == {n \in 0 .. Len(text) : \A j \in S : j <= n}
<1>1. S \subseteq 1 .. Len(text) /\ Len(text) \in Nat /\ S # {}
  BY DEF Set, Sound
<1>2. \A i \in S : text[i].context = c /\ text[i].field = f
  BY DEF Set
<1>3. Written(text, c, f) = text[Max(S)].value
  BY DEF Written
<1> HIDE DEF S
<1>4. T # {} /\ T \subseteq Nat
  <2>1. Len(text) \in T
    BY <1>1
  <2>2. QED
    BY <1>1, <2>1
<1>5. PICK n \in T : \A x \in T : n <= x
  BY <1>4, LeastNat
<1>6. n \in 0 .. Len(text) /\ S \subseteq Int /\ \A j \in S : j <= n
  BY <1>1
<1>7. n \in S
  <2>1. SUFFICES ASSUME n \notin S PROVE FALSE
    OBVIOUS
  <2>2. \A j \in S : j <= n - 1 /\ j >= 1
    BY <1>1, <1>6, <2>1
  <2>3. PICK j \in S : TRUE
    BY <1>1
  <2>4. n - 1 \in 0 .. Len(text)
    BY <1>1, <1>6, <2>2, <2>3
  <2>5. n - 1 \in T
    BY <2>2, <2>4
  <2> HIDE DEF T
  <2>6. n <= n - 1
    BY <1>5, <2>5
  <2>7. QED
    BY <1>6, <2>6
<1>8. Max(S) = n
  <2> HIDE DEF T
  <2>1. QED
    BY <1>6, <1>7, MaxIs
<1>9. QED
  BY <1>1, <1>2, <1>3, <1>7, <1>8

AsWritten(text, confs) ==
  /\ \A i \in 1 .. Len(text) : text[i].field \in Plain => Accepts(text[i])
  /\ \A c \in 0 .. Nested : \A f \in Fields(c) \intersect Plain :
       confs[c][f] = Written(text, c, f)
  /\ \A f \in NetworkLists : confs[0][f] \subseteq Network /\ confs[0][f] = Listed(text, 0, f)

LEMMA ReadAsWritten ==
  ASSUME NEW text, Sound(text), NEW st, AsRead(text, Len(text), st), st.ok
  PROVE  AsWritten(text, st.confs)
<1>1. \A c, f : Upto(text, Len(text), c, f) = Set(text, c, f)
  BY DEF Upto, Set, Sound
<1>2. \A i \in 1 .. Len(text) : text[i].field \in Plain => Accepts(text[i])
  BY DEF AsRead
<1>3. \A c \in 0 .. Nested : \A f \in Fields(c) \intersect Plain :
        st.confs[c][f] = Written(text, c, f)
  BY <1>1 DEF AsRead, LastValue, Written
<1>4. \A f \in NetworkLists :
        st.confs[0][f] \subseteq Network /\ st.confs[0][f] = Listed(text, 0, f)
  <2> SUFFICES ASSUME NEW f \in NetworkLists
               PROVE  st.confs[0][f] \subseteq Network /\ st.confs[0][f] = Listed(text, 0, f)
    OBVIOUS
  <2>1. /\ st.confs[0][f] \subseteq Network
        /\ \A x : x \in st.confs[0][f] <=> InList(text, Len(text), f, x)
    BY DEF AsRead
  <2>2. ASSUME NEW x PROVE x \in Listed(text, 0, f) <=> InList(text, Len(text), f, x)
    <3> DEFINE offs == {i \in Set(text, 0, f) : text[i].value = <<Off>>}
               kept == {i \in Set(text, 0, f) : \A j \in offs : i > j}
    <3>1. x \in Listed(text, 0, f) <=> \E i \in kept : x \in Range(text[i].value)
      BY DEF Listed
    <3>2. \A i : i \in kept <=>
            /\ i \in Set(text, 0, f)
            /\ \A j \in Set(text, 0, f) : text[j].value = <<Off>> => i > j
      OBVIOUS
    <3> HIDE DEF kept
    <3>3. InList(text, Len(text), f, x) <=>
            \E i \in Set(text, 0, f) :
              /\ x \in Range(text[i].value)
              /\ \A j \in Set(text, 0, f) : text[j].value = <<Off>> => i > j
      BY <1>1 DEF InList
    <3>4. QED
      BY <3>1, <3>2, <3>3
  <2>3. QED
    BY <2>1, <2>2
<1>5. QED
  BY <1>2, <1>3, <1>4 DEF AsWritten

-----------------------------------------------------------------------------
(* Inheritance: a recursive function of the four contexts.                 *)

Inherits(confs, m) ==
  m[1] = confs[1] /\ \A c \in 2 .. 4 : m[c] = merge_from(confs[c], m[c - 1])

LEMMA MergedInherits ==
  ASSUME NEW confs
  PROVE  \E m : Inherits(confs, m) /\ \A c \in Server .. Nested : Merged(confs)[c] = m[c]
<1> DEFINE G(g) == g = [c \in Contexts |->
                          IF c = Http THEN confs[Http] ELSE merge_from(confs[c], g[c - 1])]
           m == CHOOSE g : G(g)
<1>1. \E g : G(g)
  <2> DEFINE m2 == merge_from(confs[2], confs[1])
             m3 == merge_from(confs[3], m2)
             m4 == merge_from(confs[4], m3)
             g == [c \in 1 .. 4 |-> IF c = 1 THEN confs[1] ELSE IF c = 2 THEN m2
                                    ELSE IF c = 3 THEN m3 ELSE m4]
             F(c) == IF c = 1 THEN confs[1] ELSE merge_from(confs[c], g[c - 1])
  <2>1. g[1] = confs[1] /\ g[2] = m2 /\ g[3] = m3 /\ g[4] = m4
    OBVIOUS
  <2>2. \A c \in 1 .. 4 : g[c] = F(c)
    <3> SUFFICES ASSUME NEW c \in 1 .. 4 PROVE g[c] = F(c)
      OBVIOUS
    <3>1. c = 1 \/ c = 2 \/ c = 3 \/ c = 4
      OBVIOUS
    <3> HIDE DEF g
    <3>2. QED
      BY <2>1, <3>1
  <2>3. g = [c \in 1 .. 4 |-> g[c]]
    OBVIOUS
  <2>4. g = [c \in 1 .. 4 |-> F(c)]
    <3> HIDE DEF g, F
    <3>1. QED
      BY <2>2, <2>3
  <2>5. G(g)
    BY <2>4 DEF Contexts, Http, Nested
  <2>6. QED
    BY <2>5
<1>2. G(m)
  BY <1>1
<1>3. Merged(confs) = [c \in Server .. Nested |-> m[c]]
  BY DEF Merged
<1> HIDE DEF m
<1>4. m[1] = confs[1]
  BY <1>2 DEF Contexts, Http, Nested
<1>5. \A c \in 2 .. 4 : m[c] = merge_from(confs[c], m[c - 1])
  <2> DEFINE F(c) == IF c = 1 THEN confs[1] ELSE merge_from(confs[c], m[c - 1])
  <2>1. m = [c \in 1 .. 4 |-> F(c)]
    BY <1>2 DEF Contexts, Http, Nested
  <2>2. \A c \in 2 .. 4 : F(c) = merge_from(confs[c], m[c - 1])
    OBVIOUS
  <2> HIDE DEF F
  <2>3. QED
    BY <2>1, <2>2
<1>6. QED
  BY <1>3, <1>4, <1>5 DEF Inherits

Scalar == LocFields \ (Templates \union Lists)

LEMMA InForceStep ==
  ASSUME NEW text, NEW c \in 1 .. 4, NEW f
  PROVE  InForce(text, c, f) =
           IF Set(text, c, f) # {} THEN text[Max(Set(text, c, f))].value
           ELSE IF c = 1 \/ f = "metrics_enabled" THEN Unset ELSE InForce(text, c - 1, f)
<1> DEFINE around(k) == IF f = "metrics_enabled" THEN {k} ELSE Http .. k
           setters(k) == {e \in around(k) : Set(text, e, f) # {}}
<1>1. \A k : InForce(text, k, f) =
        IF setters(k) = {} THEN Unset ELSE text[Max(Set(text, Max(setters(k)), f))].value
  BY DEF InForce
<1>2. c \in around(c) /\ around(c) \subseteq Int /\ \A e \in around(c) : e <= c
  BY DEF Http
<1>3. CASE Set(text, c, f) # {}
  <2>1. c \in setters(c) /\ setters(c) \subseteq Int /\ \A e \in setters(c) : e <= c
    BY <1>2, <1>3
  <2> HIDE DEF setters
  <2>2. Max(setters(c)) = c
    BY <2>1, MaxIs
  <2>3. QED
    BY <1>1, <1>3, <2>1, <2>2
<1>4. CASE Set(text, c, f) = {}
  <2>1. CASE c = 1 \/ f = "metrics_enabled"
    <3>1. around(c) = {c}
      BY <2>1 DEF Http
    <3>2. setters(c) = {}
      BY <1>4, <3>1
    <3>3. QED
      BY <1>1, <1>4, <2>1, <3>2
  <2>2. CASE ~ (c = 1 \/ f = "metrics_enabled")
    <3>1. around(c) = around(c - 1) \union {c}
      BY <2>2 DEF Http
    <3>2. setters(c) = setters(c - 1)
      BY <1>4, <3>1
    <3> HIDE DEF setters
    <3>3. QED
      BY <1>1, <1>4, <2>2, <3>2
  <2>3. QED
    BY <2>1, <2>2
<1>5. QED
  BY <1>3, <1>4

LEMMA MergedInForce ==
  ASSUME NEW text, Sound(text), NEW confs, AsWritten(text, confs),
         NEW c \in Server .. Nested, NEW f \in Scalar
  PROVE  Merged(confs)[c][f] = InForce(text, c, f)
<1>1. PICK m : Inherits(confs, m) /\ \A k \in Server .. Nested : Merged(confs)[k] = m[k]
  BY MergedInherits
<1>2. ASSUME NEW k \in 1 .. 4 PROVE confs[k][f] = Written(text, k, f)
  <2>1. k \in 0 .. Nested /\ f \in Fields(k) \intersect Plain
    BY DEF Nested, Fields, Scalar, Plain
  <2>2. QED
    BY <2>1 DEF AsWritten
<1>3. ASSUME NEW k \in 1 .. 4, Set(text, k, f) # {} PROVE Written(text, k, f) # Unset
  BY <1>3, WrittenIn DEF Sound, Directive
<1>4. m[1][f] = InForce(text, 1, f)
  <2>1. 1 \in 1 .. 4
    OBVIOUS
  <2>2. InForce(text, 1, f) = Written(text, 1, f)
    BY <2>1, InForceStep DEF Written
  <2>3. QED
    BY <1>1, <1>2, <2>1, <2>2 DEF Inherits
<1>5. ASSUME NEW k \in 2 .. 4, m[k - 1][f] = InForce(text, k - 1, f)
      PROVE  m[k][f] = InForce(text, k, f)
  <2>1. k \in 1 .. 4 /\ k # 1
    OBVIOUS
  <2>2. m[k][f] = IF confs[k][f] # Unset \/ f = "metrics_enabled" THEN confs[k][f] ELSE m[k - 1][f]
    BY <1>1 DEF Inherits, merge_from, Scalar
  <2>3. confs[k][f] = Written(text, k, f)
    BY <1>2, <2>1
  <2>4. InForce(text, k, f) =
          IF Set(text, k, f) # {} THEN text[Max(Set(text, k, f))].value
          ELSE IF k = 1 \/ f = "metrics_enabled" THEN Unset ELSE InForce(text, k - 1, f)
    BY <2>1, InForceStep
  <2>5. CASE Set(text, k, f) # {}
    <3>1. Written(text, k, f) # Unset
      BY <1>3, <2>1, <2>5
    <3>2. QED
      BY <2>2, <2>3, <2>4, <2>5, <3>1 DEF Written
  <2>6. CASE Set(text, k, f) = {}
    BY <1>5, <2>1, <2>2, <2>3, <2>4, <2>6 DEF Written
  <2>7. QED
    BY <2>5, <2>6
<1>6. m[2][f] = InForce(text, 2, f)
  <2>1. 2 \in 2 .. 4 /\ 2 - 1 = 1
    OBVIOUS
  <2>2. QED
    BY <1>4, <1>5, <2>1
<1>7. m[3][f] = InForce(text, 3, f)
  <2>1. 3 \in 2 .. 4 /\ 3 - 1 = 2
    OBVIOUS
  <2>2. QED
    BY <1>5, <1>6, <2>1
<1>8. m[4][f] = InForce(text, 4, f)
  <2>1. 4 \in 2 .. 4 /\ 4 - 1 = 3
    OBVIOUS
  <2>2. QED
    BY <1>5, <1>7, <2>1
<1>9. c = 2 \/ c = 3 \/ c = 4
  BY DEF Server, Nested
<1>10. QED
  BY <1>1, <1>6, <1>7, <1>8, <1>9


-----------------------------------------------------------------------------
(* What nginx accepts: a cycle has the settings of its file.               *)

Made(c) ==
  /\ c.file \in Texts
  /\ \E confs :
       /\ AsWritten(c.file, confs)
       /\ c.main = confs[0] /\ c.locs = Merged(confs)
       /\ \A k \in Server .. Nested : validate_enforcement(c.locs[k])

LEMMA TextSound ==
  ASSUME NEW text \in Texts
  PROVE  Sound(text)
BY TextsAssumption DEF Sound

LEMMA ReadKeeps ==
  ASSUME NEW text \in Texts, NEW cached \in Nat, page \in Nat
  PROVE  Read(text, cached).cache \in Nat
BY TextSound, ReadWorks DEF AsRead, Reading

LEMMA AcceptedMade ==
  ASSUME NEW text \in Texts, NEW cached \in Nat, page \in Nat, NEW n,
         Accepted(Read(text, cached))
  PROVE  Made(NewCycle(n, text, Read(text, cached)))
<1> DEFINE st == Read(text, cached)
           c == NewCycle(n, text, st)
<1>1. Sound(text)
  BY TextSound
<1>2. AsRead(text, Len(text), st)
  BY <1>1, ReadWorks
<1>3. st.ok /\ \A k \in Server .. Nested : validate_enforcement(Merged(st.confs)[k])
  BY DEF Accepted
<1> HIDE DEF st
<1>4. AsWritten(text, st.confs)
  BY <1>1, <1>2, <1>3, ReadAsWritten
<1>5. c.file = text /\ c.main = st.confs[0] /\ c.locs = Merged(st.confs)
  BY DEF NewCycle
<1> HIDE DEF c
<1>6. Made(c)
  BY <1>3, <1>4, <1>5 DEF Made
<1>7. QED
  BY <1>6 DEF c, st

LEMMA MadeMain ==
  ASSUME NEW c, Made(c)
  PROVE  /\ Sound(c.file)
         /\ \A f \in MainFields \ NetworkLists : c.main[f] = Written(c.file, 0, f)
         /\ \A f \in NetworkLists :
              c.main[f] \subseteq Network /\ c.main[f] = Listed(c.file, 0, f)
         /\ \A i \in 1 .. Len(c.file) : c.file[i].field \in Plain => Accepts(c.file[i])
<1>1. Sound(c.file)
  BY TextSound DEF Made
<1>2. PICK confs : AsWritten(c.file, confs) /\ c.main = confs[0]
  BY DEF Made
<1>3. ASSUME NEW f \in MainFields \ NetworkLists PROVE f \in Fields(0) \intersect Plain /\ 0 \in 0 .. Nested
  BY DEF Fields, Plain, Lists, Templates, Nested, MainFields, LapiFields, AppSecMain
<1>4. \A f \in MainFields \ NetworkLists : c.main[f] = Written(c.file, 0, f)
  BY <1>2, <1>3 DEF AsWritten
<1>5. QED
  BY <1>1, <1>2, <1>4 DEF AsWritten

LEMMA MadeLocs ==
  ASSUME NEW c, Made(c), NEW k \in Server .. Nested
  PROVE  /\ \A f \in Scalar : c.locs[k][f] = InForce(c.file, k, f)
         /\ validate_enforcement(c.locs[k])
<1>1. Sound(c.file)
  BY TextSound DEF Made
<1>2. PICK confs :
        AsWritten(c.file, confs) /\ c.locs = Merged(confs) /\ validate_enforcement(c.locs[k])
  BY DEF Made
<1>3. ASSUME NEW f \in Scalar PROVE c.locs[k][f] = InForce(c.file, k, f)
  BY <1>1, <1>2, MergedInForce
<1>4. QED
  BY <1>2, <1>3

(* A setting is unset or one that its handler has accepted.                *)
OneOf(text, f, v) ==
  v = Unset \/ \E i \in 1 .. Len(text) : text[i].field = f /\ text[i].value = v

LEMMA InForceOneOf ==
  ASSUME NEW text, Sound(text), NEW k \in Server .. Nested, NEW f
  PROVE  OneOf(text, f, InForce(text, k, f))
<1>1. ASSUME NEW j \in 1 .. 4
      PROVE  OneOf(text, f, InForce(text, j, f)) \/ (j # 1 /\ InForce(text, j, f) = InForce(text, j - 1, f))
  <2>1. InForce(text, j, f) =
          IF Set(text, j, f) # {} THEN text[Max(Set(text, j, f))].value
          ELSE IF j = 1 \/ f = "metrics_enabled" THEN Unset ELSE InForce(text, j - 1, f)
    BY InForceStep
  <2>2. CASE Set(text, j, f) # {}
    <3>1. InForce(text, j, f) = Written(text, j, f)
      BY <2>1, <2>2 DEF Written
    <3>2. QED
      BY <2>2, <3>1, WrittenIn DEF OneOf
  <2>3. CASE Set(text, j, f) = {}
    BY <2>1, <2>3 DEF OneOf
  <2>4. QED
    BY <2>2, <2>3
<1>2. OneOf(text, f, InForce(text, 1, f))
  BY <1>1
<1>3. OneOf(text, f, InForce(text, 2, f))
  <2>1. 2 \in 1 .. 4 /\ 2 - 1 = 1
    OBVIOUS
  <2>2. QED
    BY <1>1, <1>2, <2>1
<1>4. OneOf(text, f, InForce(text, 3, f))
  <2>1. 3 \in 1 .. 4 /\ 3 - 1 = 2
    OBVIOUS
  <2>2. QED
    BY <1>1, <1>3, <2>1
<1>5. OneOf(text, f, InForce(text, 4, f))
  <2>1. 4 \in 1 .. 4 /\ 4 - 1 = 3
    OBVIOUS
  <2>2. QED
    BY <1>1, <1>4, <2>1
<1>6. QED
  BY <1>3, <1>4, <1>5 DEF Server, Nested

LEMMA WrittenOneOf ==
  ASSUME NEW text, Sound(text), NEW c, NEW f
  PROVE  /\ OneOf(text, f, Written(text, c, f))
         /\ Written(text, c, f) = Unset <=> Set(text, c, f) = {}
<1>1. CASE Set(text, c, f) = {}
  BY <1>1 DEF Written, OneOf
<1>2. CASE Set(text, c, f) # {}
  BY <1>2, WrittenIn DEF OneOf, Sound, Directive
<1>3. QED
  BY <1>1, <1>2

NumberNames ==
  {"max_retries", "retry_interval_secs", "poll_interval_secs", "lapi_timeout_secs",
   "usage_metrics_interval_secs", "appsec_timeout_ms", "appsec_max_body_size",
   "ban_redirect_code", "ban_status", "captcha_expiry_secs"}
KeywordNames ==
  {"fallback_remediation", "ban_action", "unenforceable_action", "captcha_provider",
   "captcha_cookie_secure", "appsec_failure_action"}

LEMMA NumberDomain == DOMAIN Numbers = NumberNames
BY DEF Numbers, NumberNames

LEMMA KeywordDomain == DOMAIN Keywords = KeywordNames
BY DEF Keywords, KeywordNames

InRange(v, f) == v \in Numbers[f]

LEMMA Ranges ==
  ASSUME NEW v
  PROVE  /\ InRange(v, "poll_interval_secs") => v \in 1 .. 3600
         /\ InRange(v, "retry_interval_secs") => v \in 1 .. 3600
         /\ InRange(v, "max_retries") => v \in 1 .. 100
         /\ InRange(v, "captcha_expiry_secs") => v \in 1 .. Month
BY DEF InRange, Numbers

LEMMA WellFormedIs ==
  ASSUME NEW d, WellFormed(d)
  PROVE  /\ d.field \in NumberNames => InRange(d.value, d.field)
         /\ d.field \notin NumberNames \union KeywordNames => d.value # NoText
<1>1. NumberNames \intersect KeywordNames = {}
  BY DEF NumberNames, KeywordNames
<1>2. CASE d.field \in NumberNames
  BY <1>1, <1>2, NumberDomain, KeywordDomain DEF WellFormed, InRange
<1>3. CASE d.field \notin NumberNames \union KeywordNames
  BY <1>3, NumberDomain, KeywordDomain DEF WellFormed
<1>4. QED
  BY <1>2, <1>3

LEMMA OneOfAccepted ==
  ASSUME NEW c, Made(c), NEW f \in Plain, NEW v, OneOf(c.file, f, v), v # Unset
  PROVE  /\ f \in Flags => v \in {TRUE, FALSE}
         /\ f \notin Flags /\ f \in NumberNames => InRange(v, f)
         /\ f \in {"lapi_url", "api_key"} => v # NoText
<1>1. PICK i \in 1 .. Len(c.file) : c.file[i].field = f /\ c.file[i].value = v
  BY DEF OneOf
<1>2. Accepts(c.file[i])
  BY <1>1, MadeMain
<1>3. f \in Flags => v \in {TRUE, FALSE}
  BY <1>1, <1>2 DEF Accepts
<1>4. f \notin Flags => WellFormed(c.file[i])
  BY <1>1, <1>2 DEF Accepts
<1>5. f \notin Flags /\ f \in NumberNames => InRange(v, f)
  BY <1>1, <1>4, WellFormedIs
<1>6. f \in {"lapi_url", "api_key"} => v # NoText
  BY <1>1, <1>4, WellFormedIs DEF NumberNames, KeywordNames, Flags
<1>7. QED
  BY <1>3, <1>5, <1>6

(* The conditions of TypeOK on what a worker serves with.                  *)
LapiOK(global) ==
  \A lapi \in global :
    /\ {lapi.poll_interval_secs, lapi.retry_interval_secs} \subseteq 1 .. 3600
    /\ lapi.max_retries \in 1 .. 100
    /\ {lapi.url, lapi.api_key} \intersect {NoText, Unset} = {}

LEMMA MadeLapi ==
  ASSUME NEW c, Made(c)
  PROVE  LapiOK(StreamClientConfig(c.main))
<1> DEFINE main == c.main
           V(f) == main[f]
<1>1. ASSUME NEW f \in MainFields \ NetworkLists PROVE OneOf(c.file, f, V(f))
  BY MadeMain, WrittenOneOf
<1> HIDE DEF V
<1>2. \A f \in LapiFields : V(f) # Unset =>
        /\ f \in NumberNames => InRange(V(f), f)
        /\ f \in {"lapi_url", "api_key"} => V(f) # NoText
  <2> SUFFICES ASSUME NEW f \in LapiFields, V(f) # Unset
               PROVE  /\ f \in NumberNames => InRange(V(f), f)
                      /\ f \in {"lapi_url", "api_key"} => V(f) # NoText
    OBVIOUS
  <2>1. f \in MainFields \ NetworkLists /\ f \in Plain /\ f \notin Flags
    BY DEF MainFields, NetworkLists, LapiFields, Plain, Lists, Templates, Flags
  <2>2. QED
    BY <1>1, <2>1, OneOfAccepted
<1>3. OrElse(V("poll_interval_secs"), 10) \in 1 .. 3600
  <2>1. "poll_interval_secs" \in LapiFields /\ "poll_interval_secs" \in NumberNames
    BY DEF LapiFields, NumberNames
  <2>2. V("poll_interval_secs") # Unset => InRange(V("poll_interval_secs"), "poll_interval_secs")
    BY <1>2, <2>1
  <2>3. InRange(V("poll_interval_secs"), "poll_interval_secs") => V("poll_interval_secs") \in 1 .. 3600
    BY Ranges
  <2>4. QED
    BY <2>2, <2>3 DEF OrElse
<1>4. OrElse(V("retry_interval_secs"), 5) \in 1 .. 3600
  <2>1. "retry_interval_secs" \in LapiFields /\ "retry_interval_secs" \in NumberNames
    BY DEF LapiFields, NumberNames
  <2>2. V("retry_interval_secs") # Unset => InRange(V("retry_interval_secs"), "retry_interval_secs")
    BY <1>2, <2>1
  <2>3. InRange(V("retry_interval_secs"), "retry_interval_secs") => V("retry_interval_secs") \in 1 .. 3600
    BY Ranges
  <2>4. QED
    BY <2>2, <2>3 DEF OrElse
<1>5. OrElse(V("max_retries"), 3) \in 1 .. 100
  <2>1. "max_retries" \in LapiFields /\ "max_retries" \in NumberNames
    BY DEF LapiFields, NumberNames
  <2>2. V("max_retries") # Unset => InRange(V("max_retries"), "max_retries")
    BY <1>2, <2>1
  <2>3. InRange(V("max_retries"), "max_retries") => V("max_retries") \in 1 .. 100
    BY Ranges
  <2>4. QED
    BY <2>2, <2>3 DEF OrElse
<1>6. \A f \in {"lapi_url", "api_key"} : V(f) # Unset => V(f) # NoText
  BY <1>2 DEF LapiFields
<1> HIDE DEF main
<1>7. ASSUME NEW lapi \in StreamClientConfig(main)
      PROVE  /\ V("lapi_url") # Unset /\ V("api_key") # Unset
             /\ lapi.url = V("lapi_url") /\ lapi.api_key = V("api_key")
             /\ lapi.poll_interval_secs = OrElse(V("poll_interval_secs"), 10)
             /\ lapi.retry_interval_secs = OrElse(V("retry_interval_secs"), 5)
             /\ lapi.max_retries = OrElse(V("max_retries"), 3)
  <2>1. StreamClientConfig(main) # None
    BY DEF None
  <2>2. main.lapi_url # Unset /\ main.api_key # Unset
    BY <2>1 DEF StreamClientConfig
  <2> HIDE DEF OrElse
  <2>3. QED
    BY <2>2 DEF StreamClientConfig, V
<1>8. LapiOK(StreamClientConfig(main))
  <2> SUFFICES ASSUME NEW lapi \in StreamClientConfig(main)
               PROVE  /\ {lapi.poll_interval_secs, lapi.retry_interval_secs} \subseteq 1 .. 3600
                      /\ lapi.max_retries \in 1 .. 100
                      /\ {lapi.url, lapi.api_key} \intersect {NoText, Unset} = {}
    BY DEF LapiOK
  <2>1. /\ V("lapi_url") # Unset /\ V("api_key") # Unset
        /\ lapi.url = V("lapi_url") /\ lapi.api_key = V("api_key")
        /\ lapi.poll_interval_secs = OrElse(V("poll_interval_secs"), 10)
        /\ lapi.retry_interval_secs = OrElse(V("retry_interval_secs"), 5)
        /\ lapi.max_retries = OrElse(V("max_retries"), 3)
    BY <1>7
  <2>2. V("lapi_url") # NoText /\ V("api_key") # NoText
    BY <1>6, <2>1
  <2>3. QED
    BY <1>3, <1>4, <1>5, <2>1, <2>2
<1>9. QED
  BY <1>8 DEF main

CaptchaOK(conf) ==
  \A captcha \in captcha_config(conf) :
    /\ captcha.expiry_secs \in 1 .. Month
    /\ captcha.bind_ip \in BOOLEAN /\ captcha.signing_key # "zeros"

LEMMA MadeCaptcha ==
  ASSUME NEW c, Made(c), NEW k \in Server .. Nested
  PROVE  CaptchaOK(c.locs[k])
<1> DEFINE conf == c.locs[k]
           V(f) == conf[f]
           expiry == OrElse(V("captcha_expiry_secs"), 3600)
           bind == OrElse(V("captcha_bind_ip"), TRUE)
<1>1. ASSUME NEW f \in {"captcha_expiry_secs", "captcha_bind_ip"}, V(f) # Unset
      PROVE  /\ f \in Flags => V(f) \in {TRUE, FALSE}
             /\ f \notin Flags /\ f \in NumberNames => InRange(V(f), f)
  <2>1. f \in Scalar /\ f \in Plain
    BY DEF Scalar, Plain, LocFields, Flags, CaptchaFields, Templates, Lists, NetworkLists
  <2>2. OneOf(c.file, f, V(f))
    BY <2>1, MadeLocs, MadeMain, InForceOneOf
  <2> HIDE DEF V
  <2>3. QED
    BY <1>1, <2>1, <2>2, OneOfAccepted
<1> HIDE DEF V
<1>2. V("captcha_expiry_secs") # Unset => V("captcha_expiry_secs") \in 1 .. Month
  <2>1. "captcha_expiry_secs" \notin Flags /\ "captcha_expiry_secs" \in NumberNames
    BY DEF Flags, NumberNames
  <2>2. QED
    BY <1>1, <2>1, Ranges
<1>3. V("captcha_bind_ip") # Unset => V("captcha_bind_ip") \in BOOLEAN
  <2>1. "captcha_bind_ip" \in Flags
    BY DEF Flags
  <2>2. V("captcha_bind_ip") # Unset => V("captcha_bind_ip") \in {TRUE, FALSE}
    BY <1>1, <2>1
  <2>3. QED
    BY <2>2
<1> HIDE DEF conf
<1>4. expiry \in 1 .. Month
  <2>1. 3600 \in 1 .. Month
    <3>1. Month \in Nat /\ 3600 <= Month
      BY DEF Month
    <3>2. QED
      BY <3>1
  <2>2. QED
    BY <1>2, <2>1 DEF OrElse, expiry, bind
<1>5. bind \in BOOLEAN
  BY <1>3 DEF OrElse, expiry, bind
<1> HIDE DEF expiry, bind
<1>6. ASSUME NEW captcha \in captcha_config(conf)
      PROVE  /\ captcha.expiry_secs = expiry
             /\ captcha.bind_ip = bind
             /\ captcha.signing_key # "zeros"
  <2> DEFINE none == (\E f \in CaptchaKeys : conf[f] = Unset) \/ conf.captcha_signing_key = "zeros"
             full == [signing_key |-> conf.captcha_signing_key,
                      cookie_name |-> OrElse(conf.captcha_cookie_name, "crowdsec_captcha"),
                      expiry_secs |-> OrElse(conf.captcha_expiry_secs, 3600),
                      fail_open |-> OrElse(conf.captcha_fail_open, TRUE),
                      bind_ip |-> OrElse(conf.captcha_bind_ip, TRUE)]
  <2> HIDE DEF OrElse
  <2>1. captcha_config(conf) = IF none THEN None ELSE {full}
    BY DEF captcha_config
  <2>2. /\ full.expiry_secs = expiry
        /\ full.bind_ip = bind
        /\ full.signing_key = conf.captcha_signing_key
    BY DEF V, expiry, bind
  <2>3. ~ none => conf.captcha_signing_key # "zeros"
    OBVIOUS
  <2> HIDE DEF none, full
  <2>4. ~ none /\ captcha = full
    BY <2>1 DEF None
  <2>5. QED
    BY <2>2, <2>3, <2>4, Zenon
<1>7. CaptchaOK(conf)
  <2> SUFFICES ASSUME NEW captcha \in captcha_config(conf)
               PROVE  /\ captcha.expiry_secs \in 1 .. Month
                      /\ captcha.bind_ip \in BOOLEAN /\ captcha.signing_key # "zeros"
    BY DEF CaptchaOK
  <2>1. /\ captcha.expiry_secs = expiry
        /\ captcha.bind_ip = bind
        /\ captcha.signing_key # "zeros"
    BY <1>6, Zenon
  <2> HIDE DEF OrElse
  <2>2. captcha.expiry_secs \in 1 .. Month
    BY <1>4, <2>1, Zenon
  <2>3. captcha.bind_ip \in BOOLEAN
    BY <1>5, <2>1, Zenon
  <2>4. QED
    BY <2>1, <2>2, <2>3, Zenon
<1>8. QED
  BY <1>7 DEF conf


LEMMA MadeLists ==
  ASSUME NEW c, Made(c)
  PROVE  /\ c.main.trusted_proxies \subseteq Network /\ c.main.bypass_cidrs \subseteq Network
         /\ c.main.trusted_proxies = Listed(c.file, 0, "trusted_proxies")
         /\ c.main.bypass_cidrs = Listed(c.file, 0, "bypass_cidrs")
<1> DEFINE V(f) == c.main[f]
<1>1. \A f \in NetworkLists : V(f) \subseteq Network /\ V(f) = Listed(c.file, 0, f)
  BY MadeMain
<1> HIDE DEF V
<1>2. "trusted_proxies" \in NetworkLists /\ "bypass_cidrs" \in NetworkLists
  BY DEF NetworkLists
<1>3. /\ V("trusted_proxies") \subseteq Network
      /\ V("trusted_proxies") = Listed(c.file, 0, "trusted_proxies")
  BY <1>1, <1>2
<1>4. /\ V("bypass_cidrs") \subseteq Network
      /\ V("bypass_cidrs") = Listed(c.file, 0, "bypass_cidrs")
  BY <1>1, <1>2
<1>5. QED
  BY <1>3, <1>4 DEF V

-----------------------------------------------------------------------------
(* The inductive invariant: the cycle that runs, and that of every worker, *)
(* is one that nginx has accepted; the statics are those of an accepted    *)
(* cycle, and of the cycle that runs unless a reload has failed late.      *)

Of(c) ==
  [global |-> StreamClientConfig(c.main), appsec |-> AppSecConfig(c.main), zone |-> c.number]

Numbered(c) == Made(c) /\ c.number \in 0 .. MaxReloads
Origin(s) == \E c : Numbered(c) /\ s = Of(c)

WorkerOK(w) ==
  /\ Numbered(w.cycle) /\ Origin(w.statics) /\ w.late \in BOOLEAN
  /\ ~ w.late => w.statics = Of(w.cycle)

Bounds ==
  /\ page \in Nat /\ cache \in Nat /\ late \in BOOLEAN
  /\ reloads \in 0 .. MaxReloads /\ edits \in 0 .. MaxEdits
MasterOK == Numbered(cycle) /\ Origin(statics) /\ (~ late => statics = Of(cycle))
WorkersOK == \A w \in workers : WorkerOK(w)
Current == \E w \in workers : w.cycle = cycle

IInv == Bounds /\ MasterOK /\ WorkersOK /\ Current

LEMMA NewCycleOf ==
  ASSUME NEW text \in Texts, NEW cached \in Nat, page \in Nat, NEW n \in 0 .. MaxReloads,
         Accepted(Read(text, cached)), NEW old
  PROVE  LET c == NewCycle(n, text, Read(text, cached))
         IN  Numbered(c) /\ postconfiguration(old, c.main, n) = Of(c) /\ Origin(Of(c))
<1> DEFINE c == NewCycle(n, text, Read(text, cached))
<1>1. Made(c)
  BY AcceptedMade
<1>2. c.number = n
  BY DEF NewCycle
<1> HIDE DEF c
<1>3. Numbered(c) /\ postconfiguration(old, c.main, n) = Of(c)
  BY <1>1, <1>2 DEF Numbered, postconfiguration, Of
<1>4. Origin(Of(c))
  BY <1>3 DEF Origin
<1>5. QED
  BY <1>3, <1>4 DEF c

LEMMA NewWorker ==
  ASSUME NEW c, NEW s, NEW l \in BOOLEAN, Numbered(c), Origin(s), ~ l => s = Of(c)
  PROVE  WorkerOK(Worker(c, s, l)) /\ Worker(c, s, l).cycle = c
<1> DEFINE w == Worker(c, s, l)
<1>1. w.cycle = c /\ w.statics = s /\ w.late = l
  BY DEF Worker
<1> HIDE DEF w
<1>2. w.late \in BOOLEAN
  BY <1>1, Zenon
<1>3. ~ w.late => w.statics = Of(w.cycle)
  BY <1>1, Zenon
<1>4. WorkerOK(w)
  BY <1>1, <1>2, <1>3, Zenon DEF WorkerOK
<1>5. QED
  BY <1>1, <1>4 DEF w

LEMMA InvInit == Init => IInv
<1> SUFFICES ASSUME Init PROVE IInv
  OBVIOUS
<1>1. page = 1 /\ late = FALSE /\ reloads = 0 /\ edits = 0
  BY DEF Init
<1>2. MaxReloads \in Nat /\ MaxEdits \in Nat
  BY ConfigBoundAssumption
<1>3. PICK text \in Texts :
        /\ Accepted(Read(text, 0))
        /\ cycle = NewCycle(0, text, Read(text, 0)) /\ cache = Read(text, 0).cache
  BY DEF Init
<1>4. 0 \in 0 .. MaxReloads /\ 0 \in Nat /\ page \in Nat
  BY <1>1, <1>2
<1>5. cache \in Nat
  BY <1>3, <1>4, ReadKeeps
<1> DEFINE old == [global |-> None, appsec |-> None, zone |-> None]
<1>6. statics = postconfiguration(old, cycle.main, 0)
  BY DEF Init
<1> HIDE DEF old
<1>7. Numbered(cycle) /\ statics = Of(cycle) /\ Origin(statics)
  BY <1>3, <1>4, <1>6, NewCycleOf
<1>8. workers = {Worker(cycle, statics, FALSE)}
  BY DEF Init
<1>9. WorkerOK(Worker(cycle, statics, FALSE)) /\ Worker(cycle, statics, FALSE).cycle = cycle
  BY <1>7, NewWorker
<1>10. Bounds
  <2>1. late \in BOOLEAN
    BY <1>1, Zenon
  <2>2. page \in Nat /\ reloads \in 0 .. MaxReloads /\ edits \in 0 .. MaxEdits
    BY <1>1, <1>2
  <2>3. QED
    BY <1>5, <2>1, <2>2, Zenon DEF Bounds
<1>11. QED
  BY <1>1, <1>7, <1>8, <1>9, <1>10 DEF IInv, MasterOK, WorkersOK, Current

LEMMA InvNext == IInv /\ [Next]_vars => IInv'
<1> SUFFICES ASSUME IInv, [Next]_vars PROVE IInv'
  OBVIOUS
<1> USE DEF IInv
<1>1. ASSUME NEW text \in Texts, ReloadRefused(text) PROVE IInv'
  <2>1. /\ reloads < MaxReloads /\ reloads' = reloads + 1
        /\ cache' = Read(text, cache).cache
        /\ UNCHANGED <<page, cycle, statics, late, workers, edits>>
    BY <1>1 DEF ReloadRefused, Reload
  <2>2. Bounds'
    BY <2>1, ReadKeeps, ConfigBoundAssumption DEF Bounds
  <2>3. MasterOK' /\ WorkersOK' /\ Current'
    BY <2>1 DEF MasterOK, WorkersOK, Current
  <2>4. QED
    BY <2>2, <2>3
<1>2. ASSUME NEW text \in Texts, ReloadFailsLate(text) PROVE IInv'
  <2> DEFINE c == NewCycle(reloads', text, Read(text, cache))
  <2>1. /\ reloads < MaxReloads /\ reloads' = reloads + 1
        /\ Accepted(Read(text, cache)) /\ cache' = Read(text, cache).cache
        /\ statics' = postconfiguration(statics, c.main, reloads')
        /\ late' = TRUE /\ UNCHANGED <<page, cycle, workers, edits>>
    BY <1>2 DEF ReloadFailsLate, Reload
  <2>2. reloads' \in 0 .. MaxReloads /\ cache \in Nat /\ page \in Nat
    BY <2>1, ConfigBoundAssumption DEF Bounds
  <2>3. Bounds'
    BY <2>1, <2>2, ReadKeeps DEF Bounds
  <2>4. Origin(statics')
    <3>1. postconfiguration(statics, c.main, reloads') = Of(c) /\ Origin(Of(c))
      BY <2>1, <2>2, NewCycleOf
    <3> HIDE DEF c
    <3>2. QED
      BY <2>1, <3>1
  <2>5. MasterOK' /\ WorkersOK' /\ Current'
    BY <2>1, <2>4 DEF MasterOK, WorkersOK, Current
  <2>6. QED
    BY <2>3, <2>5
<1>3. ASSUME NEW text \in Texts, ReloadCommits(text) PROVE IInv'
  <2> DEFINE c == NewCycle(reloads', text, Read(text, cache))
  <2>1. /\ reloads < MaxReloads /\ reloads' = reloads + 1
        /\ Accepted(Read(text, cache)) /\ cache' = Read(text, cache).cache
        /\ cycle' = c /\ statics' = postconfiguration(statics, cycle'.main, reloads')
        /\ late' = FALSE /\ workers' = workers \union {Worker(cycle', statics', FALSE)}
        /\ UNCHANGED <<page, edits>>
    BY <1>3 DEF ReloadCommits, Reload
  <2>2. reloads' \in 0 .. MaxReloads /\ cache \in Nat /\ page \in Nat
    BY <2>1, ConfigBoundAssumption DEF Bounds
  <2>3. Bounds'
    BY <2>1, <2>2, ReadKeeps DEF Bounds
  <2>4. Numbered(cycle') /\ statics' = Of(cycle') /\ Origin(statics')
    <3>1. Numbered(c) /\ postconfiguration(statics, c.main, reloads') = Of(c) /\ Origin(Of(c))
      BY <2>1, <2>2, NewCycleOf
    <3> HIDE DEF c
    <3>2. QED
      BY <2>1, <3>1
  <2>5. /\ WorkerOK(Worker(cycle', statics', FALSE))
        /\ Worker(cycle', statics', FALSE).cycle = cycle'
    BY <2>4, NewWorker
  <2>6. MasterOK' /\ WorkersOK' /\ Current'
    <3> HIDE DEF c
    <3>1. QED
      BY <2>1, <2>4, <2>5 DEF MasterOK, WorkersOK, Current
  <2>7. QED
    BY <2>3, <2>6
<1>4. ASSUME Respawn PROVE IInv'
  <2>1. /\ workers' = workers \union {Worker(cycle, statics, late)}
        /\ UNCHANGED <<page, cache, cycle, statics, late, reloads, edits>>
    BY <1>4 DEF Respawn
  <2>2. WorkerOK(Worker(cycle, statics, late))
    BY NewWorker DEF MasterOK, Bounds
  <2>3. Bounds' /\ MasterOK' /\ WorkersOK' /\ Current'
    BY <2>1, <2>2 DEF Bounds, MasterOK, WorkersOK, Current
  <2>4. QED
    BY <2>3
<1>5. ASSUME NEW w \in workers, Retire(w) PROVE IInv'
  <2>1. /\ w.cycle.number # cycle.number /\ workers' = workers \ {w}
        /\ UNCHANGED <<page, cache, cycle, statics, late, reloads, edits>>
    BY <1>5 DEF Retire
  <2>2. Bounds' /\ MasterOK' /\ WorkersOK' /\ Current'
    BY <2>1 DEF Bounds, MasterOK, WorkersOK, Current
  <2>3. QED
    BY <2>2
<1>6. ASSUME EditPage PROVE IInv'
  <2>1. /\ edits < MaxEdits /\ edits' = edits + 1 /\ page' \in {0, page + 1}
        /\ UNCHANGED <<cache, cycle, statics, late, workers, reloads>>
    BY <1>6 DEF EditPage
  <2>2. Bounds'
    BY <2>1, ConfigBoundAssumption DEF Bounds
  <2>3. MasterOK' /\ WorkersOK' /\ Current'
    BY <2>1 DEF MasterOK, WorkersOK, Current
  <2>4. QED
    BY <2>2, <2>3
<1>7. CASE UNCHANGED vars
  BY <1>7 DEF vars, Bounds, MasterOK, WorkersOK, Current
<1>8. QED
  BY <1>1, <1>2, <1>3, <1>4, <1>5, <1>6, <1>7 DEF Next

(* The inductive invariant holds in every reachable state.                 *)
THEOREM Invariance == Spec => []IInv
BY InvInit, InvNext, PTL DEF Spec


-----------------------------------------------------------------------------
(* A worker polls with a URL, a key and pauses in the ranges of their      *)
(* directives, trusts and bypasses networks only, and gives captcha        *)
(* sessions that end, whatever files are loaded: the handlers of config.rs *)
(* refuse anything else, and the statics come from them.                   *)
THEOREM TypeCorrect == Spec => []TypeOK
<1>1. IInv => TypeOK
  <2> SUFFICES ASSUME IInv PROVE TypeOK
    OBVIOUS
  <2>1. Bounds /\ Numbered(cycle)
    BY DEF IInv, MasterOK
  <2>2. cycle.number \in 0 .. MaxReloads /\ cycle.file \in Texts
    BY <2>1 DEF Numbered, Made
  <2>3. Worker(cycle, statics, late).cycle \in {w.cycle : w \in workers}
    <3>1. Worker(cycle, statics, late).cycle = cycle
      BY DEF Worker
    <3>2. QED
      BY <3>1 DEF IInv, Current
  <2>4. ASSUME NEW w \in workers
        PROVE  /\ w.late \in BOOLEAN /\ w.statics.zone \in 0 .. MaxReloads
               /\ LapiOK(w.statics.global)
               /\ w.cycle.main.trusted_proxies \union w.cycle.main.bypass_cidrs \subseteq Network
               /\ \A c \in Server .. Nested : CaptchaOK(w.cycle.locs[c])
    <3>1. Made(w.cycle) /\ Origin(w.statics) /\ w.late \in BOOLEAN
      BY DEF IInv, WorkersOK, WorkerOK, Numbered
    <3>2. PICK c : Numbered(c) /\ w.statics = Of(c)
      BY <3>1 DEF Origin
    <3>3. w.statics.zone \in 0 .. MaxReloads
      BY <3>2 DEF Numbered, Of
    <3>4. w.statics.global = StreamClientConfig(c.main)
      BY <3>2 DEF Of
    <3>5. LapiOK(w.statics.global)
      BY <3>2, <3>4, MadeLapi DEF Numbered
    <3>6. w.cycle.main.trusted_proxies \union w.cycle.main.bypass_cidrs \subseteq Network
      BY <3>1, MadeLists
    <3>7. \A k \in Server .. Nested : CaptchaOK(w.cycle.locs[k])
      BY <3>1, MadeCaptcha
    <3>8. QED
      BY <3>1, <3>3, <3>5, <3>6, <3>7
  <2>5. QED
    BY <2>1, <2>2, <2>3, <2>4, Zenon DEF TypeOK, Bounds, LapiOK, CaptchaOK
<1>2. QED
  BY <1>1, Invariance, PTL

LEMMA CaptchaConfigured ==
  ASSUME NEW conf, \A f \in CaptchaKeys : conf[f] # Unset, conf.captcha_signing_key # "zeros"
  PROVE  captcha_config(conf) # None
<1> DEFINE full == [signing_key |-> conf.captcha_signing_key,
                    cookie_name |-> OrElse(conf.captcha_cookie_name, "crowdsec_captcha"),
                    expiry_secs |-> OrElse(conf.captcha_expiry_secs, 3600),
                    fail_open |-> OrElse(conf.captcha_fail_open, TRUE),
                    bind_ip |-> OrElse(conf.captcha_bind_ip, TRUE)]
           none == (\E f \in CaptchaKeys : conf[f] = Unset) \/ conf.captcha_signing_key = "zeros"
<1>1. captcha_config(conf) = IF none THEN None ELSE {full}
  BY DEF captcha_config
<1>2. ~ none
  OBVIOUS
<1> HIDE DEF full, none
<1>3. QED
  BY <1>1, <1>2 DEF None

LEMMA LapiConfigured ==
  ASSUME NEW main
  PROVE  StreamClientConfig(main) # None <=> main.lapi_url # Unset /\ main.api_key # Unset
<1> DEFINE full == [url |-> main.lapi_url, api_key |-> main.api_key,
                    poll_interval_secs |-> OrElse(main.poll_interval_secs, 10),
                    timeout_secs |-> OrElse(main.lapi_timeout_secs, 30),
                    max_retries |-> OrElse(main.max_retries, 3),
                    retry_interval_secs |-> OrElse(main.retry_interval_secs, 5),
                    usage_metrics_interval_secs |-> OrElse(main.usage_metrics_interval_secs, 900),
                    fallback_remediation |-> OrElse(main.fallback_remediation, "allow")]
<1>1. StreamClientConfig(main) =
        IF main.lapi_url = Unset \/ main.api_key = Unset THEN None ELSE {full}
  BY DEF StreamClientConfig
<1> HIDE DEF full
<1>2. QED
  BY <1>1 DEF None

(* In every worker a setting of a location is the last one of the nearest  *)
(* context that sets it: the handlers store what they accept, merge_from   *)
(* takes what a context does not set from the one around it, and a worker  *)
(* keeps the settings of the cycle it was forked in.                       *)
THEOREM LocationsAsWritten == Spec => []SettingsAsWritten
<1>1. IInv => SettingsAsWritten
  BY MadeLocs DEF IInv, WorkersOK, WorkerOK, Numbered, SettingsAsWritten, Scalar
<1>2. QED
  BY <1>1, Invariance, PTL

(* No worker serves a location that cannot enforce what is configured:     *)
(* validate_enforcement sees the settings that are served, after they are  *)
(* inherited, and refuses the file.                                        *)
THEOREM ServedCanBeEnforced == Spec => []ServedEnforceable
<1>1. IInv => ServedEnforceable
  <2> SUFFICES ASSUME IInv, NEW w \in workers, NEW c \in Server .. Nested,
                      InForce(w.cycle.file, c, "enabled") = TRUE
               PROVE  LET value(f) == InForce(w.cycle.file, c, f)
                      IN  /\ value("ban_action") = "redirect" => value("ban_redirect_url") # Unset
                          /\ /\ \A f \in CaptchaKeys : value(f) # Unset
                             /\ value("captcha_signing_key") # "zeros"
                             /\ value("unenforceable_action") = "block"
                             => w.cycle.locs[c].captcha_template # Unset
    BY DEF ServedEnforceable
  <2> DEFINE conf == w.cycle.locs[c]
             V(f) == conf[f]
             value(f) == InForce(w.cycle.file, c, f)
  <2>1. (\A f \in Scalar : V(f) = value(f)) /\ validate_enforcement(conf)
    BY MadeLocs DEF IInv, WorkersOK, WorkerOK, Numbered
  <2>2. /\ "enabled" \in Scalar /\ "ban_action" \in Scalar /\ "ban_redirect_url" \in Scalar
        /\ "captcha_signing_key" \in Scalar /\ "unenforceable_action" \in Scalar
        /\ CaptchaKeys \subseteq Scalar
    BY DEF Scalar, LocFields, Flags, BanFields, CaptchaFields, CaptchaKeys, Templates, Lists,
       NetworkLists
  <2> HIDE DEF V, value
  <2>3. /\ V("enabled") = value("enabled")
        /\ V("ban_action") = value("ban_action")
        /\ V("ban_redirect_url") = value("ban_redirect_url")
        /\ V("captcha_signing_key") = value("captcha_signing_key")
        /\ V("unenforceable_action") = value("unenforceable_action")
        /\ \A f \in CaptchaKeys : V(f) = value(f)
    BY <2>1, <2>2
  <2>4. V("enabled") = TRUE
    BY <2>3 DEF value
  <2> HIDE DEF conf
  <2>5. V("ban_action") = "redirect" => V("ban_redirect_url") # Unset
    BY <2>1, <2>4 DEF validate_enforcement, V
  <2>6. /\ \A f \in CaptchaKeys : V(f) # Unset
        /\ V("captcha_signing_key") # "zeros"
        /\ V("unenforceable_action") = "block"
        => conf.captcha_template # Unset
    <3>1. SUFFICES ASSUME \A f \in CaptchaKeys : V(f) # Unset,
                          V("captcha_signing_key") # "zeros",
                          V("unenforceable_action") = "block"
                   PROVE  conf.captcha_template # Unset
      OBVIOUS
    <3>2. captcha_config(conf) # None
      BY <3>1, CaptchaConfigured DEF V
    <3>3. QED
      BY <2>1, <2>4, <3>1, <3>2 DEF validate_enforcement, V
  <2>7. QED
    BY <2>3, <2>5, <2>6 DEF conf, value
<1>2. QED
  BY <1>1, Invariance, PTL

(* However often the master has read, refused and committed files, the     *)
(* statics a worker was forked with are those of its own cycle, unless a   *)
(* reload had failed late: postconfiguration writes all of them for each   *)
(* file that is accepted and nothing else does.                            *)
THEOREM WorkerHasItsStatics == Spec => []StaticsOfCycle
<1>1. IInv => StaticsOfCycle
  <2> SUFFICES ASSUME IInv, NEW w \in workers, ~ w.late
               PROVE  /\ w.statics.zone = w.cycle.number
                      /\ w.statics.global # None <=>
                           /\ Set(w.cycle.file, 0, "lapi_url") # {}
                           /\ Set(w.cycle.file, 0, "api_key") # {}
                      /\ w.statics.global = StreamClientConfig(w.cycle.main)
                      /\ w.statics.appsec = AppSecConfig(w.cycle.main)
    BY DEF StaticsOfCycle
  <2> DEFINE main == w.cycle.main
             text == w.cycle.file
             V(f) == main[f]
  <2>1. Made(w.cycle) /\ w.statics = Of(w.cycle)
    BY DEF IInv, WorkersOK, WorkerOK, Numbered
  <2>2. /\ w.statics.zone = w.cycle.number
        /\ w.statics.global = StreamClientConfig(main)
        /\ w.statics.appsec = AppSecConfig(main)
    BY <2>1 DEF Of
  <2>3. ASSUME NEW f \in {"lapi_url", "api_key"} PROVE V(f) = Unset <=> Set(text, 0, f) = {}
    <3>1. f \in MainFields \ NetworkLists
      BY DEF MainFields, NetworkLists, LapiFields
    <3>2. V(f) = Written(text, 0, f) /\ Sound(text)
      BY <2>1, <3>1, MadeMain
    <3> HIDE DEF V
    <3>3. QED
      BY <3>2, WrittenOneOf
  <2> HIDE DEF main, V
  <2>4. StreamClientConfig(main) # None <=> V("lapi_url") # Unset /\ V("api_key") # Unset
    BY LapiConfigured DEF V
  <2>5. /\ V("lapi_url") = Unset <=> Set(text, 0, "lapi_url") = {}
        /\ V("api_key") = Unset <=> Set(text, 0, "api_key") = {}
    BY <2>3
  <2>6. QED
    BY <2>2, <2>4, <2>5 DEF main
<1>2. QED
  BY <1>1, Invariance, PTL


-----------------------------------------------------------------------------
(* Client addresses.                                                       *)

LEMMA Canonical ==
  ASSUME NEW ip \in Address
  PROVE  /\ canonicalize_ip(ip) \in Address
         /\ canonicalize_ip(canonicalize_ip(ip)) = canonicalize_ip(ip)
         /\ \A net : contains(net, canonicalize_ip(ip)) <=> contains(net, ip)
<1> DEFINE c == canonicalize_ip(ip)
<1>1. CASE ip.family = 6 /\ ip.mapped
  <2>1. c = [ip EXCEPT !.family = 4, !.mapped = FALSE]
    BY <1>1 DEF canonicalize_ip
  <2>2. c.family = 4 /\ c.bits = ip.bits
    BY <2>1 DEF Address
  <2>3. c \in Address
    BY <2>1 DEF Address
  <2> HIDE DEF c
  <2>4. canonicalize_ip(c) = c
    BY <2>2 DEF canonicalize_ip
  <2>5. \A net : contains(net, c) <=> contains(net, ip)
    BY <2>2, <2>4 DEF contains, c
  <2>6. QED
    BY <2>3, <2>4, <2>5 DEF c
<1>2. CASE ~ (ip.family = 6 /\ ip.mapped)
  <2>1. c = ip
    BY <1>2 DEF canonicalize_ip
  <2> HIDE DEF c
  <2>2. QED
    BY <2>1 DEF c
<1>3. QED
  BY <1>1, <1>2

LEMMA Trusts ==
  ASSUME NEW ip \in Address, NEW cidrs
  PROVE  ip_in_cidr_list(canonicalize_ip(ip), cidrs) <=> \E net \in cidrs : contains(net, ip)
BY Canonical DEF ip_in_cidr_list

LEMMA Appended ==
  ASSUME NEW hops \in Seq(Address), hops # <<>>, NEW claim \in Seq(Token)
  PROVE  LET header == claim \o Front(hops)
         IN  /\ Len(hops) \in Nat \ {0} /\ Len(claim) \in Nat
             /\ DOMAIN hops = 1 .. Len(hops)
             /\ \A i \in 1 .. Len(hops) : hops[i] \in Address
             /\ DOMAIN header = 1 .. Len(claim) + Len(hops) - 1
             /\ \A i \in 1 .. Len(hops) - 1 : header[Len(claim) + i] = hops[i]
<1> DEFINE h == Len(hops)
           n == Len(claim)
           f == Front(hops)
<1>1. h \in Nat \ {0} /\ n \in Nat /\ DOMAIN hops = 1 .. h /\ \A i \in 1 .. h : hops[i] \in Address
  OBVIOUS
<1>2. f \in Seq(Address) /\ Len(f) = h - 1 /\ \A i \in 1 .. h - 1 : f[i] = hops[i]
  BY <1>1 DEF Front
<1> HIDE DEF f
<1>3. claim \in Seq(Token) /\ f \in Seq(Token)
  BY <1>2 DEF Token
<1>4. Len(claim \o f) = n + (h - 1) /\ DOMAIN (claim \o f) = 1 .. n + (h - 1)
  <2> DEFINE all == claim \o f
  <2>1. all \in Seq(Token) /\ Len(all) = Len(claim) + Len(f)
    BY <1>3, ConcatProperties
  <2> HIDE DEF all
  <2>2. DOMAIN all = 1 .. Len(all)
    BY <2>1
  <2>3. QED
    BY <1>2, <2>1, <2>2 DEF all
<1>5. ASSUME NEW i \in 1 .. h - 1 PROVE (claim \o f)[n + i] = hops[i]
  BY <1>1, <1>2, <1>3, <1>4
<1>6. 1 .. n + (h - 1) = 1 .. n + h - 1
  BY <1>1
<1>7. QED
  BY <1>1, <1>4, <1>5, <1>6 DEF f

(* The greatest element of a finite range.                                 *)
LEMMA Greatest ==
  ASSUME NEW n \in Nat, NEW T, T \subseteq 1 .. n, T # {}
  PROVE  Max(T) \in T /\ \A i \in T : i <= Max(T)
<1> DEFINE B == {m \in 0 .. n : \A i \in T : i <= m}
<1>1. n \in B /\ B \subseteq Nat
  OBVIOUS
<1>2. PICK m \in B : \A x \in B : m <= x
  BY <1>1, LeastNat
<1>3. m \in 0 .. n /\ T \subseteq Int /\ \A i \in T : i <= m /\ i >= 1
  BY <1>2
<1>4. m \in T
  <2>1. SUFFICES ASSUME m \notin T PROVE FALSE
    OBVIOUS
  <2>2. PICK i \in T : TRUE
    OBVIOUS
  <2>3. m - 1 \in 0 .. n /\ \A j \in T : j <= m - 1
    BY <1>3, <2>1, <2>2
  <2>4. m - 1 \in B
    BY <2>3
  <2> HIDE DEF B
  <2>5. m <= m - 1
    BY <1>2, <2>4
  <2>6. QED
    BY <1>3, <2>5
<1>5. Max(T) = m
  BY <1>3, <1>4, MaxIs
<1>6. QED
  BY <1>3, <1>4, <1>5

(* The forwarded header, whatever is in front of it, leads to the nearest  *)
(* hop that is not trusted.                                                *)
LEMMA Resolved ==
  ASSUME NEW hops \in Seq(Address), hops # <<>>, NEW claim \in Seq(Token),
         NEW trusted, Untrusted(hops, trusted) # {}
  PROVE  canonicalize_ip(resolve_client_ip(canonicalize_ip(Socket(hops)), trusted,
                                           claim \o Front(hops))) =
           NearestUntrusted(hops, trusted)
<1> DEFINE h == Len(hops)
           n == Len(claim)
           header == claim \o Front(hops)
           U == Untrusted(hops, trusted)
           m == Max(U)
<1>1. /\ h \in Nat \ {0} /\ n \in Nat /\ DOMAIN hops = 1 .. h
      /\ \A i \in 1 .. h : hops[i] \in Address
      /\ DOMAIN header = 1 .. n + h - 1
      /\ \A i \in 1 .. h - 1 : header[n + i] = hops[i]
  BY Appended
<1> HIDE DEF h, n, header
<1>2. \A i : i \in U <=> i \in 1 .. h /\ ~ \E net \in trusted : contains(net, hops[i])
  BY <1>1 DEF Untrusted
<1>3. m \in U /\ \A i \in U : i <= m
  <2>1. U \subseteq 1 .. h /\ U # {}
    BY <1>2
  <2> HIDE DEF U
  <2>2. QED
    BY <1>1, <2>1, Greatest
<1>4. m \in 1 .. h /\ hops[m] \in Address
  BY <1>1, <1>2, <1>3
<1> DEFINE ip == canonicalize_ip(hops[h])
<1>5. hops[h] \in Address /\ ip \in Address /\ canonicalize_ip(ip) = ip
  <2>1. hops[h] \in Address
    BY <1>1
  <2>2. QED
    BY <2>1, Canonical
<1>6. ip_in_cidr_list(ip, trusted) <=> h \notin U
  BY <1>1, <1>2, <1>5, Trusts
<1> HIDE DEF ip, U, m
<1>7. resolve_client_ip(ip, trusted, header) = canonicalize_ip(hops[m])
  <2> DEFINE chain == parse_forwarded_chain(header)
             untrusted == {i \in chain : ~ ip_in_cidr_list(header[i], trusted)}
  <2>1. resolve_client_ip(ip, trusted, header) =
          IF ~ ip_in_cidr_list(ip, trusted) \/ chain = {} THEN ip
          ELSE canonicalize_ip(header[IF untrusted = {} THEN Min(chain) ELSE Max(untrusted)])
    BY DEF resolve_client_ip
  <2>2. CASE h \in U
    <3>1. m = h
      BY <1>1, <1>3, <1>4, <2>2
    <3>2. QED
      BY <1>6, <2>1, <2>2, <3>1 DEF ip
  <2>3. CASE h \notin U
    <3>1. m \in 1 .. h - 1
      BY <1>1, <1>3, <1>4, <2>3
    <3>2. \A i : i \in chain <=> i \in 1 .. n + h - 1 /\ header[i] # Unreadable
      BY <1>1 DEF parse_forwarded_chain
    <3>3. \A i : i \in untrusted <=> i \in chain /\ ~ ip_in_cidr_list(header[i], trusted)
      OBVIOUS
    <3> HIDE DEF chain, untrusted
    <3>4. n + m \in 1 .. n + h - 1 /\ header[n + m] = hops[m]
      BY <1>1, <3>1
    <3>5. n + m \in untrusted
      <4>1. header[n + m] # Unreadable
        BY <1>4, <3>4, UnreadableAssumption
      <4>2. ~ ip_in_cidr_list(header[n + m], trusted)
        BY <1>2, <1>3, <3>4 DEF ip_in_cidr_list
      <4>3. QED
        BY <3>2, <3>3, <3>4, <4>1, <4>2
    <3>6. ASSUME NEW i \in untrusted PROVE i <= n + m
      <4>1. i \in 1 .. n + h - 1 /\ ~ ip_in_cidr_list(header[i], trusted)
        BY <3>2, <3>3
      <4>2. SUFFICES ASSUME i > n + m PROVE FALSE
        BY <1>1, <3>1, <4>1
      <4>3. i - n \in 1 .. h - 1 /\ i - n > m /\ n + (i - n) = i
        BY <1>1, <3>1, <4>1, <4>2
      <4>4. header[i] = hops[i - n]
        BY <1>1, <4>3
      <4>5. i - n \in 1 .. h
        BY <1>1, <4>3
      <4>6. i - n \in U
        BY <1>2, <4>1, <4>4, <4>5 DEF ip_in_cidr_list
      <4>7. QED
        BY <1>3, <1>4, <3>1, <4>3, <4>6
    <3>7. untrusted \subseteq Int
      BY <3>2, <3>3
    <3>8. Max(untrusted) = n + m
      BY <3>5, <3>6, <3>7, MaxIs
    <3>9. chain # {} /\ untrusted # {}
      BY <3>3, <3>5
    <3>10. QED
      BY <1>6, <2>1, <2>3, <3>4, <3>8, <3>9
  <2>4. QED
    BY <2>2, <2>3
<1>8. canonicalize_ip(canonicalize_ip(hops[m])) = canonicalize_ip(hops[m])
  BY <1>4, Canonical
<1>9. QED
  BY <1>7, <1>8 DEF Socket, NearestUntrusted, h, ip, m, U, header


(* A line without address leaves the peer of the connection.               *)
LEMMA NothingRead ==
  ASSUME NEW ip \in Address, NEW trusted
  PROVE  canonicalize_ip(resolve_client_ip(canonicalize_ip(ip), trusted, <<>>)) =
           canonicalize_ip(ip)
<1>1. parse_forwarded_chain(<<>>) = {}
  BY DEF parse_forwarded_chain
<1>2. resolve_client_ip(canonicalize_ip(ip), trusted, <<>>) = canonicalize_ip(ip)
  BY <1>1 DEF resolve_client_ip
<1>3. QED
  BY <1>2, Canonical

(* header_value_ci of the one line of proxies that append to it.           *)
LEMMA JoinedRead ==
  ASSUME NEW hops \in Seq(Address), hops # <<>>, NEW sent \in Seq(Token)
  PROVE  header_value_ci(Lines(sent \o Front(hops))) =
           IF NotUtf8 \in Range(sent) THEN <<>> ELSE sent \o Front(hops)
<1> DEFINE h == Len(hops)
           n == Len(sent)
           line == sent \o Front(hops)
<1>1. /\ h \in Nat \ {0} /\ n \in Nat
      /\ \A i \in 1 .. h : hops[i] \in Address
      /\ DOMAIN line = 1 .. n + h - 1
      /\ \A i \in 1 .. h - 1 : line[n + i] = hops[i]
  BY Appended
<1>2. DOMAIN sent = 1 .. n /\ \A i \in 1 .. n : line[i] = sent[i]
  <2>1. Front(hops) \in Seq(Address)
    BY DEF Front
  <2>2. QED
    BY <2>1
<1> HIDE DEF line, n, h
<1>3. NotUtf8 \in Range(line) <=> NotUtf8 \in Range(sent)
  <2>1. ASSUME NEW i \in 1 .. n + h - 1, line[i] = NotUtf8 PROVE \E j \in 1 .. n : sent[j] = NotUtf8
    <3>1. CASE i \in 1 .. n
      BY <1>2, <2>1, <3>1
    <3>2. CASE i \notin 1 .. n
      <4>1. i - n \in 1 .. h - 1 /\ n + (i - n) = i
        BY <1>1, <3>2
      <4>2. line[i] = hops[i - n] /\ hops[i - n] \in Address
        BY <1>1, <4>1
      <4>3. QED
        BY <2>1, <4>2, UnreadableAssumption
    <3>3. QED
      BY <3>1, <3>2
  <2>2. ASSUME NEW j \in 1 .. n, sent[j] = NotUtf8 PROVE \E i \in 1 .. n + h - 1 : line[i] = NotUtf8
    <3>1. j \in 1 .. n + h - 1 /\ line[j] = sent[j]
      BY <1>1, <1>2
    <3>2. QED
      BY <2>2, <3>1
  <2>3. QED
    BY <1>1, <1>2, <2>1, <2>2 DEF Range
<1>4. CASE line = <<>>
  <2>1. Range(line) = {}
    BY <1>4 DEF Range
  <2>2. QED
    BY <1>3, <1>4, <2>1 DEF Lines, header_value_ci, line
<1>5. CASE line # <<>>
  <2>1. Lines(line) = <<line>> /\ <<line>> # <<>> /\ <<line>>[1] = line
    BY <1>5 DEF Lines
  <2>2. header_value_ci(<<line>>) = IF NotUtf8 \in Range(line) THEN <<>> ELSE line
    BY <2>1 DEF header_value_ci
  <2>3. QED
    BY <1>3, <2>1, <2>2 DEF line
<1>6. QED
  BY <1>4, <1>5

(* header_value_ci of the lines of proxies that add their own, when the    *)
(* client has written none: the first hop is noted in the first line.      *)
LEMMA NotedRead ==
  ASSUME NEW hops \in Seq(Address), hops # <<>>
  PROVE  header_value_ci(Lines(<<>>) \o Noted(hops)) =
           IF Len(hops) = 1 THEN <<>> ELSE <<hops[1]>>
<1> DEFINE h == Len(hops)
           lines == Noted(hops)
<1>1. h \in Nat \ {0} /\ \A i \in 1 .. h : hops[i] \in Address
  OBVIOUS
<1>2. lines \in Seq(Seq(Address)) /\ Len(lines) = h - 1 /\ \A i \in 1 .. h - 1 : lines[i] = <<hops[i]>>
  BY <1>1 DEF Noted
<1> HIDE DEF lines, h
<1>3. Lines(<<>>) \o lines = lines
  BY <1>2 DEF Lines
<1>4. CASE h = 1
  <2>1. lines = <<>>
    BY <1>2, <1>4
  <2>2. QED
    BY <1>3, <1>4, <2>1 DEF header_value_ci, lines, h
<1>5. CASE h # 1
  <2>1. lines # <<>> /\ lines[1] = <<hops[1]>> /\ hops[1] \in Address
    BY <1>1, <1>2, <1>5
  <2>2. Range(<<hops[1]>>) = {hops[1]}
    BY DEF Range
  <2>3. NotUtf8 \notin Range(lines[1])
    BY <2>1, <2>2, UnreadableAssumption
  <2>4. QED
    BY <1>3, <1>5, <2>1, <2>3 DEF header_value_ci, lines, h
<1>6. QED
  BY <1>4, <1>5

(* What get_effective_client_ip makes of both kinds of headers.            *)
LEMMA HeldTo ==
  ASSUME NEW hops \in Seq(Address), hops # <<>>, NEW sent \in Seq(Token),
         NEW trusted, Untrusted(hops, trusted) # {}, NEW name, NEW joined \in BOOLEAN,
         joined \/ (sent = <<>> /\ Untrusted(hops, trusted) = {1})
  PROVE  get_effective_client_ip(Socket(hops), trusted, Headers(name, sent, hops, joined)[name]) =
           IF NotUtf8 \in Range(sent) THEN canonicalize_ip(Socket(hops))
           ELSE NearestUntrusted(hops, trusted)
<1> DEFINE h == Len(hops)
           found(line) == canonicalize_ip(resolve_client_ip(canonicalize_ip(Socket(hops)), trusted, line))
           lines == Headers(name, sent, hops, joined)[name]
<1>1. h \in Nat \ {0} /\ \A i \in 1 .. h : hops[i] \in Address
  OBVIOUS
<1>2. get_effective_client_ip(Socket(hops), trusted, lines) = found(header_value_ci(lines))
  BY DEF get_effective_client_ip
<1>3. found(<<>>) = canonicalize_ip(Socket(hops))
  BY <1>1, NothingRead DEF Socket
<1>4. CASE joined
  <2>1. lines = Lines(sent \o Front(hops))
    BY <1>4 DEF Headers
  <2> HIDE DEF lines
  <2>2. header_value_ci(lines) =
          IF NotUtf8 \in Range(sent) THEN <<>> ELSE sent \o Front(hops)
    BY <2>1, JoinedRead
  <2>3. found(sent \o Front(hops)) = NearestUntrusted(hops, trusted)
    BY Resolved
  <2> HIDE DEF found
  <2>4. QED
    BY <1>2, <1>3, <2>2, <2>3 DEF lines
<1>5. CASE ~joined
  <2>1. sent = <<>> /\ Untrusted(hops, trusted) = {1}
    BY <1>5
  <2>2. lines = Lines(<<>>) \o Noted(hops)
    BY <1>5, <2>1 DEF Headers
  <2> HIDE DEF lines
  <2>3. header_value_ci(lines) = IF h = 1 THEN <<>> ELSE <<hops[1]>>
    BY <2>2, NotedRead
  <2>4. Range(sent) = {}
    BY <2>1 DEF Range
  <2>5. Max({1}) = 1
    <3> DEFINE T == {1}
    <3>1. T \subseteq Int /\ 1 \in T /\ \A i \in T : i <= 1
      OBVIOUS
    <3> HIDE DEF T
    <3>2. Max(T) = 1
      BY <3>1, MaxIs
    <3>3. QED
      BY <3>2 DEF T
  <2>6. NearestUntrusted(hops, trusted) = canonicalize_ip(hops[1])
    BY <2>1, <2>5 DEF NearestUntrusted
  <2>7. CASE h = 1
    <3>1. Socket(hops) = hops[1]
      BY <2>7 DEF Socket
    <3> HIDE DEF found
    <3>2. QED
      BY <1>2, <1>3, <2>3, <2>4, <2>6, <2>7, <3>1 DEF lines
  <2>8. CASE h # 1
    <3> DEFINE ends == <<hops[1], hops[h]>>
    <3>1. ends \in Seq(Address) /\ ends # <<>> /\ Len(ends) = 2 /\ DOMAIN ends = {1, 2}
          /\ ends[1] = hops[1] /\ ends[2] = hops[h]
      BY <1>1
    <3>2. Front(ends) = <<hops[1]>> /\ <<>> \o Front(ends) = <<hops[1]>>
      <4>1. Front(ends) \in Seq(Address) /\ Len(Front(ends)) = 1 /\ Front(ends)[1] = hops[1]
        BY <3>1 DEF Front
      <4>2. QED
        BY <4>1
    <3>3. Untrusted(ends, trusted) = {1}
      <4> DEFINE Trusted(ip) == \E net \in trusted : contains(net, ip)
      <4>1. Untrusted(hops, trusted) = {i \in 1 .. h : ~Trusted(hops[i])}
        BY DEF Untrusted
      <4>2. Untrusted(ends, trusted) = {i \in {1, 2} : ~Trusted(ends[i])}
        BY <3>1 DEF Untrusted
      <4> HIDE DEF ends, Trusted
      <4>3. 1 \in 1 .. h /\ h \in 1 .. h /\ h # 1
        BY <1>1, <2>8
      <4>4. ~Trusted(hops[1]) /\ Trusted(hops[h])
        BY <2>1, <4>1, <4>3
      <4>5. QED
        BY <3>1, <4>2, <4>4
    <3>4. NearestUntrusted(ends, trusted) = canonicalize_ip(hops[1])
      BY <2>5, <3>1, <3>3 DEF NearestUntrusted
    <3>5. Socket(ends) = Socket(hops)
      BY <3>1 DEF Socket
    <3>6. <<>> \in Seq(Token)
      OBVIOUS
    <3> HIDE DEF ends
    <3>7. Untrusted(ends, trusted) # {}
      BY <3>3
    <3>8. canonicalize_ip(resolve_client_ip(canonicalize_ip(Socket(ends)), trusted,
                                            <<>> \o Front(ends))) =
            NearestUntrusted(ends, trusted)
      BY <3>1, <3>6, <3>7, Resolved
    <3>9. found(<<hops[1]>>) = canonicalize_ip(hops[1])
      BY <3>2, <3>4, <3>5, <3>8
    <3> HIDE DEF found
    <3>10. QED
      BY <1>2, <2>3, <2>4, <2>6, <2>8, <3>9 DEF lines
  <2>9. QED
    BY <2>7, <2>8
<1>6. QED
  BY <1>4, <1>5

(* Behind proxies that append to one line a request is held to the nearest *)
(* hop the file does not trust, or to the peer when the line is no text;   *)
(* behind proxies that add lines the first line decides.  It is bypassed   *)
(* if the file lists that hop: get_client_ip reads the header the file     *)
(* names from its right end, past the networks the file trusts.            *)
THEOREM ClientIsAHop == Spec => []ClientFromHops
<1>1. IInv => ClientFromHops
  <2> SUFFICES ASSUME IInv, NEW w \in workers, NEW hops \in Paths PROVE
        LET text == w.cycle.file
            main == w.cycle.main
            trusted == Listed(text, 0, "trusted_proxies")
            name == IF Set(text, 0, "real_ip_header") = {} THEN "X-Forwarded-For"
                    ELSE text[Max(Set(text, 0, "real_ip_header"))].value
        IN  Untrusted(hops, trusted) # {} =>
              \A sent \in Claims, joined \in BOOLEAN :
                LET client == get_client_ip(main, Socket(hops), Headers(name, sent, hops, joined))
                    hop == IF NotUtf8 \in Range(sent) THEN canonicalize_ip(Socket(hops))
                           ELSE NearestUntrusted(hops, trusted)
                IN  joined \/ (sent = <<>> /\ Untrusted(hops, trusted) = {1}) =>
                      /\ client = hop
                      /\ ip_in_cidr_list(client, main.bypass_cidrs) <=>
                           \E net \in Listed(text, 0, "bypass_cidrs") : contains(net, hop)
    BY DEF ClientFromHops
  <2> DEFINE text == w.cycle.file
             main == w.cycle.main
             trusted == Listed(text, 0, "trusted_proxies")
             name == IF Set(text, 0, "real_ip_header") = {} THEN "X-Forwarded-For"
                     ELSE text[Max(Set(text, 0, "real_ip_header"))].value
  <2> SUFFICES ASSUME Untrusted(hops, trusted) # {}, NEW sent \in Claims, NEW joined \in BOOLEAN,
                      joined \/ (sent = <<>> /\ Untrusted(hops, trusted) = {1})
               PROVE  LET client == get_client_ip(main, Socket(hops), Headers(name, sent, hops, joined))
                          hop == IF NotUtf8 \in Range(sent) THEN canonicalize_ip(Socket(hops))
                                 ELSE NearestUntrusted(hops, trusted)
                      IN  /\ client = hop
                          /\ ip_in_cidr_list(client, main.bypass_cidrs) <=>
                               \E net \in Listed(text, 0, "bypass_cidrs") : contains(net, hop)
    OBVIOUS
  <2> DEFINE hop == IF NotUtf8 \in Range(sent) THEN canonicalize_ip(Socket(hops))
                    ELSE NearestUntrusted(hops, trusted)
             client == get_client_ip(main, Socket(hops), Headers(name, sent, hops, joined))
             V(f) == main[f]
  <2>1. Made(w.cycle)
    BY DEF IInv, WorkersOK, WorkerOK, Numbered
  <2>2. main.trusted_proxies = trusted /\ main.bypass_cidrs = Listed(text, 0, "bypass_cidrs")
    BY <2>1, MadeLists
  <2>3. hops \in Seq(Address) /\ hops # <<>> /\ sent \in Seq(Token)
    BY RequestsAssumption
  <2>4. OrElse(main.real_ip_header, "X-Forwarded-For") = name
    <3>1. /\ \A f \in MainFields \ NetworkLists : V(f) = Written(text, 0, f)
          /\ Sound(text)
      BY <2>1, MadeMain
    <3> HIDE DEF V, text
    <3>2. "real_ip_header" \in MainFields \ NetworkLists
      BY DEF MainFields, NetworkLists
    <3>3. V("real_ip_header") = Written(text, 0, "real_ip_header")
      BY <3>1, <3>2
    <3>4. V("real_ip_header") = Unset <=> Set(text, 0, "real_ip_header") = {}
      BY <3>1, <3>3, WrittenOneOf
    <3>5. OrElse(V("real_ip_header"), "X-Forwarded-For") = name
      BY <3>3, <3>4 DEF OrElse, Written
    <3>6. QED
      BY <3>5 DEF V
  <2> HIDE DEF name, main, trusted
  <2>5. client = get_effective_client_ip(Socket(hops), trusted, Headers(name, sent, hops, joined)[name])
    BY <2>2, <2>4 DEF get_client_ip
  <2>6. client = hop
    BY <2>3, <2>5, HeldTo
  <2> HIDE DEF client, hop
  <2>7. ip_in_cidr_list(client, main.bypass_cidrs) <=>
          \E net \in Listed(text, 0, "bypass_cidrs") : contains(net, hop)
    BY <2>2, <2>6 DEF ip_in_cidr_list
  <2>8. QED
    BY <2>6, <2>7 DEF client, hop
<1>2. QED
  BY <1>1, Invariance, PTL
=============================================================================
