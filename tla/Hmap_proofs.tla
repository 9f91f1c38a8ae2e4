----------------------------- MODULE Hmap_proofs -----------------------------
(***************************************************************************)
(* The hash map implements the map, for every set of keys and values,      *)
(* every hash function and every limit of the table's order; and there is  *)
(* always a slot for what is to be stored.                                 *)
(***************************************************************************)
EXTENDS Hmap, FiniteSetTheorems, TLAPS

-----------------------------------------------------------------------------
(* The inductive invariant, and what it says of one table.                 *)

(* The fields of an hmap_t, and nothing else. *)
IsTable(t) == t = [order |-> t.order, size |-> t.size, slots |-> t.slots]

EachFound(t) == \A n \in UsedIn(t) : n \in SlotOf(t, t.slots[n][1])

Good(t) == IsTable(t) /\ TableOK(t) /\ EachFound(t)

Jobs ==
  {NoJob, [op |-> "delete"]}
    \cup {[op |-> "insert", key |-> kv[1], value |-> kv[2]] : kv \in Inserts}

(* A table under construction holds the entries of the slots passed so     *)
(* far; an insertion waits for it only if its key is new.                  *)
Moving ==
  IF Idle
  THEN moving = Empty /\ pos = 0
  ELSE /\ pos \in 0 .. OldCap
       /\ Allocated(moving)
       /\ Entries(moving) = {table.slots[n] : n \in {m \in UsedIn(table) : m < pos}}
       /\ job.op = "insert" => ~Has(table, job.key)

IInv == Good(table) /\ Good(moving) /\ job \in Jobs /\ Moving

-----------------------------------------------------------------------------
(* Probing.                                                                *)

(* A power of two is the number of subsets of a set, so it is positive.    *)
LEMMA PowerOfTwo ==
  ASSUME NEW n \in Nat
  PROVE  2^n \in Nat \ {0}
<1> DEFINE S == 1 .. n
<1>1. IsFiniteSet(S) /\ Cardinality(S) = n
  BY FS_Interval
<1>2. IsFiniteSet(SUBSET S) /\ Cardinality(SUBSET S) = 2^n
  BY <1>1, FS_SUBSET
<1>3. Cardinality(SUBSET S) \in Nat
  BY <1>2, FS_CardinalityType
<1>4. Cardinality(SUBSET S) # 0
  BY <1>2, FS_EmptySet
<1> QED  BY <1>2, <1>3, <1>4

(* Capacities are positive and probes stay inside the table. *)
LEMMA ProbeFacts ==
  ASSUME NEW t, t.order \in 0 .. MAX_CAP_ORDER
  PROVE  /\ Cap(t.order) \in Nat \ {0}
         /\ \A k \in Keys : \A i \in Nat : Probe(t, k, i) \in Indices(t)
<1>1. /\ MAX_CAP_ORDER \in Nat /\ HASH_BITS \in Nat /\ MAX_CAP_ORDER <= HASH_BITS
      /\ HASH \in [Keys -> 0 .. 2^HASH_BITS - 1]
  BY HmapAssumption
<1>0. \A n \in Nat : 2^n \in Nat \ {0}
  BY PowerOfTwo
<1>2. t.order \in 0 .. HASH_BITS /\ HASH_BITS - t.order \in 0 .. HASH_BITS
      /\ HASH_BITS \in 0 .. HASH_BITS
  BY <1>1
<1>3. Cap(t.order) \in Nat \ {0}
  BY <1>0, <1>2 DEF Cap
<1>4. ASSUME NEW k \in Keys, NEW i \in Nat
      PROVE  Probe(t, k, i) \in Indices(t)
  <2> DEFINE p == 2^(HASH_BITS - t.order)
             h == HASH[k]
             o == i * (i + 1)
  <2>1. p \in Nat \ {0} /\ 2^HASH_BITS \in Nat \ {0}
    BY <1>0, <1>2
  <2>2. h \in Nat
    BY <1>1, <2>1
  <2>3. h \div p \in Nat
    <3> HIDE DEF h, p
    <3> QED  BY <2>1, <2>2
  <2>4. o \in Nat
    BY SMT
  <2>5. o \div 2 \in Nat
    <3> HIDE DEF o
    <3> QED  BY <2>4
  <2> DEFINE a == h \div p
             b == o \div 2
             c == Cap(t.order)
  <2>6. (a + b) % c \in 0 .. c - 1
    <3>1. a \in Nat /\ b \in Nat /\ c \in Nat \ {0}
      BY <1>3, <2>3, <2>5
    <3> HIDE DEF a, b, c
    <3> QED  BY <3>1
  <2> QED  BY <2>6 DEF Probe, Start, Offset, Indices
<1> QED  BY <1>3, <1>4

(* The probe loop ends at one place only. *)
LEMMA EndsOnce ==
  ASSUME NEW t, NEW k, NEW b, NEW i \in Nat, NEW j \in Nat,
         EndsAt(t, k, b, i), EndsAt(t, k, b, j)
  PROVE  i = j
<1>1. ASSUME NEW x \in Nat, NEW y \in Nat, x < y, EndsAt(t, k, b, x)
      PROVE  ~EndsAt(t, k, b, y)
  <2>1. x \in 0 .. y - 1
    BY <1>1
  <2> QED  BY <1>1, <2>1 DEF EndsAt
<1>2. i < j \/ j < i \/ i = j
  OBVIOUS
<1> QED  BY <1>1, <1>2

LEMMA IndicesNat ==
  ASSUME NEW t, t.order \in 0 .. MAX_CAP_ORDER
  PROVE  Indices(t) \subseteq Nat
BY ProbeFacts DEF Indices

-----------------------------------------------------------------------------
(* Good tables.                                                            *)

SlotValues == (Keys \X Vals) \cup {Free, Tombstone}

LEMMA SlotValueFacts ==
  ASSUME NEW s \in SlotValues
  PROVE  /\ Used(s) <=> s \in Keys \X Vals
         /\ Used(s) => s[1] \in Keys /\ s[2] \in Vals /\ s = <<s[1], s[2]>>
BY HmapAssumption DEF SlotValues, Used

(* A table without slots has no entries; the others have Cap many slots.   *)
LEMMA GoodShape ==
  ASSUME NEW t, IsTable(t), TableOK(t)
  PROVE  /\ t.order \in 0 .. MAX_CAP_ORDER
         /\ ~Allocated(t) => t = Empty /\ UsedIn(t) = {}
         /\ Allocated(t) => /\ t.slots \in [Indices(t) -> SlotValues]
                            /\ DOMAIN t.slots = Indices(t)
         /\ IsFiniteSet(UsedIn(t))
         /\ UsedIn(t) \subseteq Nat
         /\ t.size = Cardinality(UsedIn(t)) /\ t.size \in Nat
         /\ \A n \in UsedIn(t) :
              /\ Allocated(t) /\ n \in Indices(t) /\ Used(t.slots[n])
              /\ t.slots[n][1] \in Keys /\ t.slots[n][2] \in Vals
              /\ t.slots[n] = <<t.slots[n][1], t.slots[n][2]>>
<1>1. t.order \in 0 .. MAX_CAP_ORDER /\ t.size = Cardinality(UsedIn(t))
  BY DEF TableOK
<1>2. DOMAIN NullSlots = {}
  BY DEF NullSlots
<1>3. ASSUME t = Empty
      PROVE  ~Allocated(t) /\ UsedIn(t) = {}
  BY <1>2, <1>3 DEF Empty, Allocated, UsedIn
<1>4. ASSUME t # Empty
      PROVE  t.slots \in [Indices(t) -> SlotValues] /\ Allocated(t) /\ DOMAIN t.slots = Indices(t)
  <2>1. t.slots \in [Indices(t) -> SlotValues]
    BY <1>4 DEF TableOK, SlotValues
  <2>2. 0 \in Indices(t)
    BY <1>1, ProbeFacts DEF Indices
  <2> QED  BY <1>2, <2>1, <2>2 DEF Allocated
<1>5. UsedIn(t) \subseteq Indices(t)
  BY <1>3, <1>4 DEF UsedIn
<1>6. IsFiniteSet(Indices(t))
  <2>1. Cap(t.order) - 1 \in Int
    BY <1>1, ProbeFacts
  <2> QED  BY <2>1, FS_Interval DEF Indices
<1>7. IsFiniteSet(UsedIn(t)) /\ Cardinality(UsedIn(t)) \in Nat
  BY <1>5, <1>6, FS_Subset, FS_CardinalityType
<1>8. ASSUME NEW n \in UsedIn(t)
      PROVE  /\ Allocated(t) /\ n \in Indices(t) /\ Used(t.slots[n])
             /\ t.slots[n][1] \in Keys /\ t.slots[n][2] \in Vals
             /\ t.slots[n] = <<t.slots[n][1], t.slots[n][2]>>
  <2>1. t # Empty
    BY <1>3
  <2>2. t.slots[n] \in SlotValues /\ Used(t.slots[n])
    BY <1>4, <1>5, <2>1 DEF UsedIn
  <2> QED  BY <1>4, <1>5, <2>1, <2>2, SlotValueFacts
<1> QED  BY <1>1, <1>3, <1>4, <1>5, <1>7, <1>8, IndicesNat

(* hmap_find_slot finds a key exactly in the used slot that has it. *)
LEMMA SlotFacts ==
  ASSUME NEW t, Good(t), NEW k \in Keys
  PROVE  /\ SlotOf(t, k) = {n \in UsedIn(t) : t.slots[n][1] = k}
         /\ \A m, n \in SlotOf(t, k) : m = n
<1>1. IsTable(t) /\ TableOK(t) /\ EachFound(t)
  BY DEF Good
<1>2. t.order \in 0 .. MAX_CAP_ORDER
  BY <1>1, GoodShape
<1>3. ASSUME NEW n \in SlotOf(t, k)
      PROVE  /\ n \in UsedIn(t) /\ t.slots[n][1] = k
             /\ \E i \in Nat : n = Probe(t, k, i) /\ EndsAt(t, k, FALSE, i)
  <2>1. n \in FoundSlot(t, k, FALSE) /\ Used(t.slots[n])
    BY DEF SlotOf
  <2>2. Allocated(t)
    BY <2>1 DEF FoundSlot
  <2>3. PICK i \in Indices(t) : n = Probe(t, k, i) /\ EndsAt(t, k, FALSE, i)
    BY <2>1, <2>2 DEF FoundSlot
  <2>4. i \in Nat
    BY <1>2, IndicesNat
  <2>5. n \in Indices(t)
    BY <1>2, <2>3, <2>4, ProbeFacts
  <2>6. EndsProbe(t.slots[n], k, FALSE)
    BY <2>3 DEF EndsAt
  <2>7. t.slots[n][1] = k
    BY <2>1, <2>6 DEF EndsProbe, Used
  <2>8. n \in UsedIn(t)
    BY <1>1, <2>1, <2>2, <2>5, GoodShape DEF UsedIn
  <2> QED  BY <2>3, <2>4, <2>7, <2>8
<1>4. \A n \in UsedIn(t) : n \in SlotOf(t, t.slots[n][1])
  BY <1>1 DEF EachFound
<1>5. ASSUME NEW m \in SlotOf(t, k), NEW n \in SlotOf(t, k)
      PROVE  m = n
  <2>1. PICK i \in Nat : m = Probe(t, k, i) /\ EndsAt(t, k, FALSE, i)
    BY <1>3
  <2>2. PICK j \in Nat : n = Probe(t, k, j) /\ EndsAt(t, k, FALSE, j)
    BY <1>3
  <2> QED  BY <2>1, <2>2, EndsOnce
<1> QED  BY <1>3, <1>4, <1>5

(* The represented map, seen from the slots. *)
LEMMA ContentsFacts ==
  ASSUME NEW t, Good(t)
  PROVE  /\ DOMAIN Contents(t) = KeysOf(t)
         /\ KeysOf(t) \subseteq Keys
         /\ \A n \in UsedIn(t) : /\ t.slots[n][1] \in KeysOf(t)
                                 /\ Contents(t)[t.slots[n][1]] = t.slots[n][2]
         /\ \A k \in Keys : Has(t, k) <=> k \in KeysOf(t)
<1>1. IsTable(t) /\ TableOK(t) /\ EachFound(t)
  BY DEF Good
<1>2. KeysOf(t) \subseteq Keys
  BY <1>1, GoodShape DEF KeysOf
<1>3. ASSUME NEW n \in UsedIn(t)
      PROVE  Contents(t)[t.slots[n][1]] = t.slots[n][2]
  <2> DEFINE k == t.slots[n][1]
             c == CHOOSE m \in UsedIn(t) : t.slots[m][1] = k
  <2>1. k \in Keys /\ k \in KeysOf(t)
    BY <1>1, GoodShape DEF KeysOf
  <2>2. c \in UsedIn(t) /\ t.slots[c][1] = k
    OBVIOUS
  <2>3. c \in SlotOf(t, k) /\ n \in SlotOf(t, k)
    BY <2>1, <2>2, SlotFacts
  <2>4. c = n
    BY <2>1, <2>3, SlotFacts
  <2>5. Contents(t)[k] = t.slots[c][2]
    BY <2>1 DEF Contents
  <2> QED  BY <2>4, <2>5
<1>4. ASSUME NEW k \in Keys
      PROVE  Has(t, k) <=> k \in KeysOf(t)
  BY SlotFacts DEF Has, KeysOf
<1> QED  BY <1>2, <1>3, <1>4 DEF Contents, KeysOf

(* A function that agrees with all entries is the represented map. *)
LEMMA ContentsAre ==
  ASSUME NEW t, Good(t), NEW f,
         f = [k \in KeysOf(t) |-> f[k]],
         \A n \in UsedIn(t) : f[t.slots[n][1]] = t.slots[n][2]
  PROVE  Contents(t) = f
<1>1. ASSUME NEW k \in KeysOf(t)
      PROVE  Contents(t)[k] = f[k]
  <2>1. PICK n \in UsedIn(t) : t.slots[n][1] = k
    BY DEF KeysOf
  <2> QED  BY <2>1, ContentsFacts
<1>2. Contents(t) = [k \in KeysOf(t) |-> Contents(t)[k]]
  <2>1. DOMAIN Contents(t) = KeysOf(t)
    BY ContentsFacts
  <2>2. Contents(t) = [k \in DOMAIN Contents(t) |-> Contents(t)[k]]
    BY DEF Contents
  <2> QED  BY ONLY <2>1, <2>2
<1> QED  BY <1>1, <1>2

-----------------------------------------------------------------------------
(* Storing into one slot.                                                  *)

(* A probe sequence that ends elsewhere still does if the changed slot     *)
(* does not end it.                                                        *)
LEMMA StillEnds ==
  ASSUME NEW t, NEW u, t.order \in 0 .. MAX_CAP_ORDER, u.order = t.order,
         NEW n \in Indices(t), \A m \in Indices(t) \ {n} : u.slots[m] = t.slots[m],
         NEW k \in Keys, NEW i \in Nat,
         EndsAt(t, k, FALSE, i), Probe(t, k, i) # n, ~EndsProbe(u.slots[n], k, FALSE)
  PROVE  EndsAt(u, k, FALSE, i)
<1>1. \A j \in Nat : Probe(u, k, j) = Probe(t, k, j) /\ Probe(t, k, j) \in Indices(t)
  BY ProbeFacts DEF Probe, Start, Cap
<1>2. \A j \in 0 .. i - 1 : j \in Nat
  OBVIOUS
<1>3. EndsProbe(u.slots[Probe(u, k, i)], k, FALSE)
  BY <1>1 DEF EndsAt
<1>4. ASSUME NEW j \in 0 .. i - 1
      PROVE  ~EndsProbe(u.slots[Probe(u, k, j)], k, FALSE)
  <2>1. ~EndsProbe(t.slots[Probe(t, k, j)], k, FALSE)
    BY DEF EndsAt
  <2> QED  BY <1>1, <1>2, <2>1
<1> QED  BY <1>3, <1>4 DEF EndsAt

(* t with slot n set to s. *)
WithSlot(t, n, s, size) == [order |-> t.order, size |-> size, slots |-> [t.slots EXCEPT ![n] = s]]

(* Storing an entry or a tombstone keeps a table good, if no other entry   *)
(* has the key and the new entry is found.                                 *)
LEMMA StoreFacts ==
  ASSUME NEW t, Good(t), Allocated(t), NEW n \in Indices(t), NEW s \in SlotValues, s # Free,
         NEW size, size = Cardinality(UsedIn(WithSlot(t, n, s, size))),
         Used(s) => \A m \in UsedIn(t) \ {n} : t.slots[m][1] # s[1],
         Used(s) => n \in SlotOf(WithSlot(t, n, s, size), s[1])
  PROVE  LET u == WithSlot(t, n, s, size)
         IN  /\ Good(u) /\ Allocated(u)
             /\ \A m \in UsedIn(t) \ {n} : u.slots[m] = t.slots[m]
<1> DEFINE u == WithSlot(t, n, s, size)
<1>1. IsTable(t) /\ TableOK(t) /\ EachFound(t)
  BY DEF Good
<1>2. /\ t.order \in 0 .. MAX_CAP_ORDER /\ t.slots \in [Indices(t) -> SlotValues]
      /\ DOMAIN t.slots = Indices(t)
  BY <1>1, GoodShape
<1>3. u.order = t.order /\ u.size = size /\ u.slots = [t.slots EXCEPT ![n] = s] /\ IsTable(u)
  BY DEF WithSlot, IsTable
<1>4. /\ Indices(u) = Indices(t) /\ u.slots \in [Indices(u) -> SlotValues]
      /\ u.slots[n] = s /\ \A m \in Indices(t) \ {n} : u.slots[m] = t.slots[m]
      /\ DOMAIN u.slots = Indices(t)
  BY <1>2, <1>3 DEF Indices, Cap
<1>5. t # Empty /\ Allocated(u)
  <2>1. DOMAIN NullSlots = {}
    BY DEF NullSlots
  <2>2. n \in DOMAIN u.slots /\ n \in DOMAIN t.slots
    BY <1>2, <1>4
  <2> QED  BY <2>1, <2>2 DEF Allocated, Empty
<1>6. TableOK(u)
  <2>1. t.order >= MIN_CAP_ORDER
    BY <1>1, <1>5 DEF TableOK
  <2>2. u.size = Cardinality(UsedIn(u))
    BY <1>3
  <2> QED  BY <1>2, <1>3, <1>4, <2>1, <2>2 DEF TableOK, SlotValues
<1>7. \A m \in UsedIn(u) : (m = n /\ Used(s)) \/ m \in UsedIn(t) \ {n}
  BY <1>2, <1>4 DEF UsedIn
<1>8. ASSUME NEW m \in UsedIn(t) \ {n}, m \in UsedIn(u)
      PROVE  m \in SlotOf(u, u.slots[m][1])
  <2> DEFINE k == t.slots[m][1]
  <2>1. k \in Keys /\ m \in Indices(t)
    BY <1>1, GoodShape
  <2>2. u.slots[m] = t.slots[m]
    BY <1>4, <2>1
  <2>3. m \in SlotOf(t, k)
    BY <1>1 DEF EachFound
  <2>4. PICK i \in Indices(t) : m = Probe(t, k, i) /\ EndsAt(t, k, FALSE, i)
    BY <2>3 DEF SlotOf, FoundSlot
  <2>5. i \in Nat
    BY <1>2, IndicesNat
  <2>6. ~EndsProbe(s, k, FALSE)
    <3>1. Used(s) => s[1] # k
      BY <1>8
    <3> QED  BY <3>1 DEF EndsProbe
  <2>7. EndsAt(u, k, FALSE, i)
    <3>1. Probe(t, k, i) # n
      BY <1>8, <2>4
    <3>2. ~EndsProbe(u.slots[n], k, FALSE)
      BY <1>4, <2>6
    <3> HIDE DEF u, k
    <3> QED  BY <1>2, <1>3, <1>4, <2>1, <2>4, <2>5, <3>1, <3>2, StillEnds
  <2>8. m = Probe(u, k, i) /\ i \in Indices(u)
    BY <1>3, <1>4, <2>4 DEF Probe, Start, Cap
  <2>9. m \in FoundSlot(u, k, FALSE)
    BY <1>5, <2>7, <2>8 DEF FoundSlot
  <2>10. Used(u.slots[m])
    BY <1>8 DEF UsedIn
  <2> QED  BY <2>2, <2>9, <2>10 DEF SlotOf
<1>9. EachFound(u)
  BY <1>4, <1>7, <1>8 DEF EachFound
<1>10. \A m \in UsedIn(t) \ {n} : u.slots[m] = t.slots[m]
  BY <1>1, <1>4, GoodShape
<1> QED  BY <1>3, <1>5, <1>6, <1>9, <1>10 DEF Good

LEMMA UsedAfterStore ==
  ASSUME NEW t, Good(t), Allocated(t), NEW n \in Indices(t), NEW s, NEW size
  PROVE  /\ Used(s) => UsedIn(WithSlot(t, n, s, size)) = UsedIn(t) \cup {n}
         /\ ~Used(s) => UsedIn(WithSlot(t, n, s, size)) = UsedIn(t) \ {n}
<1>1. t.slots \in [Indices(t) -> SlotValues] /\ DOMAIN t.slots = Indices(t)
  BY GoodShape DEF Good
<1> QED  BY <1>1 DEF WithSlot, UsedIn

(* hmap_insert_new binds the key and stays good: the slot it takes is the  *)
(* one at which the search for the key ends from now on.                   *)
LEMMA InsertNewFacts ==
  ASSUME NEW t, Good(t), NEW k \in Keys, NEW v \in Vals, ~Has(t, k),
         NEW u, InsertNew(t, k, v, u)
  PROVE  /\ Good(u) /\ Allocated(u)
         /\ Contents(u) = Map!Bind(Contents(t), k, v)
         /\ Entries(u) = Entries(t) \cup {<<k, v>>}
<1>1. IsTable(t) /\ TableOK(t) /\ EachFound(t)
  BY DEF Good
<1>2. PICK n \in RoomFor(t, k) :
        u = [t EXCEPT !.slots = [@ EXCEPT ![n] = <<k, v>>], !.size = @ + 1]
  BY DEF InsertNew
<1>3. Allocated(t) /\ ~Used(t.slots[n]) /\ n \in FoundSlot(t, k, TRUE)
  BY <1>2 DEF RoomFor, FoundSlot
<1>4. PICK i \in Indices(t) : n = Probe(t, k, i) /\ EndsAt(t, k, TRUE, i)
  BY <1>3 DEF FoundSlot
<1>5. /\ t.order \in 0 .. MAX_CAP_ORDER /\ t.slots \in [Indices(t) -> SlotValues]
      /\ DOMAIN t.slots = Indices(t)
      /\ t.size = Cardinality(UsedIn(t)) /\ t.size \in Nat /\ IsFiniteSet(UsedIn(t))
  BY <1>1, <1>3, GoodShape
<1>6. i \in Nat /\ n \in Indices(t)
  BY <1>4, <1>5, IndicesNat, ProbeFacts
<1> DEFINE s == <<k, v>>
           size == t.size + 1
<1>7. u = WithSlot(t, n, s, size)
  BY <1>1, <1>2 DEF WithSlot, IsTable
<1>8. s \in SlotValues /\ Used(s) /\ s # Free /\ s[1] = k
  <2>1. s \in Keys \X Vals
    OBVIOUS
  <2> QED  BY <2>1, SlotValueFacts DEF SlotValues, Used
<1>9. n \notin UsedIn(t) /\ UsedIn(u) = UsedIn(t) \cup {n}
  <2>1. n \notin UsedIn(t)
    BY <1>3 DEF UsedIn
  <2> HIDE DEF s, size
  <2>2. Good(t) /\ Allocated(t) /\ n \in Indices(t) /\ Used(s)
    BY <1>3, <1>6, <1>8
  <2>3. UsedIn(WithSlot(t, n, s, size)) = UsedIn(t) \cup {n}
    BY ONLY <2>2, UsedAfterStore
  <2> QED  BY <1>7, <2>1, <2>3, Zenon
<1>10. size = Cardinality(UsedIn(u))
  <2>1. Cardinality(UsedIn(t) \cup {n}) = Cardinality(UsedIn(t)) + 1
    BY <1>5, <1>9, FS_AddElement
  <2> QED  BY <1>5, <1>9, <2>1
<1>11. \A m \in UsedIn(t) \ {n} : t.slots[m][1] # k
  BY SlotFacts DEF Has
<1>12. n \in SlotOf(u, k)
  <2>1. u.order = t.order /\ u.slots = [t.slots EXCEPT ![n] = s]
    BY <1>7 DEF WithSlot
  <2>2. \A j \in Nat : Probe(u, k, j) = Probe(t, k, j) /\ Probe(t, k, j) \in Indices(t)
    BY <1>5, <2>1, ProbeFacts DEF Probe, Start, Cap
  <2>3. EndsProbe(u.slots[Probe(u, k, i)], k, FALSE)
    BY <1>4, <1>5, <1>6, <1>8, <2>1, <2>2 DEF EndsProbe
  <2>4. ASSUME NEW j \in 0 .. i - 1
        PROVE  ~EndsProbe(u.slots[Probe(u, k, j)], k, FALSE)
    <3>1. j \in Nat /\ ~EndsProbe(t.slots[Probe(t, k, j)], k, TRUE)
      <4>1. j \in Nat
        BY <1>6
      <4> QED  BY <1>4, <4>1 DEF EndsAt
    <3>2. EndsProbe(t.slots[n], k, TRUE)
      BY <1>4 DEF EndsAt
    <3>3. Probe(t, k, j) # n
      BY <3>1, <3>2
    <3>4. u.slots[Probe(u, k, j)] = t.slots[Probe(t, k, j)]
      BY <1>5, <2>1, <2>2, <3>1, <3>3
    <3> QED  BY <3>1, <3>4 DEF EndsProbe
  <2>5. EndsAt(u, k, FALSE, i)
    BY <2>3, <2>4 DEF EndsAt
  <2>6. i \in Indices(u) /\ n = Probe(u, k, i)
    BY <1>4, <1>6, <2>1, <2>2 DEF Indices, Cap
  <2>7. Allocated(u)
    BY <1>5, <1>6, <2>1 DEF Allocated, NullSlots
  <2>8. Used(u.slots[n])
    BY <1>5, <1>6, <1>8, <2>1
  <2> QED  BY <2>5, <2>6, <2>7, <2>8 DEF SlotOf, FoundSlot
<1>13. /\ Good(u) /\ Allocated(u)
       /\ \A m \in UsedIn(t) \ {n} : u.slots[m] = t.slots[m]
  <2> HIDE DEF s, size
  <2> QED  BY <1>3, <1>6, <1>7, <1>8, <1>10, <1>11, <1>12, StoreFacts
<1>14. u.slots[n] = s
  BY <1>5, <1>6, <1>7 DEF WithSlot
<1>15. Contents(u) = Map!Bind(Contents(t), k, v)
  <2> DEFINE f == Map!Bind(Contents(t), k, v)
  <2>1. KeysOf(u) = KeysOf(t) \cup {k}
    BY <1>8, <1>9, <1>13, <1>14 DEF KeysOf
  <2>2. DOMAIN f = KeysOf(u) /\ f = [x \in KeysOf(u) |-> f[x]]
    BY <2>1, ContentsFacts DEF Map!Bind
  <2>3. ASSUME NEW m \in UsedIn(u)
        PROVE  f[u.slots[m][1]] = u.slots[m][2]
    <3>1. CASE m = n
      BY <1>14, <3>1 DEF Map!Bind
    <3>2. CASE m # n
      <4>1. m \in UsedIn(t) /\ u.slots[m] = t.slots[m] /\ t.slots[m][1] # k
        BY <1>9, <1>11, <1>13, <3>2
      <4> QED  BY <4>1, ContentsFacts DEF Map!Bind
    <3> QED  BY <3>1, <3>2
  <2> HIDE DEF f
  <2> QED  BY <1>13, <2>2, <2>3, ContentsAre DEF f
<1>16. Entries(u) = Entries(t) \cup {<<k, v>>}
  <2>1. Entries(u) = {u.slots[m] : m \in UsedIn(u)} /\ Entries(t) = {t.slots[m] : m \in UsedIn(t)}
    BY DEF Entries, UsedIn
  <2>2. \A m \in UsedIn(t) : m \in UsedIn(u) /\ u.slots[m] = t.slots[m]
    BY <1>9, <1>13
  <2>3. n \in UsedIn(u) /\ \A m \in UsedIn(u) : m = n \/ m \in UsedIn(t)
    BY <1>9
  <2>4. \A e \in Entries(u) : e \in Entries(t) \cup {<<k, v>>}
    BY <1>14, <2>1, <2>2, <2>3
  <2>5. \A e \in Entries(t) \cup {<<k, v>>} : e \in Entries(u)
    BY <1>14, <2>1, <2>2, <2>3
  <2> QED  BY <2>4, <2>5
<1> QED  BY <1>13, <1>15, <1>16

Overwritten(t, n, k, v) == [t EXCEPT !.slots = [@ EXCEPT ![n] = <<k, v>>]]

Buried(t, n) == [t EXCEPT !.slots = [@ EXCEPT ![n] = Tombstone], !.size = @ - 1]

(* Storing under a key that is there replaces its value. *)
LEMMA UpdateFacts ==
  ASSUME NEW t, Good(t), NEW k \in Keys, NEW v \in Vals, NEW n \in SlotOf(t, k),
         NEW u, u = Overwritten(t, n, k, v)
  PROVE  Good(u) /\ Contents(u) = Map!Bind(Contents(t), k, v)
<1>1. IsTable(t) /\ TableOK(t) /\ EachFound(t)
  BY DEF Good
<1>2. n \in UsedIn(t) /\ t.slots[n][1] = k
  BY SlotFacts
<1>3. /\ t.order \in 0 .. MAX_CAP_ORDER /\ t.slots \in [Indices(t) -> SlotValues]
      /\ DOMAIN t.slots = Indices(t) /\ Allocated(t) /\ n \in Indices(t)
      /\ t.size = Cardinality(UsedIn(t))
  BY <1>1, <1>2, GoodShape
<1> DEFINE s == <<k, v>>
           size == t.size
<1>4. u = WithSlot(t, n, s, size)
  BY <1>1 DEF WithSlot, IsTable, Overwritten
<1>5. s \in SlotValues /\ Used(s) /\ s # Free /\ s[1] = k
  <2>1. s \in Keys \X Vals
    OBVIOUS
  <2> QED  BY <2>1, SlotValueFacts DEF SlotValues, Used
<1>6. UsedIn(u) = UsedIn(t)
  <2> HIDE DEF s, size
  <2> QED  BY <1>2, <1>3, <1>4, <1>5, UsedAfterStore
<1>7. \A m \in UsedIn(t) \ {n} : t.slots[m][1] # k
  BY SlotFacts
<1>8. n \in SlotOf(u, k)
  <2>1. u.order = t.order /\ u.slots = [t.slots EXCEPT ![n] = s]
    BY <1>4 DEF WithSlot
  <2>2. PICK i \in Indices(t) : n = Probe(t, k, i) /\ EndsAt(t, k, FALSE, i)
    BY DEF SlotOf, FoundSlot
  <2>3. i \in Nat
    BY <1>3, IndicesNat
  <2>4. \A j \in Nat : Probe(u, k, j) = Probe(t, k, j) /\ Probe(t, k, j) \in Indices(t)
    BY <1>3, <2>1, ProbeFacts DEF Probe, Start, Cap
  <2>5. EndsProbe(u.slots[Probe(u, k, i)], k, FALSE)
    BY <1>3, <1>5, <2>1, <2>2, <2>3, <2>4 DEF EndsProbe
  <2>6. ASSUME NEW j \in 0 .. i - 1
        PROVE  ~EndsProbe(u.slots[Probe(u, k, j)], k, FALSE)
    <3>1. j \in Nat /\ ~EndsProbe(t.slots[Probe(t, k, j)], k, FALSE)
      <4>1. j \in Nat
        BY <2>3
      <4> QED  BY <2>2, <4>1 DEF EndsAt
    <3>2. EndsProbe(t.slots[n], k, FALSE)
      BY <2>2 DEF EndsAt
    <3>3. Probe(t, k, j) # n
      BY <3>1, <3>2
    <3>4. u.slots[Probe(u, k, j)] = t.slots[Probe(t, k, j)]
      BY <1>3, <2>1, <2>4, <3>1, <3>3
    <3> QED  BY <3>1, <3>4
  <2>7. EndsAt(u, k, FALSE, i)
    BY <2>5, <2>6 DEF EndsAt
  <2>8. i \in Indices(u) /\ n = Probe(u, k, i)
    BY <2>1, <2>2, <2>3, <2>4 DEF Indices, Cap
  <2>9. Allocated(u)
    BY <1>3, <2>1 DEF Allocated, NullSlots
  <2>10. Used(u.slots[n])
    BY <1>3, <1>5, <2>1
  <2> QED  BY <2>7, <2>8, <2>9, <2>10 DEF SlotOf, FoundSlot
<1>9. /\ Good(u)
      /\ \A m \in UsedIn(t) \ {n} : u.slots[m] = t.slots[m]
  <2>1. size = Cardinality(UsedIn(u))
    BY <1>3, <1>6
  <2> HIDE DEF s, size
  <2> QED  BY <1>3, <1>4, <1>5, <1>7, <1>8, <2>1, StoreFacts
<1>10. u.slots[n] = s
  BY <1>3, <1>4 DEF WithSlot
<1>11. Contents(u) = Map!Bind(Contents(t), k, v)
  <2> DEFINE f == Map!Bind(Contents(t), k, v)
  <2>1. KeysOf(u) = KeysOf(t) /\ k \in KeysOf(t)
    BY <1>2, <1>5, <1>6, <1>9, <1>10 DEF KeysOf
  <2>2. DOMAIN f = KeysOf(u) /\ f = [x \in KeysOf(u) |-> f[x]]
    BY <2>1, ContentsFacts DEF Map!Bind
  <2>3. ASSUME NEW m \in UsedIn(u)
        PROVE  f[u.slots[m][1]] = u.slots[m][2]
    <3>1. CASE m = n
      BY <1>10, <3>1 DEF Map!Bind
    <3>2. CASE m # n
      <4>1. m \in UsedIn(t) /\ u.slots[m] = t.slots[m] /\ t.slots[m][1] # k
        BY <1>6, <1>7, <1>9, <3>2
      <4> QED  BY <4>1, ContentsFacts DEF Map!Bind
    <3> QED  BY <3>1, <3>2
  <2> HIDE DEF f
  <2> QED  BY <1>9, <2>2, <2>3, ContentsAre DEF f
<1> QED  BY <1>9, <1>11

(* A tombstone unbinds its key, and no other. *)
LEMMA RemoveFacts ==
  ASSUME NEW t, Good(t), NEW k \in Keys, NEW n \in SlotOf(t, k),
         NEW u, u = Buried(t, n)
  PROVE  Good(u) /\ Contents(u) = Map!Without(Contents(t), k)
<1>1. IsTable(t) /\ TableOK(t) /\ EachFound(t)
  BY DEF Good
<1>2. n \in UsedIn(t) /\ t.slots[n][1] = k
  BY SlotFacts
<1>3. /\ t.slots \in [Indices(t) -> SlotValues] /\ Allocated(t) /\ n \in Indices(t)
      /\ t.size = Cardinality(UsedIn(t)) /\ IsFiniteSet(UsedIn(t))
  BY <1>1, <1>2, GoodShape
<1> DEFINE size == t.size - 1
<1>4. u = WithSlot(t, n, Tombstone, size)
  BY <1>1 DEF WithSlot, IsTable, Buried
<1>5. ~Used(Tombstone) /\ Tombstone \in SlotValues /\ Tombstone # Free
  BY HmapAssumption DEF Used, SlotValues
<1>6. UsedIn(u) = UsedIn(t) \ {n}
  <2> HIDE DEF size
  <2> QED  BY <1>3, <1>4, <1>5, UsedAfterStore
<1>7. size = Cardinality(UsedIn(u))
  <2>1. Cardinality(UsedIn(t) \ {n}) = Cardinality(UsedIn(t)) - 1
    BY <1>2, <1>3, FS_RemoveElement
  <2> QED  BY <1>3, <1>6, <2>1
<1>8. /\ Good(u)
      /\ \A m \in UsedIn(t) \ {n} : u.slots[m] = t.slots[m]
  <2> HIDE DEF size
  <2> QED  BY <1>3, <1>4, <1>5, <1>7, StoreFacts
<1>9. Contents(u) = Map!Without(Contents(t), k)
  <2> DEFINE f == Map!Without(Contents(t), k)
  <2>1. \A m \in UsedIn(t) \ {n} : t.slots[m][1] # k
    BY SlotFacts
  <2>2. KeysOf(u) = KeysOf(t) \ {k}
    BY <1>2, <1>6, <1>8, <2>1 DEF KeysOf
  <2>3. f = [x \in KeysOf(u) |-> f[x]]
    BY <2>2, ContentsFacts DEF Map!Without
  <2>4. ASSUME NEW m \in UsedIn(u)
        PROVE  f[u.slots[m][1]] = u.slots[m][2]
    <3>1. m \in UsedIn(t) /\ u.slots[m] = t.slots[m] /\ t.slots[m][1] # k
      BY <1>6, <1>8, <2>1
    <3> QED  BY <3>1, ContentsFacts DEF Map!Without
  <2> HIDE DEF f
  <2> QED  BY <1>8, <2>3, <2>4, ContentsAre DEF f
<1> QED  BY <1>8, <1>9

-----------------------------------------------------------------------------
(* The steps.                                                              *)

LEMMA EmptyFacts == Good(Empty) /\ Contents(Empty) = [x \in {} |-> Absent] /\ ~Allocated(Empty)
<1>1. IsTable(Empty) /\ ~Allocated(Empty)
  BY DEF IsTable, Empty, Allocated
<1>2. UsedIn(Empty) = {}
  BY DEF UsedIn, Empty, NullSlots
<1>3. TableOK(Empty)
  <2>1. Empty.order = 0 /\ Empty.size = 0
    BY DEF Empty
  <2>2. 0 \in 0 .. MAX_CAP_ORDER
    BY HmapAssumption
  <2> QED  BY <1>2, <2>1, <2>2, FS_EmptySet DEF TableOK
<1>4. KeysOf(Empty) = {}
  BY <1>2 DEF KeysOf
<1> QED  BY <1>1, <1>2, <1>3, <1>4 DEF Good, EachFound, Contents

(* All steps but those of hmap_rehash leave the new table alone. *)
LEMMA IdleStep ==
  ASSUME IInv, Idle, Good(table'), NoRehash
  PROVE  IInv'
BY DEF IInv, Moving, Idle, NoRehash

(* A new table has no entries, and no slot of the old one has been moved.  *)
LEMMA RehashBeginsFacts ==
  ASSUME Good(table'), NEW order \in Nat, NEW j \in Jobs, j # NoJob, RehashBegins(order, j),
         j.op = "insert" => ~Has(table', j.key)
  PROVE  IInv'
<1> DEFINE o == NewOrder(order)
           slots == [n \in 0 .. Cap(o) - 1 |-> Free]
<1>1. o \in Nat /\ o >= MIN_CAP_ORDER /\ o <= MAX_CAP_ORDER
  BY HmapAssumption DEF RehashBegins, NewOrder
<1>2. moving' = [order |-> o, size |-> 0, slots |-> slots] /\ pos' = 0 /\ job' = j
  BY DEF RehashBegins
<1>3. moving'.order = o /\ moving'.size = 0 /\ moving'.slots = slots /\ IsTable(moving')
  <2> HIDE DEF o, slots
  <2> QED  BY <1>2 DEF IsTable
<1>4. Cap(o) \in Nat \ {0} /\ o \in 0 .. MAX_CAP_ORDER
  <2>1. o \in 0 .. MAX_CAP_ORDER
    BY <1>1, HmapAssumption
  <2> QED  BY <1>3, <2>1, ProbeFacts
<1>5. ~Used(Free)
  BY DEF Used
<1>6. UsedIn(moving') = {}
  <2>1. \A n \in DOMAIN slots : slots[n] = Free
    OBVIOUS
  <2> HIDE DEF slots
  <2> QED  BY <1>3, <1>5, <2>1 DEF UsedIn
<1>7. TableOK(moving')
  <2>1. slots \in [Indices(moving') -> (Keys \X Vals) \cup {Free, Tombstone}]
    BY <1>3 DEF Indices
  <2>2. Cardinality(UsedIn(moving')) = 0
    BY <1>6, FS_EmptySet
  <2> HIDE DEF o, slots
  <2> QED  BY <1>1, <1>3, <1>4, <2>1, <2>2 DEF TableOK
<1>8. Good(moving')
  BY <1>3, <1>6, <1>7 DEF Good, EachFound
<1>9. Allocated(moving')
  <2>1. 0 \in DOMAIN slots
    BY <1>4
  <2>2. 0 \notin DOMAIN NullSlots
    BY DEF NullSlots
  <2> HIDE DEF slots
  <2> QED  BY <1>3, <2>1, <2>2 DEF Allocated
<1>10. Entries(moving') = {table'.slots[n] : n \in {m \in UsedIn(table') : m < pos'}}
  <2>1. UsedIn(table') \subseteq Nat
    BY GoodShape DEF Good
  <2>2. {m \in UsedIn(table') : m < pos'} = {}
    BY <1>2, <2>1
  <2>3. Entries(moving') = {moving'.slots[n] : n \in UsedIn(moving')}
    BY DEF Entries, UsedIn
  <2> QED  BY <1>6, <2>2, <2>3
<1>11. OldCap' \in Nat
  <2>1. table'.order \in 0 .. MAX_CAP_ORDER
    BY GoodShape DEF Good
  <2> QED  BY <2>1, ProbeFacts DEF OldCap
<1>12. Moving'
  <2>1. pos' \in 0 .. OldCap'
    BY <1>2, <1>11
  <2>2. job' # NoJob /\ (job'.op = "insert" => ~Has(table', job'.key))
    BY <1>2
  <2> QED  BY <1>9, <1>10, <2>1, <2>2 DEF Moving, Idle
<1> QED  BY <1>2, <1>8, <1>12 DEF IInv

(* Every step keeps the invariant and is a step of the map or none. *)
MapStep == Map!Next \/ UNCHANGED Map!vars

LEMMA InsertFacts == \A e \in Inserts : e[1] \in Keys /\ e[2] \in Vals /\ e = <<e[1], e[2]>>
BY HmapAssumption

LEMMA InsertExistingStep ==
  ASSUME IInv, NEW e \in Inserts, InsertExisting(e[1], e[2])
  PROVE  IInv' /\ MapStep
<1> DEFINE k == e[1]
           v == e[2]
<1>1. k \in Keys /\ v \in Vals
  BY InsertFacts
<1>2. PICK n \in SlotOf(table, k) : table' = Overwritten(table, n, k, v)
  BY DEF InsertExisting, Overwritten
<1>3. Good(table)
  BY DEF IInv
<1>4. Good(table') /\ Contents(table') = Map!Bind(Contents(table), k, v)
  <2> HIDE DEF k, v
  <2> QED  BY <1>1, <1>2, <1>3, UpdateFacts
<1>5. IInv'
  BY <1>4, IdleStep DEF InsertExisting
<1>6. Map!Insert(k, v)
  BY <1>4 DEF Map!Insert, InsertExisting, Reply, Map!Reply
<1> QED  BY <1>5, <1>6 DEF MapStep, Map!Next

LEMMA InsertAbsentStep ==
  ASSUME IInv, NEW e \in Inserts, InsertAbsent(e[1], e[2])
  PROVE  IInv' /\ MapStep
<1> DEFINE k == e[1]
           v == e[2]
<1>1. k \in Keys /\ v \in Vals
  BY InsertFacts
<1>2. Good(table) /\ ~Has(table, k) /\ InsertNew(table, k, v, table')
  BY DEF IInv, InsertAbsent, Store
<1>3. Good(table') /\ Contents(table') = Map!Bind(Contents(table), k, v)
  <2> HIDE DEF k, v
  <2> QED  BY <1>1, <1>2, InsertNewFacts
<1>4. IInv'
  BY <1>3, IdleStep DEF InsertAbsent
<1>5. Map!Insert(k, v)
  BY <1>3 DEF Map!Insert, InsertAbsent, Store, Reply, Map!Reply
<1> QED  BY <1>4, <1>5 DEF MapStep, Map!Next

LEMMA Stutters ==
  ASSUME table' = table, reply' = reply
  PROVE  MapStep
BY DEF MapStep, Map!vars

LEMMA InsertGrowsStep ==
  ASSUME IInv, NEW e \in Inserts, InsertGrows(e[1], e[2])
  PROVE  IInv' /\ MapStep
<1> DEFINE j == [op |-> "insert", key |-> e[1], value |-> e[2]]
<1>1. table' = table /\ reply' = reply /\ RehashBegins(table.order + 1, j) /\ ~Has(table, e[1])
  BY DEF InsertGrows
<1>2. Good(table) /\ Good(table')
  BY <1>1 DEF IInv
<1>3. table.order + 1 \in Nat
  <2>1. table.order \in 0 .. MAX_CAP_ORDER
    BY <1>2, GoodShape DEF Good
  <2> QED  BY <2>1
<1>4. j \in Jobs /\ j # NoJob
  <2>1. j.op = "insert" /\ NoJob.op = "none"
    BY DEF NoJob
  <2> QED  BY <2>1 DEF Jobs
<1>5. j.op = "insert" => ~Has(table', j.key)
  BY <1>1
<1>6. IInv'
  <2> HIDE DEF j
  <2> QED  BY <1>1, <1>2, <1>3, <1>4, <1>5, RehashBeginsFacts
<1> QED  BY <1>1, <1>6, Stutters

LEMMA InsertCannotGrowStep ==
  ASSUME IInv, NEW k \in Keys, InsertCannotGrow(k)
  PROVE  IInv' /\ MapStep
<1>1. table' = table /\ Good(table) /\ Good(table')
  BY DEF InsertCannotGrow, IInv
<1>2. IInv'
  BY <1>1, IdleStep DEF InsertCannotGrow
<1>3. k \notin DOMAIN Contents(table)
  BY <1>1, ContentsFacts DEF InsertCannotGrow
<1>4. Map!InsertFails(k)
  BY <1>1, <1>3 DEF Map!InsertFails, InsertCannotGrow, Reply, Map!Reply
<1> QED  BY <1>2, <1>4 DEF MapStep, Map!Next

LEMMA LookupStep ==
  ASSUME IInv, NEW k \in Keys, Lookup(k)
  PROVE  IInv' /\ MapStep
<1>1. table' = table /\ Good(table) /\ Good(table')
  BY DEF Lookup, IInv
<1>2. IInv'
  BY <1>1, IdleStep DEF Lookup
<1>3. Map!Lookup(k)
  <2>1. CASE \E n \in SlotOf(table, k) : reply' = Reply("lookup", k, table.slots[n][2])
    <3>1. PICK n \in SlotOf(table, k) : reply' = Reply("lookup", k, table.slots[n][2])
      BY <2>1
    <3>2. n \in UsedIn(table) /\ table.slots[n][1] = k
      BY <1>1, SlotFacts
    <3>3. k \in DOMAIN Contents(table) /\ Contents(table)[k] = table.slots[n][2]
      BY <1>1, <3>2, ContentsFacts
    <3> QED  BY <1>1, <3>1, <3>3 DEF Map!Lookup, Reply, Map!Reply
  <2>2. CASE ~Has(table, k) /\ reply' = Reply("lookup", k, Absent)
    <3>1. k \notin DOMAIN Contents(table)
      BY <1>1, <2>2, ContentsFacts
    <3> QED  BY <1>1, <2>2, <3>1 DEF Map!Lookup, Reply, Map!Reply
  <2> QED  BY <2>1, <2>2 DEF Lookup
<1> QED  BY <1>2, <1>3 DEF MapStep, Map!Next

LEMMA DeleteAbsentStep ==
  ASSUME IInv, NEW k \in Keys, DeleteAbsent(k)
  PROVE  IInv' /\ MapStep
<1>1. table' = table /\ Good(table) /\ Good(table')
  BY DEF DeleteAbsent, IInv
<1>2. IInv'
  BY <1>1, IdleStep DEF DeleteAbsent
<1>3. k \notin DOMAIN Contents(table)
  BY <1>1, ContentsFacts DEF DeleteAbsent
<1>4. Contents(table) = [x \in DOMAIN Contents(table) |-> Contents(table)[x]]
  BY DEF Contents
<1>5. Map!Without(Contents(table), k) = Contents(table)
  BY <1>3, <1>4 DEF Map!Without
<1>6. Map!Delete(k)
  BY <1>1, <1>5 DEF Map!Delete, DeleteAbsent, Reply, Map!Reply
<1> QED  BY <1>2, <1>6 DEF MapStep, Map!Next

LEMMA DeletePresentStep ==
  ASSUME IInv, NEW k \in Keys, DeletePresent(k)
  PROVE  IInv' /\ MapStep
<1>1. Good(table)
  BY DEF IInv
<1>2. PICK n \in SlotOf(table, k) :
        /\ table' = Buried(table, n)
        /\ reply' = Reply("delete", k, TRUE)
        /\ \/ NoRehash
           \/ ShouldShrink(Removed(n)) /\ RehashBegins(table.order - 1, [op |-> "delete"])
  BY DEF DeletePresent, Removed, Buried, Deleted
<1>3. Good(table') /\ Contents(table') = Map!Without(Contents(table), k)
  BY <1>1, <1>2, RemoveFacts
<1>4. Map!Delete(k)
  BY <1>2, <1>3 DEF Map!Delete, Reply, Map!Reply
<1>5. IInv'
  <2>1. CASE NoRehash
    BY <1>3, <2>1, IdleStep DEF DeletePresent
  <2>2. CASE ShouldShrink(Removed(n)) /\ RehashBegins(table.order - 1, [op |-> "delete"])
    <3>1. table.order \in 0 .. MAX_CAP_ORDER
      BY <1>1, GoodShape DEF Good
    <3>2. table.order > MIN_CAP_ORDER
      <4>1. Removed(n).order = table.order
        BY <1>1 DEF Removed, Good, IsTable
      <4> QED  BY <2>2, <4>1 DEF ShouldShrink
    <3>3. table.order - 1 \in Nat
      BY <3>1, <3>2, HmapAssumption
    <3> DEFINE j == [op |-> "delete"]
    <3>4. j \in Jobs /\ j # NoJob /\ j.op # "insert"
      BY DEF Jobs, NoJob
    <3> HIDE DEF j
    <3> QED  BY <1>3, <2>2, <3>3, <3>4, RehashBeginsFacts DEF j
  <2> QED  BY <1>2, <2>1, <2>2
<1> QED  BY <1>4, <1>5 DEF MapStep, Map!Next

(* Slots and keys are in bijection: an iteration yields each entry once. *)
LEMMA VisitStep ==
  ASSUME IInv, Visit
  PROVE  IInv' /\ MapStep
<1>1. table' = table /\ Good(table) /\ Good(table')
  BY DEF Visit, IInv
<1>2. IInv'
  BY <1>1, IdleStep DEF Visit
<1> DEFINE dict == Contents(table)
           f == [n \in UsedIn(table) |-> table.slots[n][1]]
<1>3. Entries(table) = {<<k, dict[k]>> : k \in DOMAIN dict}
  <2>1. Entries(table) = {table.slots[n] : n \in UsedIn(table)}
    BY DEF Entries, UsedIn
  <2>2. \A n \in UsedIn(table) : table.slots[n] = <<table.slots[n][1], dict[table.slots[n][1]]>>
    BY <1>1, GoodShape, ContentsFacts DEF Good
  <2>3. DOMAIN dict = {table.slots[n][1] : n \in UsedIn(table)}
    BY <1>1, ContentsFacts DEF KeysOf
  <2> HIDE DEF dict
  <2>4. ASSUME NEW n \in UsedIn(table)
        PROVE  table.slots[n] \in {<<k, dict[k]>> : k \in DOMAIN dict}
    <3>1. table.slots[n][1] \in DOMAIN dict
      BY <2>3
    <3> QED  BY <2>2, <3>1
  <2>5. ASSUME NEW k \in DOMAIN dict
        PROVE  <<k, dict[k]>> \in Entries(table)
    <3>1. PICK n \in UsedIn(table) : table.slots[n][1] = k
      BY <2>3
    <3> QED  BY <2>1, <2>2, <3>1
  <2> QED  BY <2>1, <2>4, <2>5
<1>4. Cardinality(UsedIn(table)) = Cardinality(DOMAIN dict)
  <2>1. DOMAIN dict = KeysOf(table)
    BY <1>1, ContentsFacts
  <2>2. f \in Surjection(UsedIn(table), KeysOf(table))
    BY DEF Surjection, KeysOf
  <2>3. \A m, n \in UsedIn(table) : table.slots[m][1] = table.slots[n][1] => m = n
    <3>1. \A n \in UsedIn(table) : table.slots[n][1] \in Keys
      BY <1>1, GoodShape DEF Good
    <3> QED  BY <1>1, <3>1, SlotFacts
  <2>4. f \in Injection(UsedIn(table), KeysOf(table))
    BY <2>3 DEF Injection, IsInjective, KeysOf
  <2>5. ExistsBijection(UsedIn(table), KeysOf(table))
    BY <2>2, <2>4 DEF ExistsBijection, Bijection
  <2>6. IsFiniteSet(UsedIn(table))
    BY <1>1, GoodShape DEF Good
  <2>7. Cardinality(KeysOf(table)) = Cardinality(UsedIn(table))
    BY <2>5, <2>6, FS_Bijection
  <2> QED  BY <2>1, <2>7
<1>5. Map!Visit
  <2>1. reply' = Reply("visit", Absent,
                       [entries |-> Entries(table), steps |-> Cardinality(UsedIn(table))])
    BY DEF Visit, UsedIn
  <2>2. Map!Cardinality(DOMAIN dict) = Cardinality(DOMAIN dict)
    BY DEF Cardinality, Map!Cardinality
  <2> QED  BY <1>1, <1>3, <1>4, <2>1, <2>2 DEF Map!Visit, Reply, Map!Reply
<1> QED  BY <1>2, <1>5 DEF MapStep, Map!Next

LEMMA FreeTableStep ==
  ASSUME IInv, FreeTable
  PROVE  IInv' /\ MapStep
<1>1. table' = Empty /\ Good(table') /\ Contents(table') = [x \in {} |-> Absent]
  BY EmptyFacts DEF FreeTable
<1>2. IInv'
  BY <1>1, IdleStep DEF FreeTable
<1>3. Map!Clear
  BY <1>1 DEF Map!Clear, FreeTable, Reply, Map!Reply
<1> QED  BY <1>2, <1>3 DEF MapStep, Map!Next

(* The entries of the old table that have been passed. *)
Passed == {table.slots[n] : n \in {m \in UsedIn(table) : m < pos}}

(* One slot more has been passed: its key cannot be in the new table yet.  *)
LEMMA RehashSlotStep ==
  ASSUME IInv, RehashSlot
  PROVE  IInv' /\ MapStep
<1>1. /\ Good(table) /\ Good(moving) /\ job \in Jobs /\ ~Idle
      /\ pos \in 0 .. OldCap /\ Allocated(moving) /\ Entries(moving) = Passed
      /\ job.op = "insert" => ~Has(table, job.key)
  BY DEF IInv, Moving, RehashSlot, Passed
<1>2. pos < OldCap /\ pos' = pos + 1 /\ table' = table /\ job' = job /\ reply' = reply
  BY DEF RehashSlot
<1> DEFINE s == table.slots[pos]
<1>3. table.order \in 0 .. MAX_CAP_ORDER /\ UsedIn(table) \subseteq Nat
  BY <1>1, GoodShape DEF Good
<1>4. OldCap \in Nat
  BY <1>3, ProbeFacts DEF OldCap
<1>5. pos \in Nat /\ pos' \in 0 .. OldCap
  BY <1>1, <1>2, <1>4
<1>6. Allocated(table) /\ pos \in DOMAIN table.slots
  <2>1. Allocated(table)
    BY <1>2, <1>5 DEF OldCap
  <2>2. DOMAIN table.slots = Indices(table)
    BY <1>1, <2>1, GoodShape DEF Good
  <2>3. pos \in Indices(table)
    BY <1>2, <1>3, <1>5, <2>1, ProbeFacts DEF OldCap, Indices
  <2> QED  BY <2>1, <2>2, <2>3
<1>7. \A m \in UsedIn(table) : m < pos' <=> m < pos \/ m = pos
  BY <1>2, <1>3, <1>5
<1>8. Good(moving') /\ Allocated(moving') /\ Entries(moving') = Passed'
  <2>1. CASE ~Used(s)
    <3>1. pos \notin UsedIn(table)
      BY <2>1 DEF UsedIn
    <3>2. {m \in UsedIn(table) : m < pos'} = {m \in UsedIn(table) : m < pos}
      BY <1>7, <3>1
    <3>3. Passed' = Passed
      BY <1>2, <3>2 DEF Passed
    <3>4. moving' = moving
      <4>1. (~Used(s) /\ UNCHANGED moving) \/ (Used(s) /\ InsertNew(moving, s[1], s[2], moving'))
        BY DEF RehashSlot
      <4> QED  BY <2>1, <4>1
    <3> QED  BY <1>1, <3>3, <3>4
  <2>2. CASE Used(s)
    <3>1. pos \in UsedIn(table)
      BY <1>6, <2>2 DEF UsedIn
    <3>2. s[1] \in Keys /\ s[2] \in Vals /\ s = <<s[1], s[2]>>
      BY <1>1, <3>1, GoodShape DEF Good
    <3>3. ~Has(moving, s[1])
      <4> SUFFICES ASSUME Has(moving, s[1])
                   PROVE  FALSE
        OBVIOUS
      <4>1. s[1] \in KeysOf(moving)
        BY <1>1, <3>2, ContentsFacts
      <4>2. PICK e \in Entries(moving) : e[1] = s[1]
        BY <4>1 DEF KeysOf, Entries, UsedIn
      <4>3. PICK m \in UsedIn(table) : m < pos /\ table.slots[m] = e
        BY <1>1 DEF Passed
      <4>4. m \in SlotOf(table, s[1]) /\ pos \in SlotOf(table, s[1])
        BY <1>1, <3>1, <3>2, <4>2, <4>3, SlotFacts
      <4>5. m = pos
        BY <1>1, <3>2, <4>4, SlotFacts
      <4> QED  BY <1>5, <4>3, <4>5
    <3>4. InsertNew(moving, s[1], s[2], moving')
      BY <2>2 DEF RehashSlot
    <3>5. Good(moving') /\ Allocated(moving') /\ Entries(moving') = Entries(moving) \cup {s}
      <4> HIDE DEF s
      <4> QED  BY <1>1, <3>2, <3>3, <3>4, InsertNewFacts
    <3>6. Passed' = Passed \cup {s}
      <4>1. Passed' = {table.slots[n] : n \in {m \in UsedIn(table) : m < pos'}}
        BY <1>2 DEF Passed
      <4>2. {m \in UsedIn(table) : m < pos'} = {m \in UsedIn(table) : m < pos} \cup {pos}
        BY <1>7, <3>1
      <4> QED  BY <4>1, <4>2 DEF Passed
    <3> QED  BY <1>1, <3>5, <3>6
  <2> QED  BY <2>1, <2>2
<1>9. Moving'
  <2>1. pos' \in 0 .. OldCap'
    BY <1>2, <1>5 DEF OldCap
  <2>2. job'.op = "insert" => ~Has(table', job'.key)
    BY <1>1, <1>2
  <2>3. job' # NoJob
    BY <1>1, <1>2 DEF Idle
  <2> QED  BY <1>8, <2>1, <2>2, <2>3 DEF Moving, Idle, Passed
<1>10. IInv'
  BY <1>1, <1>2, <1>8, <1>9 DEF IInv
<1> QED  BY <1>2, <1>10, Stutters

(* After the last slot both tables represent the same map. *)
LEMMA RehashedFacts ==
  ASSUME IInv, ~Idle, pos = OldCap
  PROVE  /\ Good(moving) /\ Contents(moving) = Contents(table)
         /\ job.op = "insert" => ~Has(moving, job.key)
         /\ job \in Jobs
<1>1. /\ Good(table) /\ Good(moving) /\ job \in Jobs /\ Entries(moving) = Passed
      /\ job.op = "insert" => ~Has(table, job.key)
  BY DEF IInv, Moving, Passed
<1>2. \A m \in UsedIn(table) : m < pos
  <2>1. \A m \in UsedIn(table) : Allocated(table) /\ m \in Indices(table)
    BY <1>1, GoodShape DEF Good
  <2>2. table.order \in 0 .. MAX_CAP_ORDER
    BY <1>1, GoodShape DEF Good
  <2> QED  BY <2>1, <2>2, ProbeFacts DEF OldCap, Indices
<1>3. {m \in UsedIn(table) : m < pos} = UsedIn(table)
  BY <1>2
<1>4. \A n \in UsedIn(moving) : \E m \in UsedIn(table) : moving.slots[n] = table.slots[m]
  BY <1>1, <1>3 DEF Passed, Entries, UsedIn
<1>5. \A m \in UsedIn(table) : \E n \in UsedIn(moving) : moving.slots[n] = table.slots[m]
  <2>1. ASSUME NEW m \in UsedIn(table)
        PROVE  \E n \in UsedIn(moving) : moving.slots[n] = table.slots[m]
    <3>1. table.slots[m] \in Entries(moving)
      BY <1>1, <1>3 DEF Passed
    <3> QED  BY <3>1 DEF Entries, UsedIn
  <2> QED  BY <2>1
<1>6. KeysOf(moving) = KeysOf(table)
  BY <1>4, <1>5 DEF KeysOf
<1>7. Contents(moving) = Contents(table)
  <2>1. Contents(table) = [k \in KeysOf(moving) |-> Contents(table)[k]]
    BY <1>6 DEF Contents
  <2>2. \A n \in UsedIn(moving) : Contents(table)[moving.slots[n][1]] = moving.slots[n][2]
    BY <1>1, <1>4, ContentsFacts
  <2> QED  BY <1>1, <2>1, <2>2, ContentsAre
<1>8. job.op = "insert" => ~Has(moving, job.key)
  <2> SUFFICES ASSUME job.op = "insert"
               PROVE  ~Has(moving, job.key)
    OBVIOUS
  <2>1. job.key \in Keys
    BY <1>1, InsertFacts DEF Jobs, NoJob
  <2> QED  BY <1>1, <1>6, <2>1, ContentsFacts
<1> QED  BY <1>1, <1>7, <1>8

LEMMA RehashEndsStep ==
  ASSUME IInv, RehashEnds
  PROVE  IInv' /\ MapStep
<1>1. ~Idle /\ pos = OldCap /\ moving' = Empty /\ pos' = 0 /\ job' = NoJob
  BY DEF RehashEnds
<1>2. /\ Good(moving) /\ Contents(moving) = Contents(table)
      /\ job.op = "insert" => ~Has(moving, job.key)
      /\ job \in Jobs
  BY <1>1, RehashedFacts
<1>3. Good(table') /\ MapStep
  <2>1. CASE job.op = "insert" /\ Store(moving, job.key, job.value)
    <3>1. PICK e \in Inserts : job.key = e[1] /\ job.value = e[2]
      BY <1>2, <2>1 DEF Jobs, NoJob
    <3> DEFINE k == e[1]
               v == e[2]
    <3>2. k \in Keys /\ v \in Vals
      BY InsertFacts
    <3>3. ~Has(moving, k) /\ InsertNew(moving, k, v, table')
      BY <1>2, <2>1, <3>1 DEF Store
    <3>4. Good(table') /\ Contents(table') = Map!Bind(Contents(moving), k, v)
      <4> HIDE DEF k, v
      <4> QED  BY <1>2, <3>2, <3>3, InsertNewFacts
    <3>5. Map!Insert(k, v)
      BY <1>2, <2>1, <3>1, <3>4 DEF Map!Insert, Store, Reply, Map!Reply
    <3> QED  BY <3>4, <3>5 DEF MapStep, Map!Next
  <2>2. CASE job.op = "delete" /\ table' = moving /\ UNCHANGED reply
    BY <1>2, <2>2 DEF MapStep, Map!vars
  <2> QED  BY <2>1, <2>2 DEF RehashEnds
<1>4. IInv'
  BY <1>1, <1>3, EmptyFacts DEF IInv, Moving, Idle, Jobs
<1> QED  BY <1>3, <1>4

-----------------------------------------------------------------------------
(* Triangular probing visits every slot.                                   *)

(* Every set of numbers has a least element: an induction is a proof that  *)
(* a set of counterexamples has none.                                      *)
LEMMA LeastOf ==
  ASSUME NEW T, T \subseteq Nat, T # {}
  PROVE  \E x \in T : \A y \in T : x <= y
<1>1. IsWellFoundedOn(OpToRel(<, Nat), Nat)
  BY NatLessThanWellFounded
<1>2. PICK x \in T : \A y \in T : ~ (<<y, x>> \in OpToRel(<, Nat))
  BY <1>1, WFMin
<1>3. ASSUME NEW y \in T
      PROVE  x <= y
  <2>1. y \in Nat /\ x \in Nat
    OBVIOUS
  <2>2. y < x => <<y, x>> \in OpToRel(<, Nat)
    BY <2>1, SMT DEF OpToRel
  <2>3. ~ (y < x)
    BY <1>2, <2>2, Zenon
  <2> QED  BY <2>1, <2>3
<1> QED  BY <1>2, <1>3

(* A set with one element more has twice as many subsets. *)
LEMMA PowerDoubles ==
  ASSUME NEW n \in Nat
  PROVE  2^(n + 1) = 2 * 2^n
<1> DEFINE S == 1 .. n
           x == n + 1
           A == SUBSET S
           B == {T \cup {x} : T \in SUBSET S}
           f == [T \in A |-> T \cup {x}]
<1>1. IsFiniteSet(S) /\ Cardinality(S) = n /\ x \notin S
  BY FS_Interval
<1>2. IsFiniteSet(A) /\ Cardinality(A) = 2^n /\ 2^n \in Nat
  BY <1>1, FS_SUBSET, FS_CardinalityType
<1>3. IsFiniteSet(S \cup {x}) /\ Cardinality(S \cup {x}) = n + 1
  BY <1>1, FS_AddElement
<1>4. Cardinality(SUBSET (S \cup {x})) = 2^(n + 1)
  BY <1>3, FS_SUBSET
<1> HIDE DEF S, x
<1>5. SUBSET (S \cup {x}) = A \cup B
  <2>1. ASSUME NEW T \in SUBSET (S \cup {x})
        PROVE  T \in A \cup B
    <3>1. CASE x \in T
      <4>1. T \ {x} \in SUBSET S /\ T = (T \ {x}) \cup {x}
        BY <3>1
      <4> QED  BY <4>1
    <3>2. CASE x \notin T
      BY <3>2
    <3> QED  BY <3>1, <3>2
  <2>2. ASSUME NEW T \in A \cup B
        PROVE  T \in SUBSET (S \cup {x})
    OBVIOUS
  <2> QED  BY <2>1, <2>2
<1>6. A \cap B = {}
  BY <1>1
<1>7. f \in Bijection(A, B)
  <2>1. f \in [A -> B] /\ \A T \in A : f[T] = T \cup {x}
    OBVIOUS
  <2>2. \A T, U \in A : f[T] = f[U] => T = U
    <3>1. \A T \in A : T = f[T] \ {x}
      BY <1>1, <2>1
    <3> HIDE DEF A, f
    <3> QED  BY <2>1, <3>1, Zenon
  <2>3. \A T \in B : \E U \in A : f[U] = T
    BY <2>1
  <2> HIDE DEF f, A, B
  <2> QED  BY <2>1, <2>2, <2>3 DEF Bijection, Injection, Surjection, IsInjective
<1>8. IsFiniteSet(B) /\ Cardinality(B) = 2^n
  <2>1. ExistsBijection(A, B)
    BY <1>7 DEF ExistsBijection
  <2> HIDE DEF A, B
  <2> QED  BY <1>2, <2>1, FS_Bijection
<1> HIDE DEF A, B
<1>9. Cardinality(A \cup B) = Cardinality(A) + Cardinality(B) - Cardinality(A \cap B)
  BY <1>2, <1>8, FS_Union
<1>10. Cardinality(A \cap B) = 0
  BY <1>6, FS_EmptySet
<1>11. Cardinality(A \cup B) = 2^n + 2^n - 0
  BY <1>2, <1>8, <1>9, <1>10, Zenon
<1>12. 2^(n + 1) = 2^n + 2^n - 0
  BY <1>4, <1>5, <1>11, Zenon
<1> DEFINE u == 2^n
           w == 2^(n + 1)
<1>13. u \in Nat /\ w = u + u - 0
  BY <1>2, <1>12
<1> HIDE DEF u, w
<1>14. w = 2 * u
  BY <1>13
<1> QED  BY <1>14 DEF u, w

LEMMA PowerOfZero == 2^0 = 1
<1>1. IsFiniteSet({}) /\ Cardinality({}) = 0
  BY FS_EmptySet
<1>2. Cardinality(SUBSET {}) = 2^0
  BY <1>1, FS_SUBSET
<1>3. SUBSET {} = {{}}
  OBVIOUS
<1> QED  BY <1>2, <1>3, FS_Singleton

(* An odd factor of a multiple of a power of two is of no help. *)
Cancels(p, a, b, c) == b % 2 = 1 /\ a * b = p * c => \E d \in Int : a = p * d

OddDivides(n) == \A a, b, c \in Int : Cancels(2^n, a, b, c)

LEMMA OddFactor == \A n \in Nat : OddDivides(n)
<1> DEFINE T == {n \in Nat : ~OddDivides(n)}
<1> SUFFICES ASSUME T # {}
             PROVE  FALSE
  OBVIOUS
<1>1. PICK n \in T : \A m \in T : n <= m
  <2>1. T \subseteq Nat
    OBVIOUS
  <2> HIDE DEF T
  <2> QED  BY <2>1, LeastOf
<1>2. n \in Nat /\ ~OddDivides(n)
  OBVIOUS
<1>3. OddDivides(0)
  <2>1. ASSUME NEW a \in Int
        PROVE  a = 1 * a
    OBVIOUS
  <2> QED  BY <2>1, PowerOfZero DEF OddDivides, Cancels
<1>4. n # 0
  BY <1>2, <1>3
<1>5. n - 1 \in Nat /\ OddDivides(n - 1)
  BY <1>1, <1>4
<1> DEFINE p == 2^(n - 1)
<1>6. 2^n = 2 * p /\ p \in Nat
  <2>1. (n - 1) + 1 = n
    BY <1>2
  <2> QED  BY <1>5, <2>1, PowerDoubles, PowerOfTwo
<1>8. \A a, b, c \in Int : Cancels(p, a, b, c)
  BY <1>5 DEF OddDivides
<1>7. ASSUME NEW a \in Int, NEW b \in Int, NEW c \in Int, b % 2 = 1, a * b = 2^n * c
      PROVE  \E d \in Int : a = 2^n * d
  <2> DEFINE q == b \div 2
             e == p * c - a * q
  <2> HIDE DEF p
  <2>1. q \in Int /\ b = 2 * q + 1
    BY <1>7
  <2>2. e \in Int /\ p * c \in Int /\ a * q \in Int
    BY <1>6, <2>1
  <2> HIDE DEF q
  <2>3. a * b = 2 * (a * q) + a
    BY <2>1
  <2>4. 2^n * c = 2 * (p * c)
    BY <1>6
  <2>5. a = 2 * e
    BY <1>7, <2>2, <2>3, <2>4
  <2> HIDE DEF e
  <2>6. a * b = 2 * (e * b)
    BY <2>2, <2>5
  <2>7. e * b = p * c
    <3>1. e * b \in Int
      BY <2>2
    <3> QED  BY <1>7, <2>2, <2>4, <2>6, <3>1
  <2>8. Cancels(p, e, b, c)
    BY <1>8, <2>2
  <2>10. PICK d \in Int : e = p * d
    BY <1>7, <2>7, <2>8 DEF Cancels
  <2>9. a = 2^n * d
    BY <1>6, <2>5, <2>10
  <2> QED  BY <2>9
<1> QED  BY <1>2, <1>7 DEF OddDivides, Cancels

(* Half of a product of neighbours. *)
LEMMA OffsetTwice ==
  ASSUME NEW i \in Nat
  PROVE  Offset(i) \in Nat /\ 2 * Offset(i) = i * (i + 1)
<1> DEFINE q == i \div 2
           o == i * (i + 1)
<1>1. q \in Nat /\ (i = 2 * q \/ i = 2 * q + 1)
  OBVIOUS
<1>2. \E h \in Nat : o = 2 * h
  <2>1. CASE i = 2 * q
    <3> DEFINE h == q * (i + 1)
    <3> HIDE DEF q
    <3>1. h \in Nat
      BY <1>1, SMT
    <3>2. o = 2 * h
      BY <1>1, <2>1, SMT
    <3> QED  BY <3>1, <3>2
  <2>2. CASE i = 2 * q + 1
    <3> DEFINE h == i * (q + 1)
    <3> HIDE DEF q
    <3>1. h \in Nat
      BY <1>1, SMT
    <3>2. i + 1 = 2 * (q + 1)
      BY <1>1, <2>2
    <3>3. o = i * (2 * (q + 1))
      BY <3>2
    <3>4. i * (2 * (q + 1)) = 2 * h
      BY <1>1, SMT
    <3> QED  BY <3>1, <3>3, <3>4
  <2> QED  BY <1>1, <2>1, <2>2
<1>3. PICK h \in Nat : o = 2 * h
  BY <1>2
<1> HIDE DEF o
<1>4. o \div 2 = h
  BY <1>3
<1> QED  BY <1>3, <1>4 DEF o, Offset

(* Equal remainders differ by a multiple. *)
LEMMA SameRemainder ==
  ASSUME NEW x \in Nat, NEW y \in Nat, NEW c \in Nat \ {0}, x % c = y % c
  PROVE  \E q \in Int : y - x = c * q
<1> DEFINE a == x \div c
           b == y \div c
           r == x % c
<1>1. a \in Int /\ b \in Int /\ r \in Int /\ x = c * a + r /\ y = c * b + r
  OBVIOUS
<1> HIDE DEF a, b, r
<1>2. y - x = c * (b - a)
  BY <1>1
<1>3. b - a \in Int
  BY <1>1
<1> QED  BY <1>2, <1>3

(* The first Cap many probes are all different: the product of j - i and   *)
(* i + j + 1, one of which is odd, cannot be a multiple of twice the       *)
(* capacity.                                                               *)
LEMMA ProbesDiffer ==
  ASSUME NEW n \in Nat, NEW s \in Nat, NEW i \in 0 .. 2^n - 1, NEW j \in 0 .. 2^n - 1, i < j,
         (s + Offset(i)) % 2^n = (s + Offset(j)) % 2^n
  PROVE  FALSE
<1> DEFINE c == 2^n
           x == Offset(i)
           y == Offset(j)
           a == j - i
           b == i + j + 1
<1>1. c \in Nat \ {0} /\ 2^(n + 1) = 2 * c
  BY PowerOfTwo, PowerDoubles
<1> HIDE DEF c
<1>2. i \in Nat /\ j \in Nat /\ i < c /\ j < c
  BY <1>1 DEF c
<1>3. x \in Nat /\ y \in Nat /\ 2 * x = i * (i + 1) /\ 2 * y = j * (j + 1)
  BY <1>2, OffsetTwice
<1> HIDE DEF x, y
<1>4. PICK q \in Int : (s + y) - (s + x) = c * q
  <2>1. (s + x) % c = (s + y) % c
    BY DEF c, x, y
  <2>2. s + x \in Nat /\ s + y \in Nat
    BY <1>3
  <2> HIDE DEF c
  <2> QED  BY <1>1, <2>1, <2>2, SameRemainder
<1>5. a * b = j * (j + 1) - i * (i + 1)
  BY <1>2, SMT
<1>6. a * b = (2 * c) * q
  <2>1. c * q \in Int /\ y - x = c * q
    BY <1>1, <1>3, <1>4
  <2>2. 2 * y - 2 * x = 2 * (c * q)
    BY <1>3, <2>1
  <2>3. a * b = 2 * (c * q)
    BY <1>3, <1>5, <2>2
  <2> QED  BY <1>1, <2>3
<1>7. /\ a \in Int /\ 0 < a /\ a < 2 * c
      /\ b \in Int /\ 0 < b /\ b < 2 * c
      /\ a + b = 2 * j + 1
  BY <1>1, <1>2
<1>8. ASSUME NEW z \in Int, 0 < z, z < 2 * c, NEW d \in Int, z = (2 * c) * d
      PROVE  FALSE
  <2>1. d <= 0 => (2 * c) * d <= 0
    BY <1>1, SMT
  <2>2. d >= 1 => (2 * c) * d >= 2 * c
    BY <1>1, SMT
  <2> QED  BY <1>1, <1>8, <2>1, <2>2
<1>9. OddDivides(n + 1)
  BY OddFactor
<1>10. \A u, v, w \in Int : Cancels(2 * c, u, v, w)
  BY <1>1, <1>9, Zenon DEF OddDivides
<1> HIDE DEF a, b
<1>11. CASE b % 2 = 1
  <2>1. \E d \in Int : a = (2 * c) * d
    <3>1. Cancels(2 * c, a, b, q)
      BY <1>7, <1>10
    <3> QED  BY <1>6, <1>11, <3>1 DEF Cancels
  <2> QED  BY <1>7, <1>8, <2>1
<1>12. CASE b % 2 # 1
  <2>1. a % 2 = 1
    BY <1>2, <1>7, <1>12
  <2>2. b * a = (2 * c) * q
    BY <1>6, <1>7
  <2>3. \E d \in Int : b = (2 * c) * d
    <3>1. Cancels(2 * c, b, a, q)
      BY <1>7, <1>10
    <3> QED  BY <2>1, <2>2, <3>1 DEF Cancels
  <2> QED  BY <1>7, <1>8, <2>3
<1> QED  BY <1>11, <1>12

(* So the first Cap many probes visit every slot. *)
LEMMA ProbesVisitAll ==
  ASSUME NEW t, t.order \in 0 .. MAX_CAP_ORDER, NEW k \in Keys, NEW m \in Indices(t)
  PROVE  \E i \in Indices(t) : Probe(t, k, i) = m
<1> DEFINE S == Indices(t)
           f == [i \in S |-> Probe(t, k, i)]
<1>1. S \subseteq Nat /\ IsFiniteSet(S)
  <2>1. Cap(t.order) - 1 \in Int
    BY ProbeFacts
  <2> QED  BY <2>1, IndicesNat, FS_Interval DEF Indices
<1>2. \A i \in S : Probe(t, k, i) \in S
  BY <1>1, ProbeFacts
<1>3. ASSUME NEW i \in S, NEW j \in S, i < j
      PROVE  Probe(t, k, i) # Probe(t, k, j)
  <2> SUFFICES ASSUME Probe(t, k, i) = Probe(t, k, j)
               PROVE  FALSE
    OBVIOUS
  <2>1. t.order \in Nat
    BY HmapAssumption
  <2>2. Start(t, k) \in Nat
    <3>1. /\ HASH_BITS \in Nat /\ MAX_CAP_ORDER \in Nat /\ MAX_CAP_ORDER <= HASH_BITS
          /\ HASH \in [Keys -> 0 .. 2^HASH_BITS - 1]
      BY HmapAssumption
    <3>2. HASH_BITS - t.order \in Nat
      BY <2>1, <3>1
    <3> DEFINE p == 2^(HASH_BITS - t.order)
               h == HASH[k]
    <3>3. p \in Nat \ {0} /\ 2^HASH_BITS \in Nat
      BY <3>1, <3>2, PowerOfTwo
    <3>4. h \in Nat
      BY <3>1, <3>3
    <3> HIDE DEF p, h
    <3>5. h \div p \in Nat
      BY <3>3, <3>4
    <3> QED  BY <3>5 DEF Start, p, h
  <2>3. i \in 0 .. 2^t.order - 1 /\ j \in 0 .. 2^t.order - 1
    BY DEF Indices, Cap
  <2>4. (Start(t, k) + Offset(i)) % 2^t.order = (Start(t, k) + Offset(j)) % 2^t.order
    BY DEF Probe, Cap
  <2> QED  BY <1>3, <2>1, <2>2, <2>3, <2>4, ProbesDiffer
<1>4. \A i, j \in S : Probe(t, k, i) = Probe(t, k, j) => i = j
  <2> SUFFICES ASSUME NEW i \in S, NEW j \in S, Probe(t, k, i) = Probe(t, k, j)
               PROVE  i = j
    OBVIOUS
  <2>1. i < j \/ j < i \/ i = j
    BY <1>1
  <2> QED  BY <1>3, <2>1
<1> HIDE DEF S
<1>5. f \in [S -> S] /\ \A i \in S : f[i] = Probe(t, k, i)
  BY <1>2
<1>6. f \in Injection(S, S)
  BY <1>4, <1>5 DEF Injection, IsInjective
<1> HIDE DEF f
<1>7. f \in Surjection(S, S)
  BY <1>1, <1>6, FS_Injection
<1>8. \E i \in S : f[i] = m
  BY <1>7 DEF Surjection, S
<1> QED  BY <1>5, <1>8 DEF S

(* A table that is not full has room for every key that it does not have:  *)
(* some unused slot is probed, and what ends the search before cannot be   *)
(* the key.                                                                *)
LEMMA RoomLemma ==
  ASSUME NEW t, Good(t), Allocated(t), t.size < Cap(t.order), NEW k \in Keys, ~Has(t, k)
  PROVE  RoomFor(t, k) # {}
<1>1. /\ t.order \in 0 .. MAX_CAP_ORDER /\ t.slots \in [Indices(t) -> SlotValues]
      /\ DOMAIN t.slots = Indices(t) /\ t.size = Cardinality(UsedIn(t))
  BY GoodShape DEF Good
<1>2. Indices(t) \subseteq Nat
  BY <1>1, IndicesNat
<1>3. PICK m \in Indices(t) : m \notin UsedIn(t)
  <2> SUFFICES ASSUME Indices(t) \subseteq UsedIn(t)
               PROVE  FALSE
    OBVIOUS
  <2>1. UsedIn(t) = Indices(t)
    BY <1>1 DEF UsedIn
  <2>2. Cap(t.order) \in Nat \ {0}
    BY <1>1, ProbeFacts
  <2>3. Cardinality(Indices(t)) = Cap(t.order)
    <3> DEFINE c == Cap(t.order)
    <3>1. c - 1 \in Int /\ 0 \in Int
      BY <2>2
    <3> HIDE DEF c
    <3>2. Cardinality(0 .. c - 1) = IF 0 > c - 1 THEN 0 ELSE (c - 1) - 0 + 1
      BY <3>1, FS_Interval
    <3>3. Cardinality(0 .. c - 1) = c
      BY <2>2, <3>2 DEF c
    <3> QED  BY <3>3 DEF Indices, c
  <2> QED  BY <1>1, <2>1, <2>2, <2>3
<1>4. PICK i0 \in Indices(t) : Probe(t, k, i0) = m
  BY <1>1, ProbesVisitAll
<1> DEFINE ends(i) == EndsProbe(t.slots[Probe(t, k, i)], k, TRUE)
           T == {i \in Indices(t) : ends(i)}
<1>5. ends(i0)
  <2>1. ~Used(t.slots[m])
    BY <1>1, <1>3 DEF UsedIn
  <2> QED  BY <1>4, <2>1 DEF EndsProbe, Used
<1>6. PICK i \in T : \A j \in T : i <= j
  <2>1. T \subseteq Nat /\ T # {}
    BY <1>2, <1>5
  <2> HIDE DEF T
  <2> QED  BY <2>1, LeastOf
<1>7. i \in Indices(t) /\ i \in Nat /\ ends(i)
  BY <1>2
<1>8. \A j \in 0 .. i - 1 : ~ends(j)
  <2> SUFFICES ASSUME NEW j \in 0 .. i - 1, ends(j)
               PROVE  FALSE
    OBVIOUS
  <2>1. Cap(t.order) \in Nat
    BY <1>1, ProbeFacts
  <2>2. j \in Indices(t) /\ j < i
    BY <1>7, <2>1 DEF Indices
  <2>3. j \in T
    BY <2>2
  <2>4. i <= j /\ j \in Nat
    BY <1>2, <1>6, <2>2, <2>3
  <2> QED  BY <1>7, <2>2, <2>4
<1> DEFINE n == Probe(t, k, i)
<1>9. EndsAt(t, k, TRUE, i)
  BY <1>7, <1>8 DEF EndsAt
<1>10. n \in FoundSlot(t, k, TRUE) /\ n \in Indices(t)
  BY <1>1, <1>7, <1>9, ProbeFacts DEF FoundSlot
<1>11. ~Used(t.slots[n])
  <2> SUFFICES ASSUME Used(t.slots[n])
               PROVE  FALSE
    OBVIOUS
  <2>1. t.slots[n][1] = k
    BY <1>7 DEF EndsProbe, Used
  <2>2. n \in UsedIn(t)
    BY <1>1, <1>10 DEF UsedIn
  <2> HIDE DEF n
  <2> QED  BY <2>1, <2>2, SlotFacts DEF Has
<1> QED  BY <1>10, <1>11 DEF RoomFor

-----------------------------------------------------------------------------
(* The size of the tables during a move.                                   *)

(* Different slots have different entries. *)
LEMMA EntriesCounted ==
  ASSUME NEW t, Good(t), NEW P \in SUBSET UsedIn(t)
  PROVE  Cardinality({t.slots[n] : n \in P}) = Cardinality(P)
<1> DEFINE E == {t.slots[n] : n \in P}
           f == [n \in P |-> t.slots[n]]
<1>1. \A n \in UsedIn(t) : t.slots[n][1] \in Keys
  BY GoodShape DEF Good
<1>2. \A m, n \in P : t.slots[m] = t.slots[n] => m = n
  <2> SUFFICES ASSUME NEW m \in P, NEW n \in P, t.slots[m] = t.slots[n]
               PROVE  m = n
    OBVIOUS
  <2>1. m \in SlotOf(t, t.slots[n][1]) /\ n \in SlotOf(t, t.slots[n][1])
    BY <1>1, SlotFacts
  <2> QED  BY <1>1, <2>1, SlotFacts
<1>3. IsFiniteSet(P)
  BY GoodShape, FS_Subset DEF Good
<1>4. f \in [P -> E] /\ \A n \in P : f[n] = t.slots[n]
  OBVIOUS
<1>5. \A e \in E : \E n \in P : f[n] = e
  OBVIOUS
<1> HIDE DEF E, f
<1>6. f \in Bijection(P, E)
  BY <1>2, <1>4, <1>5 DEF Bijection, Injection, Surjection, IsInjective
<1>7. ExistsBijection(P, E)
  BY <1>6 DEF ExistsBijection
<1> QED  BY <1>3, <1>7, FS_Bijection DEF E

(* The new table has as many entries as have been passed, and fewer than   *)
(* the old one as long as one is still to be moved.                        *)
LEMMA MovedCount ==
  ASSUME IInv, ~Idle
  PROVE  /\ moving.size \in Nat /\ table.size \in Nat /\ moving.size <= table.size
         /\ \A n \in UsedIn(table) : n >= pos => moving.size < table.size
<1> DEFINE P == {m \in UsedIn(table) : m < pos}
<1>1. /\ Good(table) /\ Good(moving) /\ Entries(moving) = {table.slots[n] : n \in P}
  BY DEF IInv, Moving
<1>2. /\ table.size = Cardinality(UsedIn(table)) /\ table.size \in Nat
      /\ IsFiniteSet(UsedIn(table)) /\ UsedIn(table) \subseteq Nat
      /\ moving.size = Cardinality(UsedIn(moving)) /\ moving.size \in Nat
      /\ pos \in Int
  <2>1. pos \in 0 .. OldCap
    BY DEF IInv, Moving
  <2> QED  BY <1>1, <2>1, GoodShape DEF Good
<1>3. P \in SUBSET UsedIn(table)
  OBVIOUS
<1> HIDE DEF P
<1>4. Cardinality(Entries(moving)) = Cardinality(P)
  BY <1>1, <1>3, EntriesCounted
<1>5. Cardinality(Entries(moving)) = Cardinality(UsedIn(moving))
  <2>1. Entries(moving) = {moving.slots[n] : n \in UsedIn(moving)}
    BY DEF Entries, UsedIn
  <2> QED  BY <1>1, <2>1, EntriesCounted
<1>6. Cardinality(P) <= Cardinality(UsedIn(table))
      /\ (Cardinality(UsedIn(table)) = Cardinality(P) => UsedIn(table) = P)
  BY <1>2, <1>3, FS_Subset
<1>7. ASSUME NEW n \in UsedIn(table), n >= pos
      PROVE  moving.size < table.size
  <2>1. n \notin P
    BY <1>2, <1>7 DEF P
  <2>2. Cardinality(UsedIn(table)) # Cardinality(P)
    BY <1>6, <2>1
  <2> QED  BY <1>2, <1>4, <1>5, <1>6, <2>2
<1> QED  BY <1>2, <1>4, <1>5, <1>6, <1>7

(* The order of the new table was chosen so that all entries fit. *)
CapInv == ~Idle => table.size < Cap(moving.order)

RInv == IInv /\ CapInv

(* A table of the next order has room for the entries of one that is to    *)
(* grow ...                                                                *)
LEMMA GrownCap ==
  ASSUME NEW t, Good(t)
  PROVE  t.size < Cap(NewOrder(t.order + 1))
<1>1. /\ t.order \in 0 .. MAX_CAP_ORDER /\ t.size \in Nat /\ t.size = Cardinality(UsedIn(t))
      /\ ~Allocated(t) => t = Empty
      /\ UsedIn(t) \subseteq Indices(t) /\ MIN_CAP_ORDER \in Nat /\ t.order \in Nat
  BY GoodShape, HmapAssumption DEF Good
<1>2. Cap(t.order) \in Nat \ {0} /\ Cap(t.order + 1) = 2 * Cap(t.order)
  BY <1>1, PowerOfTwo, PowerDoubles DEF Cap
<1>3. t.size <= Cap(t.order)
  <2> DEFINE c == Cap(t.order)
  <2>1. c \in Nat \ {0} /\ c - 1 \in Int /\ 0 \in Int
    BY <1>2
  <2> HIDE DEF c
  <2>2. IsFiniteSet(0 .. c - 1) /\ Cardinality(0 .. c - 1) = IF 0 > c - 1 THEN 0 ELSE (c - 1) - 0 + 1
    BY <2>1, FS_Interval
  <2>3. Cardinality(0 .. c - 1) = c
    BY <2>1, <2>2
  <2>4. UsedIn(t) \in SUBSET (0 .. c - 1)
    BY <1>1 DEF Indices, c
  <2>5. Cardinality(UsedIn(t)) <= Cardinality(0 .. c - 1)
    BY <2>2, <2>4, FS_Subset
  <2> QED  BY <1>1, <2>3, <2>5 DEF c
<1>4. CASE t.order + 1 < MIN_CAP_ORDER
  <2>1. t = Empty
    BY <1>1, <1>4 DEF Good, TableOK
  <2>2. t.size = 0
    BY <2>1 DEF Empty
  <2>3. Cap(MIN_CAP_ORDER) \in Nat \ {0}
    BY <1>1, PowerOfTwo DEF Cap
  <2> QED  BY <1>4, <2>2, <2>3 DEF NewOrder
<1>5. CASE ~(t.order + 1 < MIN_CAP_ORDER)
  <2>1. NewOrder(t.order + 1) = t.order + 1
    BY <1>5 DEF NewOrder
  <2> QED  BY <1>1, <1>2, <1>3, <2>1
<1> QED  BY <1>4, <1>5

(* ... and one of the previous order for those of one that is to shrink.   *)
LEMMA ShrunkCap ==
  ASSUME NEW t, t.order \in Nat, t.size \in Nat, ShouldShrink(t)
  PROVE  t.size < Cap(NewOrder(t.order - 1))
<1>1. MIN_CAP_ORDER \in Nat /\ t.order > MIN_CAP_ORDER /\ t.size * 8 <= Cap(t.order)
  BY HmapAssumption DEF ShouldShrink
<1> DEFINE o == t.order - 1
<1>2. o \in Nat /\ o + 1 = t.order /\ ~(o < MIN_CAP_ORDER)
  BY <1>1
<1> HIDE DEF o
<1>3. NewOrder(o) = o
  BY <1>2 DEF NewOrder
<1>4. Cap(o) \in Nat \ {0} /\ Cap(o + 1) = 2 * Cap(o)
  BY <1>2, PowerOfTwo, PowerDoubles DEF Cap
<1>5. t.size < Cap(o)
  BY <1>1, <1>2, <1>4
<1> QED  BY <1>3, <1>5 DEF o

LEMMA CapInitially == Init => CapInv
BY DEF Init, CapInv, Idle

LEMMA CapStep == RInv /\ [Next]_vars => CapInv'
<1> SUFFICES ASSUME RInv, [Next]_vars
             PROVE  CapInv'
  OBVIOUS
<1>1. IInv /\ Good(table) /\ Good(moving)
  BY DEF RInv, IInv
<1>2. CASE Idle /\ NoRehash
  BY <1>2 DEF CapInv, Idle, NoRehash
<1>3. ASSUME NEW e \in Inserts, InsertGrows(e[1], e[2])
      PROVE  CapInv'
  <2>1. table' = table /\ moving'.order = NewOrder(table.order + 1)
    BY <1>3 DEF InsertGrows, RehashBegins
  <2> QED  BY <1>1, <2>1, GrownCap DEF CapInv
<1>4. ASSUME NEW k \in Keys, DeletePresent(k)
      PROVE  CapInv'
  <2>1. PICK n \in SlotOf(table, k) :
          /\ table' = Removed(n)
          /\ NoRehash \/ (ShouldShrink(Removed(n)) /\ RehashBegins(table.order - 1, [op |-> "delete"]))
    BY <1>4 DEF DeletePresent
  <2>2. CASE NoRehash
    BY <1>2, <1>4, <2>2 DEF DeletePresent
  <2>3. CASE ShouldShrink(Removed(n)) /\ RehashBegins(table.order - 1, [op |-> "delete"])
    <3>1. Good(table')
      <4>1. IInv'
        BY <1>1, <1>4, DeletePresentStep
      <4> QED  BY <4>1 DEF IInv
    <3>2. table'.order = table.order
      BY <1>1, <2>1 DEF Removed, Good, IsTable
    <3>3. table'.order \in Nat /\ table'.size \in Nat
      BY <3>1, GoodShape, HmapAssumption DEF Good
    <3>4. ShouldShrink(table')
      BY <2>1, <2>3
    <3>5. moving'.order = NewOrder(table'.order - 1)
      BY <2>3, <3>2 DEF RehashBegins
    <3>6. table'.size < Cap(NewOrder(table'.order - 1))
      BY <3>3, <3>4, ShrunkCap
    <3> QED  BY <3>5, <3>6 DEF CapInv
  <2> QED  BY <2>1, <2>2, <2>3
<1>5. CASE RehashSlot
  <2>1. table' = table /\ ~Idle
    BY <1>5 DEF RehashSlot
  <2>2. moving'.order = moving.order
    <3>1. ASSUME NEW k, NEW v, InsertNew(moving, k, v, moving')
          PROVE  moving'.order = moving.order
      BY <1>1, <3>1 DEF InsertNew, Good, IsTable
    <3> QED  BY <1>5, <3>1 DEF RehashSlot
  <2>3. Cap(moving.order)' = Cap(moving.order)
    BY <2>2 DEF Cap
  <2>4. table.size < Cap(moving.order)
    BY <2>1 DEF RInv, CapInv
  <2> QED  BY <2>1, <2>3, <2>4 DEF CapInv
<1>6. CASE RehashEnds
  BY <1>6 DEF RehashEnds, CapInv, Idle
<1>7. CASE UNCHANGED vars
  BY <1>7 DEF RInv, CapInv, Idle, vars
<1> QED
  BY <1>2, <1>3, <1>4, <1>5, <1>6, <1>7
  DEF Next, InsertExisting, InsertAbsent, InsertCannotGrow, Lookup, DeleteAbsent, Visit, FreeTable

(* Whenever an entry is about to be stored there is a slot for it. *)
LEMMA RoomThere == RInv => RoomFound
<1> SUFFICES ASSUME RInv
             PROVE  RoomFound
  OBVIOUS
<1>1. IInv /\ Good(table) /\ Good(moving)
  BY DEF RInv, IInv
<1>2. ASSUME Idle, NEW k \in Keys, ~Has(table, k), ~ShouldGrow(table)
      PROVE  RoomFor(table, k) # {}
  <2>1. Allocated(table) /\ ~(table.size * 5 >= Cap(table.order) * 4)
    BY <1>2 DEF ShouldGrow
  <2>2. table.size \in Nat /\ Cap(table.order) \in Nat
    BY <1>1, GoodShape, ProbeFacts DEF Good
  <2>3. table.size < Cap(table.order)
    BY <2>1, <2>2
  <2> QED  BY <1>1, <1>2, <2>1, <2>3, RoomLemma
<1>3. ASSUME ~Idle
      PROVE  /\ \A n \in UsedIn(table) : n >= pos => RoomFor(moving, table.slots[n][1]) # {}
             /\ job.op = "insert" => RoomFor(moving, job.key) # {}
  <2>1. /\ Allocated(moving) /\ pos \in Int
        /\ Entries(moving) = {table.slots[n] : n \in {m \in UsedIn(table) : m < pos}}
        /\ job.op = "insert" => ~Has(table, job.key)
    BY <1>1, <1>3 DEF IInv, Moving
  <2>2. table.size < Cap(moving.order)
    BY <1>3 DEF RInv, CapInv
  <2>3. /\ moving.size \in Nat /\ table.size \in Nat /\ moving.size <= table.size
        /\ Cap(moving.order) \in Nat /\ moving.size < Cap(moving.order)
    <3>1. moving.size \in Nat /\ table.size \in Nat /\ moving.size <= table.size
      BY <1>1, <1>3, MovedCount
    <3>2. Cap(moving.order) \in Nat
      BY <1>1, GoodShape, ProbeFacts DEF Good
    <3> QED  BY <2>2, <3>1, <3>2
  <2>4. ASSUME NEW k \in Keys, Has(moving, k)
        PROVE  \E m \in UsedIn(table) : m < pos /\ table.slots[m][1] = k
    <3>1. k \in KeysOf(moving)
      BY <1>1, <2>4, ContentsFacts
    <3>2. PICK e \in Entries(moving) : e[1] = k
      BY <3>1 DEF KeysOf, Entries, UsedIn
    <3> QED  BY <2>1, <3>2
  <2>5. ASSUME NEW n \in UsedIn(table), n >= pos
        PROVE  RoomFor(moving, table.slots[n][1]) # {}
    <3> DEFINE k == table.slots[n][1]
    <3>1. k \in Keys
      BY <1>1, GoodShape DEF Good
    <3>2. ~Has(moving, k)
      <4> SUFFICES ASSUME Has(moving, k)
                   PROVE  FALSE
        OBVIOUS
      <4>1. PICK m \in UsedIn(table) : m < pos /\ table.slots[m][1] = k
        BY <2>4, <3>1
      <4>2. m = n
        BY <1>1, <3>1, <4>1, SlotFacts
      <4>3. n \in Int
        BY <1>1, GoodShape DEF Good
      <4> QED  BY <2>1, <2>5, <4>1, <4>2, <4>3
    <3> HIDE DEF k
    <3>3. RoomFor(moving, k) # {}
      BY <1>1, <2>1, <2>3, <3>1, <3>2, RoomLemma
    <3> QED  BY <3>3 DEF k
  <2>6. ASSUME job.op = "insert"
        PROVE  RoomFor(moving, job.key) # {}
    <3>1. job.key \in Keys
      BY <1>1, <2>6, InsertFacts DEF IInv, Jobs, NoJob
    <3>2. ~Has(moving, job.key)
      <4> SUFFICES ASSUME Has(moving, job.key)
                   PROVE  FALSE
        OBVIOUS
      <4>1. PICK m \in UsedIn(table) : table.slots[m][1] = job.key
        BY <2>4, <3>1
      <4>2. m \in SlotOf(table, job.key)
        BY <1>1, <3>1, <4>1, SlotFacts
      <4> QED  BY <2>1, <2>6, <4>2 DEF Has
    <3> QED  BY <1>1, <2>1, <2>3, <3>1, <3>2, RoomLemma
  <2> QED  BY <2>5, <2>6
<1> QED  BY <1>2, <1>3 DEF RoomFound

-----------------------------------------------------------------------------
(* The theorems.                                                           *)

LEMMA InitFacts == Init => IInv /\ Map!Init
<1> SUFFICES ASSUME Init
             PROVE  IInv /\ Map!Init
  OBVIOUS
<1>1. IInv
  BY EmptyFacts DEF Init, IInv, Moving, Idle, Jobs
<1>2. Map!Init
  BY EmptyFacts DEF Init, Map!Init, Reply, Map!Reply
<1> QED  BY <1>1, <1>2

LEMMA StepFacts == IInv /\ [Next]_vars => IInv' /\ [Map!Next]_(Map!vars)
<1> SUFFICES ASSUME IInv, [Next]_vars
             PROVE  IInv' /\ MapStep
  BY DEF MapStep
<1>1. ASSUME NEW e \in Inserts, InsertExisting(e[1], e[2])
      PROVE  IInv' /\ MapStep
  BY <1>1, InsertExistingStep
<1>2. ASSUME NEW e \in Inserts, InsertAbsent(e[1], e[2])
      PROVE  IInv' /\ MapStep
  BY <1>2, InsertAbsentStep
<1>3. ASSUME NEW e \in Inserts, InsertGrows(e[1], e[2])
      PROVE  IInv' /\ MapStep
  BY <1>3, InsertGrowsStep
<1>4. ASSUME NEW k \in Keys, InsertCannotGrow(k)
      PROVE  IInv' /\ MapStep
  BY <1>4, InsertCannotGrowStep
<1>5. ASSUME NEW k \in Keys, Lookup(k)
      PROVE  IInv' /\ MapStep
  BY <1>5, LookupStep
<1>6. ASSUME NEW k \in Keys, DeleteAbsent(k)
      PROVE  IInv' /\ MapStep
  BY <1>6, DeleteAbsentStep
<1>7. ASSUME NEW k \in Keys, DeletePresent(k)
      PROVE  IInv' /\ MapStep
  BY <1>7, DeletePresentStep
<1>8. CASE Visit
  BY <1>8, VisitStep
<1>9. CASE RehashSlot
  BY <1>9, RehashSlotStep
<1>10. CASE RehashEnds
  BY <1>10, RehashEndsStep
<1>11. CASE FreeTable
  BY <1>11, FreeTableStep
<1>12. CASE UNCHANGED vars
  <2>1. IInv'
    BY <1>12 DEF vars, IInv, Moving, Idle, OldCap
  <2> QED  BY <1>12, <2>1, Stutters DEF vars
<1> QED
  BY <1>1, <1>2, <1>3, <1>4, <1>5, <1>6, <1>7, <1>8, <1>9, <1>10, <1>11, <1>12 DEF Next

(* Both tables are well formed at all times, in the middle of a move too,  *)
(* and their size is the number of their entries.                          *)
THEOREM TypeCorrect == Spec => []TypeOK
<1>1. IInv => TypeOK
  <2> SUFFICES ASSUME IInv
               PROVE  TypeOK
    OBVIOUS
  <2>1. TableOK(table) /\ TableOK(moving)
    BY DEF IInv, Good
  <2>2. job = NoJob \/ job.op \in {"insert", "delete"}
    BY DEF IInv, Jobs
  <2>3. Cap(table.order) \in Nat
    BY <2>1, ProbeFacts DEF TableOK
  <2>4. pos \in 0 .. Cap(table.order)
    BY <2>3 DEF IInv, Moving, OldCap
  <2> QED  BY <2>1, <2>2, <2>4 DEF TypeOK
<1> QED  BY <1>1, InitFacts, StepFacts, PTL DEF Spec

(* Every entry of both tables is the one that hmap_find_slot finds for its *)
(* key: no key is stored twice or lost behind a tombstone.                 *)
THEOREM EntriesAreFound == Spec => []Findable
<1>1. IInv => Findable
  BY DEF IInv, Good, EachFound, Findable
<1> QED  BY <1>1, InitFacts, StepFacts, PTL DEF Spec

(* The CHECKs of hmap_insert_new hold: triangular probing meets a slot for *)
(* every entry that is about to be stored, in a table full of tombstones   *)
(* and in one that hmap_rehash is filling, for every hash function.        *)
THEOREM ThereIsRoom == Spec => []RoomFound
<1>1. Init => RInv
  BY InitFacts, CapInitially DEF RInv
<1>2. RInv /\ [Next]_vars => RInv'
  BY StepFacts, CapStep DEF RInv
<1> QED  BY <1>1, <1>2, RoomThere, PTL DEF Spec

(* The hash map of util/hmap.c implements the map of util/hmap.h.          *)
THEOREM HmapImplementsMap == Spec => ImplementsMap
BY InitFacts, StepFacts, PTL DEF Spec, ImplementsMap, Map!Spec

=============================================================================
