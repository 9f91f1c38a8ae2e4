-------------------------------- MODULE Hmap --------------------------------
(***************************************************************************)
(* util/hmap.c: the open-addressing hash map of the code generator.  Slots *)
(* are free, used or tombstones; a key is sought along triangular probes   *)
(* from its hash until it or a free slot is met.  Inserting into a table   *)
(* that is 4/5 full first moves all entries to one of twice the capacity;  *)
(* deleting from one that is 1/8 full moves them to one of half of it.     *)
(* Moving is a loop over the old slots: one step per slot.                 *)
(*                                                                         *)
(* HASH[k] stands for the 64 bits of key * GOLDEN_RATIO_64, of which the   *)
(* code uses the leading cap_order ones.  A tombstone's key and value are  *)
(* never read and not kept.                                                *)
(*                                                                         *)
(* An operator X_Y next to X is X with a fault; nothing here uses it.      *)
(***************************************************************************)
EXTENDS Integers, FiniteSets

CONSTANTS
  Keys, Vals, Absent,
  Inserts,        (* the keys with the values that are stored under them    *)
  HASH_BITS,      (* 64 in the code                                         *)
  HASH,           (* the multiplicative hash of each key                    *)
  MIN_CAP_ORDER, MAX_CAP_ORDER,
  Free, Tombstone (* slots that hold no entry; a used one is <<key, value>> *)

ASSUME HmapAssumption ==
  /\ MIN_CAP_ORDER \in Nat /\ MAX_CAP_ORDER \in Nat /\ HASH_BITS \in Nat
  /\ MIN_CAP_ORDER <= MAX_CAP_ORDER /\ MAX_CAP_ORDER <= HASH_BITS
  /\ HASH \in [Keys -> 0 .. 2^HASH_BITS - 1]
  /\ Free \notin Keys \X Vals /\ Tombstone \notin Keys \X Vals
  /\ Free # Tombstone
  /\ Inserts \subseteq Keys \X Vals
  /\ Absent \notin Vals

VARIABLES
  table,   (* the hmap_t                                                    *)
  moving,  (* new_table of a running hmap_rehash                            *)
  pos,     (* its loop counter over the old slots                           *)
  job,     (* the operation that called hmap_rehash, "none" outside of it   *)
  reply    (* the last completed operation and what it returned             *)

vars == <<table, moving, pos, job, reply>>

NullSlots == <<>>

(* HMAP_INIT *)
Empty == [order |-> 0, size |-> 0, slots |-> NullSlots]

Allocated(t) == t.slots # NullSlots

Cap(order) == 2^order

(* hmap_capacity and hmap_get_probe_slot *)
Indices(t) == 0 .. Cap(t.order) - 1

Start(t, k) == HASH[k] \div 2^(HASH_BITS - t.order)

Offset_Square(i) == i * i

Offset(i) == (i * (i + 1)) \div 2

Probe(t, k, i) == (Start(t, k) + Offset(i)) % Cap(t.order)

Used(s) == s # Free /\ s # Tombstone

Entries(t) == {t.slots[n] : n \in {m \in DOMAIN t.slots : Used(t.slots[m])}}

-----------------------------------------------------------------------------

(* What ends the loop of hmap_find_slot ... *)
EndsProbe(s, k, find_free) ==
  \/ Used(s) /\ s[1] = k
  \/ s = Free
  \/ s = Tombstone /\ find_free

(* ... after i probes. *)
EndsAt(t, k, find_free, i) ==
  /\ EndsProbe(t.slots[Probe(t, k, i)], k, find_free)
  /\ \A j \in 0 .. i - 1 : ~EndsProbe(t.slots[Probe(t, k, j)], k, find_free)

(* The slot it ends at, or none. *)
FoundSlot(t, k, find_free) ==
  IF Allocated(t)
  THEN {Probe(t, k, i) : i \in {j \in Indices(t) : EndsAt(t, k, find_free, j)}}
  ELSE {}

(* The slot that holds k, and the one for a new entry with key k. *)
SlotOf(t, k) == {n \in FoundSlot(t, k, FALSE) : Used(t.slots[n])}

RoomFor(t, k) == {n \in FoundSlot(t, k, TRUE) : ~Used(t.slots[n])}

Has(t, k) == SlotOf(t, k) # {}

(* hmap_insert_new turns t into u.  Its two CHECKs ask for such a slot;     *)
(* RoomFound below says that there always is one.                          *)
InsertNew_SizeKept(t, k, v, u) ==
  \E n \in RoomFor(t, k) :
    u = [t EXCEPT !.slots = [@ EXCEPT ![n] = <<k, v>>]]

InsertNew(t, k, v, u) ==
  \E n \in RoomFor(t, k) :
    u = [t EXCEPT !.slots = [@ EXCEPT ![n] = <<k, v>>], !.size = @ + 1]

(* MAX_LOAD_FACTOR and MIN_LOAD_FACTOR *)
ShouldGrow(t) == ~Allocated(t) \/ t.size * 5 >= Cap(t.order) * 4

ShouldShrink(t) == t.order > MIN_CAP_ORDER /\ t.size * 8 <= Cap(t.order)

-----------------------------------------------------------------------------

Reply(op, k, r) == [op |-> op, key |-> k, result |-> r]

NoJob == [op |-> "none"]

Init ==
  /\ table = Empty
  /\ moving = Empty
  /\ pos = 0
  /\ job = NoJob
  /\ reply = Reply("none", Absent, Absent)

Idle == job = NoJob

NoRehash == UNCHANGED <<moving, pos, job>>

(* hmap_rehash up to its loop; it is not entered when the order exceeds    *)
(* the maximum or the allocation fails.                                    *)
NewOrder(order) == IF order < MIN_CAP_ORDER THEN MIN_CAP_ORDER ELSE order

RehashBegins(order, j) ==
  /\ NewOrder(order) <= MAX_CAP_ORDER
  /\ moving' = [order |-> NewOrder(order), size |-> 0,
                slots |-> [n \in 0 .. Cap(NewOrder(order)) - 1 |-> Free]]
  /\ pos' = 0
  /\ job' = j

(* hmap_insert: an existing key gets the new value in place. *)
InsertExisting(k, v) ==
  /\ Idle
  /\ \E n \in SlotOf(table, k) :
       table' = [table EXCEPT !.slots = [@ EXCEPT ![n] = <<k, v>>]]
  /\ reply' = Reply("insert", k, TRUE)
  /\ NoRehash

(* The end of hmap_insert: hmap_insert_new on the table t. *)
Store(t, k, v) ==
  /\ InsertNew(t, k, v, table')
  /\ reply' = Reply("insert", k, TRUE)

InsertAbsent(k, v) ==
  /\ Idle
  /\ ~Has(table, k)
  /\ ~ShouldGrow(table)
  /\ Store(table, k, v)
  /\ NoRehash

InsertGrows(k, v) ==
  /\ Idle
  /\ ~Has(table, k)
  /\ ShouldGrow(table)
  /\ RehashBegins(table.order + 1, [op |-> "insert", key |-> k, value |-> v])
  /\ UNCHANGED <<table, reply>>

(* The order would exceed the maximum, or there is no memory. *)
InsertCannotGrow(k) ==
  /\ Idle
  /\ ~Has(table, k)
  /\ ShouldGrow(table)
  /\ reply' = Reply("insert", k, FALSE)
  /\ NoRehash /\ UNCHANGED table

Lookup(k) ==
  /\ Idle
  /\ \/ \E n \in SlotOf(table, k) : reply' = Reply("lookup", k, table.slots[n][2])
     \/ /\ ~Has(table, k)
        /\ reply' = Reply("lookup", k, Absent)
  /\ NoRehash /\ UNCHANGED table

(* What hmap_delete leaves in the slot. *)
Deleted_Free == Free

Deleted == Tombstone

Removed(n) ==
  [table EXCEPT !.slots = [@ EXCEPT ![n] = Deleted], !.size = @ - 1]

DeleteAbsent(k) ==
  /\ Idle
  /\ ~Has(table, k)
  /\ reply' = Reply("delete", k, TRUE)
  /\ NoRehash /\ UNCHANGED table

(* Shrinking is best effort: the oversized table stays if it fails. *)
DeletePresent(k) ==
  /\ Idle
  /\ \E n \in SlotOf(table, k) :
       /\ table' = Removed(n)
       /\ reply' = Reply("delete", k, TRUE)
       /\ \/ NoRehash
          \/ /\ ShouldShrink(Removed(n))
             /\ RehashBegins(table.order - 1, [op |-> "delete"])

(* hmap_iter, and hmap_iter_next until it returns false. *)
Visit ==
  /\ Idle
  /\ reply' = Reply("visit", Absent,
        [entries |-> Entries(table),
         steps   |-> Cardinality({n \in DOMAIN table.slots : Used(table.slots[n])})])
  /\ NoRehash /\ UNCHANGED table

(* The bound of the loop of hmap_rehash; HMAP_INIT has no slots to move. *)
OldCap_LastMissed == IF Allocated(table) THEN Cap(table.order) - 1 ELSE 0

OldCap == IF Allocated(table) THEN Cap(table.order) ELSE 0

(* One iteration of it. *)
RehashSlot ==
  /\ ~Idle
  /\ pos < OldCap
  /\ LET s == table.slots[pos] IN
       \/ ~Used(s) /\ UNCHANGED moving
       \/ Used(s) /\ InsertNew(moving, s[1], s[2], moving')
  /\ pos' = pos + 1
  /\ UNCHANGED <<table, job, reply>>

(* The new table replaces the old one, and a waiting insert goes on. *)
RehashEnds ==
  /\ ~Idle
  /\ pos = OldCap
  /\ \/ job.op = "insert" /\ Store(moving, job.key, job.value)
     \/ job.op = "delete" /\ table' = moving /\ UNCHANGED reply
  /\ moving' = Empty /\ pos' = 0 /\ job' = NoJob

(* hmap_free *)
FreeTable ==
  /\ Idle
  /\ table' = Empty
  /\ reply' = Reply("free", Absent, TRUE)
  /\ NoRehash

Next ==
  \/ \E e \in Inserts :
       \/ InsertExisting(e[1], e[2])
       \/ InsertAbsent(e[1], e[2])
       \/ InsertGrows(e[1], e[2])
  \/ \E k \in Keys :
       InsertCannotGrow(k) \/ Lookup(k) \/ DeleteAbsent(k) \/ DeletePresent(k)
  \/ Visit \/ RehashSlot \/ RehashEnds \/ FreeTable

Spec == Init /\ [][Next]_vars

-----------------------------------------------------------------------------

UsedIn(t) == {n \in DOMAIN t.slots : Used(t.slots[n])}

TableOK(t) ==
  /\ t.order \in 0 .. MAX_CAP_ORDER
  /\ \/ t = Empty
     \/ /\ t.order >= MIN_CAP_ORDER
        /\ t.slots \in [Indices(t) -> (Keys \X Vals) \cup {Free, Tombstone}]
  /\ t.size = Cardinality(UsedIn(t))

(* The shape of both tables; their size, on which growing and shrinking    *)
(* rely, is the number of entries.                                         *)
TypeOK ==
  /\ TableOK(table)
  /\ TableOK(moving)
  /\ pos \in 0 .. Cap(table.order)
  /\ job = NoJob \/ job.op \in {"insert", "delete"}

(* Every entry is what a lookup of its key finds: no insertion after a     *)
(* deletion stores a key a second time behind a tombstone, and no deletion *)
(* or move cuts the probe sequence of another key.                         *)
Findable ==
  \A t \in {table, moving} : \A n \in UsedIn(t) : n \in SlotOf(t, t.slots[n][1])

(* The CHECKs of hmap_insert_new never fail: whenever an entry is about to *)
(* be stored, triangular probing meets a slot for it, in an old table full *)
(* of tombstones as well as in a new one that is being filled.             *)
RoomFound ==
  /\ Idle => \A k \in Keys : Has(table, k) \/ ShouldGrow(table) \/ RoomFor(table, k) # {}
  /\ ~Idle =>
       /\ \A n \in UsedIn(table) : n >= pos => RoomFor(moving, table.slots[n][1]) # {}
       /\ job.op = "insert" => RoomFor(moving, job.key) # {}

(* The map that a table represents. *)
KeysOf(t) == {t.slots[n][1] : n \in UsedIn(t)}
Contents(t) ==
  [k \in KeysOf(t) |-> t.slots[CHOOSE n \in UsedIn(t) : t.slots[n][1] = k][2]]

Map == INSTANCE AbstractMap WITH dict <- Contents(table)

(* The hash map implements the map: probing, tombstones, growing and       *)
(* shrinking never show, a failed insertion changes nothing, and an update *)
(* of a key that is present does not fail.                                 *)
ImplementsMap == Map!Spec

=============================================================================
