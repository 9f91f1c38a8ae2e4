----------------------------- MODULE AbstractMap -----------------------------
(***************************************************************************)
(* What util/hmap.h promises its users: a finite map from keys to values.  *)
(* Every operation takes effect at once.  Storing under a new key may fail *)
(* (no memory, or the table would grow past its limit) and then changes    *)
(* nothing; storing under a key that is there, looking up, deleting and    *)
(* visiting never fail.                                                    *)
(***************************************************************************)
EXTENDS Naturals, FiniteSets

CONSTANTS
  Keys,   (* the 64-bit keys in use: spidir ids of functions and globals    *)
  Vals,   (* the values stored                                              *)
  Inserts, (* the pairs of them that are stored                             *)
  Absent  (* hmap_lookup returns false                                      *)

VARIABLES
  dict,   (* the map: a function from the keys present to their values      *)
  reply   (* the last completed operation and what it returned              *)

vars == <<dict, reply>>

Reply(op, k, r) == [op |-> op, key |-> k, result |-> r]

(* The map with k bound to v, and without k. *)
Bind(f, k, v) == [x \in DOMAIN f \cup {k} |-> IF x = k THEN v ELSE f[x]]
Without(f, k) == [x \in DOMAIN f \ {k} |-> f[x]]

Init ==
  /\ dict = [x \in {} |-> Absent]
  /\ reply = Reply("none", Absent, Absent)

Insert(k, v) ==
  /\ dict' = Bind(dict, k, v)
  /\ reply' = Reply("insert", k, TRUE)

InsertFails(k) ==
  /\ k \notin DOMAIN dict
  /\ reply' = Reply("insert", k, FALSE)
  /\ UNCHANGED dict

Lookup(k) ==
  /\ reply' = Reply("lookup", k, IF k \in DOMAIN dict THEN dict[k] ELSE Absent)
  /\ UNCHANGED dict

Delete(k) ==
  /\ dict' = Without(dict, k)
  /\ reply' = Reply("delete", k, TRUE)

(* An iteration yields every entry, and each of them once. *)
Visit ==
  /\ reply' = Reply("visit", Absent,
                    [entries |-> {<<k, dict[k]>> : k \in DOMAIN dict},
                     steps   |-> Cardinality(DOMAIN dict)])
  /\ UNCHANGED dict

Clear ==
  /\ dict' = [x \in {} |-> Absent]
  /\ reply' = Reply("free", Absent, TRUE)

Next ==
  \/ \E e \in Inserts : Insert(e[1], e[2])
  \/ \E k \in Keys : InsertFails(k) \/ Lookup(k) \/ Delete(k)
  \/ Visit \/ Clear

Spec == Init /\ [][Next]_vars

=============================================================================
