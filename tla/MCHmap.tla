------------------------------- MODULE MCHmap -------------------------------
(* An instance of Hmap for TLC: five keys over tables of two to eight slots. *)
EXTENDS Hmap, TLC

CONSTANTS k1, k2, k3, k4, k5, v1, v2

(* Three hash bits.  k1 and k2 collide in every table, at its last slot;   *)
(* k3 joins them in the small tables; k4 and k5 start where their probe    *)
(* sequences continue.                                                     *)
MCHash == (k1 :> 7) @@ (k2 :> 7) @@ (k3 :> 6) @@ (k4 :> 0) @@ (k5 :> 2)

(* One key is updated with another value. *)
MCInserts == (Keys \X {v1}) \cup {<<k1, v2>>}

=============================================================================
