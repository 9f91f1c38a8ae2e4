---------------------------- MODULE LinearMemory ----------------------------
(***************************************************************************)
(* The linear memory of a running module instance as host/runtime.c keeps  *)
(* it: a reserved address range of which a prefix is committed, a size     *)
(* that memory.size reads without a lock, and memory.grow, which takes the *)
(* grow lock only when the memory is declared shared, loads the size, maps *)
(* the new range, publishes the new size and unlocks.  Every separately    *)
(* visible access of a grow is an action, so grows, size reads and guest   *)
(* stores of different threads interleave as they do in the process.       *)
(*                                                                         *)
(* Sizes are counted in wasm pages.  The C code computes in size_t (64     *)
(* bits): old_count is at most 2^17 and new_page_count below 2^31, so the  *)
(* products stay below 2^48 and no sum wraps.                              *)
(*                                                                         *)
(* An operator X_Y next to X is X with a fault; nothing here uses it.      *)
(***************************************************************************)
EXTENDS Integers

CONSTANTS
  Threads,     (* OS threads that may run guest code in this process        *)
  MainThread,  (* the thread that runs _start                               *)
  NoOne,       (* the grow lock is free; the page was granted to nobody     *)
  Shared,      (* module->memory.shared                                     *)
  MinPages,    (* module->memory.min, in pages                              *)
  MaxPages,    (* module->memory.max, in pages                              *)
  Deltas       (* the page counts guests pass to memory.grow                *)

ASSUME MemoryAssumption ==
  /\ MainThread \in Threads
  /\ NoOne \notin Threads
  /\ Shared \in BOOLEAN
  /\ MinPages \in Nat /\ MaxPages \in Nat /\ MinPages <= MaxPages
  /\ Deltas \subseteq Int

VARIABLES
  size,       (* m_memory_size                                              *)
  committed,  (* pages mapped PROT_READ | PROT_WRITE                        *)
  data,       (* "zero" as mapped, "guest" once the guest has stored there  *)
  lock,       (* the holder of m_memory_grow_lock                           *)
  live,       (* threads that have been started                             *)
  pc,         (* where each thread is inside wasm_host_memory_grow          *)
  delta,      (* new_page_count of the current or last call                 *)
  old,        (* old_count of the current or last call                      *)
  ret,        (* the value the current or last call returns                 *)
  seen,       (* the largest size the guest code of the thread relies on    *)
  grantee     (* history: the thread whose grow returned the page           *)

vars == <<size, committed, data, lock, live, pc, delta, old, ret, seen, grantee>>

Pages == 0 .. MaxPages - 1

PCs == {"idle", "lock", "load", "map", "store", "unlock"}

(* The pages a successful grow of t adds. *)
Added(t) == old[t] .. old[t] + delta[t] - 1

-----------------------------------------------------------------------------

(* runtime_init has reserved the range and committed memory.min. *)
Init ==
  /\ size = MinPages
  /\ committed = 0 .. MinPages - 1
  /\ data = [p \in Pages |-> "zero"]
  /\ lock = NoOne
  /\ live = {MainThread}
  /\ pc = [t \in Threads |-> "idle"]
  /\ delta = [t \in Threads |-> 0]
  /\ old = [t \in Threads |-> 0]
  /\ ret = [t \in Threads |-> -1]
  /\ seen = [t \in Threads |-> 0]
  /\ grantee = [p \in Pages |-> NoOne]

Goto(t, label) == pc' = [pc EXCEPT ![t] = label]

(* Guest code of t runs: it is started and not inside a host call. *)
InGuest(t) == t \in live /\ pc[t] = "idle"

(* wasi_spawn_thread starts u over the same memory.  Nothing on this path  *)
(* looks at module->memory.shared.                                         *)
SpawnThread(t, u) ==
  /\ InGuest(t)
  /\ u \notin live
  /\ live' = live \cup {u}
  /\ UNCHANGED <<size, committed, data, lock, pc, delta, old, ret, seen, grantee>>

(* memory.size: an acquire load, no lock. *)
MemorySize(t) ==
  /\ InGuest(t)
  /\ seen' = [seen EXCEPT ![t] = size]
  /\ UNCHANGED <<size, committed, data, lock, live, pc, delta, old, ret, grantee>>

(* Guest code stores into a page that its last memory.size covered. *)
GuestStore(t, p) ==
  /\ InGuest(t)
  /\ p < seen[t]
  /\ data' = [data EXCEPT ![p] = "guest"]
  /\ UNCHANGED <<size, committed, lock, live, pc, delta, old, ret, seen, grantee>>

(* The lock is taken only when the memory is declared shared. *)
NeedsLock_Never == FALSE

NeedsLock == Shared

(* Entry: a negative count returns -1 at once. *)
GrowCall(t, d) ==
  /\ InGuest(t)
  /\ delta' = [delta EXCEPT ![t] = d]
  /\ ret' = [ret EXCEPT ![t] = -1]
  /\ \/ d < 0 /\ Goto(t, "idle")
     \/ d >= 0 /\ Goto(t, IF NeedsLock THEN "lock" ELSE "load")
  /\ UNCHANGED <<size, committed, data, lock, live, old, seen, grantee>>

GrowLock(t) ==
  /\ pc[t] = "lock"
  /\ lock = NoOne
  /\ lock' = t
  /\ Goto(t, "load")
  /\ UNCHANGED <<size, committed, data, live, delta, old, ret, seen, grantee>>

(* Every exit of the locked region unlocks first when the lock was taken. *)
Leave(t) == Goto(t, IF NeedsLock THEN "unlock" ELSE "idle")

(* The two -1 exits: the maximum exceeded, the mapping failed. *)
Refuse_NoUnlock(t) == Goto(t, "idle")
Refuse_Ignored(t) == Goto(t, "store")

Refuse(t) == Leave(t)

(* The declared maximum is checked against the size loaded here. *)
Fits_OffByOne(t, n) == n + delta[t] <= MaxPages + 1

Fits(t, n) == n + delta[t] <= MaxPages

GrowLoad(t) ==
  /\ pc[t] = "load"
  /\ old' = [old EXCEPT ![t] = size]
  /\ \/ Fits(t, size) /\ Goto(t, "map")
     \/ ~Fits(t, size) /\ Refuse(t)
  /\ UNCHANGED <<size, committed, data, lock, live, delta, ret, seen, grantee>>

(* The range passed to mmap(MAP_FIXED): the new pages only. *)
MapRange_FromBase(t) == 0 .. old[t] + delta[t] - 1

MapRange(t) == Added(t)

(* mmap commits zeroed pages, or fails (only attempted for a non-zero      *)
(* count); a failure leaves through the -1 path.                           *)
GrowMap(t) ==
  /\ pc[t] = "map"
  /\ \/ /\ Goto(t, "store")
        /\ committed' = committed \cup MapRange(t)
        /\ data' = [p \in Pages |-> IF p \in MapRange(t) THEN "zero" ELSE data[p]]
     \/ /\ delta[t] # 0
        /\ Refuse(t)
        /\ UNCHANGED <<committed, data>>
  /\ UNCHANGED <<size, lock, live, delta, old, ret, seen, grantee>>

(* The value stored: computed from the size loaded under the lock. *)
NewCount_Stale(t) == delta[t]

NewCount(t) == old[t] + delta[t]

(* The release store of new_count; grantee records who was given the pages. *)
GrowStore(t) ==
  /\ pc[t] = "store"
  /\ size' = NewCount(t)
  /\ ret' = [ret EXCEPT ![t] = old[t]]
  /\ grantee' = [p \in Pages |-> IF p \in Added(t) THEN t ELSE grantee[p]]
  /\ Leave(t)
  /\ UNCHANGED <<committed, data, lock, live, delta, old, seen>>

GrowUnlock(t) ==
  /\ pc[t] = "unlock"
  /\ lock' = NoOne
  /\ Goto(t, "idle")
  /\ UNCHANGED <<size, committed, data, live, delta, old, ret, seen, grantee>>

GrowStep(t) ==
  GrowLock(t) \/ GrowLoad(t) \/ GrowMap(t) \/ GrowStore(t) \/ GrowUnlock(t)

Next ==
  \E t \in Threads :
    \/ \E u \in Threads : SpawnThread(t, u)
    \/ MemorySize(t)
    \/ \E p \in Pages : GuestStore(t, p)
    \/ \E d \in Deltas : GrowCall(t, d)
    \/ GrowStep(t)

Spec == Init /\ [][Next]_vars

(* A thread inside the host call keeps running; guests owe nothing. *)
FairSpec == Spec /\ \A t \in Threads : WF_vars(GrowStep(t))

-----------------------------------------------------------------------------

(* The shape of the state, the declared maximum included: a grow past      *)
(* memory.max is refused.                                                  *)
TypeOK ==
  /\ size \in MinPages .. MaxPages
  /\ committed \subseteq Pages
  /\ data \in [Pages -> {"zero", "guest"}]
  /\ lock \in Threads \cup {NoOne}
  /\ live \subseteq Threads
  /\ pc \in [Threads -> PCs]
  /\ delta \in [Threads -> Int]
  /\ old \in [Threads -> 0 .. MaxPages]
  /\ ret \in [Threads -> -1 .. MaxPages]
  /\ seen \in [Threads -> 0 .. MaxPages]
  /\ grantee \in [Pages -> Threads \cup {NoOne}]

(* A size that any thread has observed is backed by mapped pages: the      *)
(* lock-free reader may see a stale lower bound, never an over-reported    *)
(* size (the comment in wasm_host_memory_size).                            *)
SizeBacked ==
  /\ \A t \in Threads : seen[t] <= size
  /\ \A p \in Pages : p < size => p \in committed

(* What a successful memory.grow returned is usable and is the caller's:   *)
(* the pages from the returned count up are within the size, mapped, and   *)
(* were handed to no other thread.                                         *)
GrantUsable ==
  \A t \in Threads :
    pc[t] \in {"idle", "unlock"} /\ ret[t] >= 0 =>
      \A p \in ret[t] .. ret[t] + delta[t] - 1 :
        p < size /\ p \in committed /\ grantee[p] = t

(* memory.size never goes back, whoever grows. *)
SizeMonotone == [][size' >= size]_size

(* No step of the host takes back a page that a grow has handed out.       *)
GrantOnce == [][\A p \in Pages : grantee[p] # NoOne => grantee'[p] = grantee[p]]_grantee

(* Growing keeps every byte the guest has stored: the MAP_FIXED mapping    *)
(* never lands on a page that is in use (the comment above the mmap).      *)
StoresKept == [][\A p \in Pages : data[p] = "guest" => data'[p] = "guest"]_data

(* Every path out of memory.grow releases the lock, so no grower can block *)
(* the others for ever.                                                    *)
LockReleased == \A t \in Threads : lock = t ~> lock # t

=============================================================================
