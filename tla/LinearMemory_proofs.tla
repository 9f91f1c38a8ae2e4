------------------------ MODULE LinearMemory_proofs ------------------------
(***************************************************************************)
(* The safety of memory.grow for every number of threads, every limit and  *)
(* every count, provided a memory that is not declared shared is used by   *)
(* one thread only.  The inductive invariant says that a grower between    *)
(* its load and its store owns the size: what it loaded is still current,  *)
(* and everything from that size up is unmapped for the guest, unowned and *)
(* zero.                                                                   *)
(***************************************************************************)
EXTENDS LinearMemory, TLAPS

(* A private memory is touched by a single thread. *)
Exclusive == Shared \/ \A t, u \in Threads : t = u

InRegion(t) == pc[t] \in {"load", "map", "store"}

(* The counts of a running grow: accepted as non-negative, result pending. *)
Pending ==
  \A t \in Threads :
    /\ pc[t] # "idle" => delta[t] \in Nat
    /\ pc[t] \in {"lock", "load", "map", "store"} => ret[t] = -1

(* On a shared memory the region from the load to the unlock is the lock's. *)
Locked == Shared => \A t \in Threads : InRegion(t) \/ pc[t] = "unlock" => lock = t

(* The size a grower loaded is still the size, and its pages fit. *)
Current ==
  \A t \in Threads :
    /\ pc[t] \in {"map", "store"} => old[t] = size /\ old[t] + delta[t] <= MaxPages
    /\ pc[t] = "store" => Added(t) \subseteq committed

(* Nothing beyond the size has been handed out or written. *)
Fresh == \A p \in Pages : p >= size => grantee[p] = NoOne /\ data[p] = "zero"

IInv == TypeOK /\ Pending /\ Locked /\ Current /\ Fresh /\ SizeBacked /\ GrantUsable

(* One grower at a time between load and store. *)
LEMMA Alone ==
  ASSUME Exclusive, Locked, NEW t \in Threads, NEW u \in Threads, InRegion(t), InRegion(u)
  PROVE  t = u
BY DEF Exclusive, Locked

(* The pages a grower is about to add lie between the size and the maximum. *)
LEMMA AddedAbove ==
  ASSUME TypeOK, Pending, Current, NEW t \in Threads, pc[t] \in {"map", "store"}
  PROVE  /\ old[t] = size /\ delta[t] \in Nat /\ old[t] + delta[t] \in size .. MaxPages
         /\ Added(t) \subseteq Pages
         /\ \A p \in Added(t) : p >= size
<1>1. old[t] = size /\ old[t] + delta[t] <= MaxPages /\ delta[t] \in Nat
  BY DEF Pending, Current
<1>2. size \in Nat /\ MaxPages \in Nat
  BY MemoryAssumption DEF TypeOK
<1> QED BY <1>1, <1>2 DEF Added, Pages

LEMMA InitIInv == Init => IInv
<1> SUFFICES ASSUME Init PROVE IInv
  OBVIOUS
<1> USE MemoryAssumption DEF Init, Pages
<1>1. TypeOK
  BY DEF TypeOK, PCs
<1>2. Pending /\ Locked /\ Current /\ Fresh
  BY DEF Pending, Locked, Current, Fresh, InRegion
<1>3. SizeBacked /\ GrantUsable
  BY DEF SizeBacked, GrantUsable
<1> QED BY <1>1, <1>2, <1>3 DEF IInv

(* Guest code and thread creation leave the host's bookkeeping alone. *)
LEMMA SpawnThreadStep ==
  ASSUME IInv, NEW t \in Threads, NEW u \in Threads, SpawnThread(t, u)
  PROVE  IInv'
<1> USE DEF IInv, SpawnThread
<1>1. TypeOK'
  BY DEF TypeOK
<1>2. Pending' /\ Locked' /\ Current' /\ Fresh' /\ SizeBacked' /\ GrantUsable'
  BY DEF Pending, Locked, Current, Fresh, SizeBacked, GrantUsable, InRegion, Added
<1> QED BY <1>1, <1>2

LEMMA MemorySizeStep ==
  ASSUME IInv, NEW t \in Threads, MemorySize(t)
  PROVE  IInv'
<1> USE MemoryAssumption DEF IInv, MemorySize
<1>1. TypeOK'
  BY DEF TypeOK
<1>2. SizeBacked'
  BY DEF TypeOK, SizeBacked
<1>3. Pending' /\ Locked' /\ Fresh'
  BY DEF Pending, Locked, Fresh, InRegion
<1>4. Current'
  BY DEF Current, InRegion, Added
<1>5. GrantUsable'
  BY DEF GrantUsable
<1> QED BY <1>1, <1>2, <1>3, <1>4, <1>5

LEMMA GuestStoreStep ==
  ASSUME IInv, NEW t \in Threads, NEW p \in Pages, GuestStore(t, p)
  PROVE  IInv'
<1> USE MemoryAssumption DEF IInv, GuestStore
<1>1. TypeOK'
  BY DEF TypeOK
<1>2. Fresh'
  <2>1. p \in Nat /\ p < size
    BY DEF TypeOK, SizeBacked, Pages
  <2>2. ASSUME NEW q \in Pages, q >= size
        PROVE  data'[q] = data[q]
    <3>1. q # p
      BY <2>1, <2>2 DEF TypeOK, Pages
    <3> QED BY <3>1 DEF TypeOK
  <2> QED BY <2>2 DEF Fresh
<1>3. Pending' /\ Locked' /\ SizeBacked'
  BY DEF Pending, Locked, SizeBacked, InRegion
<1>4. Current'
  BY DEF Current, InRegion, Added
<1>5. GrantUsable'
  BY DEF GrantUsable
<1> QED BY <1>1, <1>2, <1>3, <1>4, <1>5

LEMMA GrowCallStep ==
  ASSUME IInv, NEW t \in Threads, NEW d \in Deltas, GrowCall(t, d)
  PROVE  IInv'
<1> USE MemoryAssumption DEF IInv, GrowCall, Goto, NeedsLock
<1>1. TypeOK'
  <2>1. d \in Int /\ -1 \in -1 .. MaxPages
    OBVIOUS
  <2>2. pc' \in [Threads -> PCs]
    BY DEF TypeOK, PCs
  <2> QED BY <2>1, <2>2 DEF TypeOK
<1>2. Pending'
  BY DEF TypeOK, PCs, Pending, InGuest
<1>3. Locked'
  BY DEF TypeOK, Locked, InRegion, InGuest
<1>4. Current'
  BY DEF TypeOK, Current, Added, InGuest
<1>5. Fresh' /\ SizeBacked'
  BY DEF Fresh, SizeBacked, Pages
<1>6. GrantUsable'
  <2> SUFFICES ASSUME NEW s \in Threads, pc'[s] \in {"idle", "unlock"}, ret'[s] >= 0
               PROVE  \A p \in ret'[s] .. ret'[s] + delta'[s] - 1 :
                        p < size /\ p \in committed /\ grantee[p] = s
    BY DEF GrantUsable
  <2>1. s # t
    BY DEF TypeOK
  <2>2. ret'[s] = ret[s] /\ delta'[s] = delta[s] /\ pc'[s] = pc[s]
    BY <2>1 DEF TypeOK
  <2> QED BY <2>2 DEF GrantUsable
<1> QED BY <1>1, <1>2, <1>3, <1>4, <1>5, <1>6

LEMMA GrowLockStep ==
  ASSUME IInv, NEW t \in Threads, GrowLock(t)
  PROVE  IInv'
<1> USE MemoryAssumption DEF IInv, GrowLock, Goto
<1>1. TypeOK' /\ Pending'
  BY DEF TypeOK, PCs, Pages, Pending
<1>2. Locked'
  BY DEF TypeOK, Locked, InRegion
<1>3. Current'
  BY DEF TypeOK, Current, Added
<1>4. Fresh' /\ SizeBacked' /\ GrantUsable'
  BY DEF TypeOK, Fresh, SizeBacked, GrantUsable, Pages
<1> QED BY <1>1, <1>2, <1>3, <1>4

LEMMA GrowLoadStep ==
  ASSUME IInv, NEW t \in Threads, GrowLoad(t)
  PROVE  IInv'
<1> USE MemoryAssumption DEF IInv, GrowLoad, Refuse, Leave, Goto, NeedsLock
<1>1. TypeOK'
  <2>1. size \in 0 .. MaxPages
    BY DEF TypeOK
  <2>2. pc' \in [Threads -> PCs]
    BY DEF TypeOK, PCs
  <2> QED BY <2>1, <2>2 DEF TypeOK
<1>2. Pending'
  BY DEF TypeOK, PCs, Pending
<1>3. Locked'
  BY DEF TypeOK, Locked, InRegion
<1>4. Current'
  BY DEF TypeOK, Current, Added, Fits
<1>5. Fresh' /\ SizeBacked'
  BY DEF Fresh, SizeBacked, Pages
<1>6. GrantUsable'
  <2> SUFFICES ASSUME NEW s \in Threads, pc'[s] \in {"idle", "unlock"}, ret[s] >= 0
               PROVE  \A p \in ret[s] .. ret[s] + delta[s] - 1 :
                        p < size /\ p \in committed /\ grantee[p] = s
    BY DEF GrantUsable
  <2>1. s # t
    BY DEF TypeOK, Pending
  <2>2. pc'[s] = pc[s]
    BY <2>1 DEF TypeOK
  <2> QED BY <2>2 DEF GrantUsable
<1> QED BY <1>1, <1>2, <1>3, <1>4, <1>5, <1>6

(* The mapping lands above the size, where nothing is owned or written. *)
LEMMA GrowMapStep ==
  ASSUME IInv, NEW t \in Threads, GrowMap(t)
  PROVE  IInv'
<1> USE MemoryAssumption DEF IInv, GrowMap, MapRange, Refuse, Leave, Goto, NeedsLock
<1>1. old[t] = size /\ old[t] + delta[t] <= MaxPages /\ delta[t] \in Nat
  BY AddedAbove
<1>2. Added(t) \subseteq Pages /\ \A p \in Added(t) : p >= size
  BY AddedAbove
<1>3. TypeOK'
  <2>1. pc' \in [Threads -> PCs]
    BY DEF TypeOK, PCs
  <2> QED BY <1>2, <2>1 DEF TypeOK
<1>4. Pending'
  BY DEF TypeOK, PCs, Pending
<1>5. Locked'
  BY DEF TypeOK, Locked, InRegion
<1>6. Current'
  BY DEF TypeOK, Current, Added
<1>7. Fresh' /\ SizeBacked'
  BY DEF Fresh, SizeBacked
<1>8. GrantUsable'
  <2> SUFFICES ASSUME NEW s \in Threads, pc'[s] \in {"idle", "unlock"}, ret[s] >= 0
               PROVE  \A p \in ret[s] .. ret[s] + delta[s] - 1 :
                        p < size /\ p \in committed' /\ grantee[p] = s
    BY DEF GrantUsable
  <2>1. s # t
    BY DEF TypeOK, Pending
  <2>2. pc'[s] = pc[s]
    BY <2>1 DEF TypeOK
  <2> QED BY <2>2 DEF GrantUsable
<1> QED BY <1>3, <1>4, <1>5, <1>6, <1>7, <1>8

(* Publishing hands out pages above the old size; no other grower is under way. *)
LEMMA GrowStoreStep ==
  ASSUME IInv, Exclusive, NEW t \in Threads, GrowStore(t)
  PROVE  IInv'
<1>1. old[t] = size /\ delta[t] \in Nat /\ old[t] + delta[t] \in size .. MaxPages
  BY AddedAbove DEF IInv, GrowStore
<1>2. Added(t) \subseteq Pages /\ \A p \in Added(t) : p >= size
  BY AddedAbove DEF IInv, GrowStore
<1>3. \A s \in Threads : InRegion(s) => s = t
  BY Alone DEF IInv, GrowStore, InRegion
<1> USE MemoryAssumption DEF IInv, GrowStore, NewCount, Leave, Goto, NeedsLock
<1>4. TypeOK'
  <2>1. pc' \in [Threads -> PCs]
    BY DEF TypeOK, PCs
  <2>2. old[t] \in -1 .. MaxPages
    BY DEF TypeOK
  <2>3. size' \in MinPages .. MaxPages
    BY <1>1 DEF TypeOK
  <2> QED BY <1>2, <2>1, <2>2, <2>3 DEF TypeOK
<1>5. Pending'
  BY DEF TypeOK, PCs, Pending
<1>6. Locked'
  BY DEF TypeOK, Locked, InRegion
<1>7. Current'
  BY <1>3 DEF TypeOK, Current, InRegion
<1>8. Fresh'
  <2> SUFFICES ASSUME NEW p \in Pages, p >= size' PROVE grantee'[p] = NoOne /\ data[p] = "zero"
    BY DEF Fresh
  <2>1. p \in Nat /\ size \in Nat
    BY DEF TypeOK, Pages
  <2>2. p \notin Added(t) /\ p >= size
    BY <1>1, <2>1 DEF Added
  <2> QED BY <2>2 DEF Fresh
<1>9. SizeBacked'
  <2>1. size \in Nat /\ size' >= size /\ \A s \in Threads : seen[s] \in Nat
    BY <1>1 DEF TypeOK
  <2>2. \A s \in Threads : seen[s] <= size'
    BY <1>1, <2>1 DEF SizeBacked
  <2>3. ASSUME NEW p \in Pages, p < size' PROVE p \in committed
    <3>1. CASE p < size
      BY <3>1 DEF SizeBacked
    <3>2. CASE p \in Added(t)
      BY <3>2 DEF Current
    <3>3. p < size \/ p \in Added(t)
      BY <1>1, <2>1, <2>3 DEF Added, Pages
    <3> QED BY <3>1, <3>2, <3>3
  <2> QED BY <2>2, <2>3 DEF SizeBacked
<1>10. GrantUsable'
  <2> SUFFICES ASSUME NEW s \in Threads, pc'[s] \in {"idle", "unlock"}, ret'[s] >= 0,
                      NEW p \in ret'[s] .. ret'[s] + delta[s] - 1
               PROVE  p < size' /\ p \in committed /\ grantee'[p] = s
    BY DEF GrantUsable
  <2>1. CASE s = t
    <3>1. p \in Added(t)
      BY <2>1 DEF TypeOK, Added
    <3>2. p \in committed
      BY <3>1 DEF Current
    <3> QED BY <1>1, <1>2, <2>1, <3>1, <3>2 DEF TypeOK, Added
  <2>2. CASE s # t
    <3>1. pc'[s] = pc[s] /\ ret'[s] = ret[s]
      BY <2>2 DEF TypeOK
    <3>2. p < size /\ p \in committed /\ grantee[p] = s
      BY <3>1 DEF GrantUsable
    <3>3. p \in Pages /\ p \notin Added(t)
      BY <1>2, <3>2 DEF TypeOK
    <3>4. grantee'[p] = s
      BY <3>2, <3>3
    <3>5. p < size'
      BY <1>1, <3>2, <3>3 DEF TypeOK, Pages
    <3> QED BY <3>2, <3>4, <3>5
  <2> QED BY <2>1, <2>2
<1> QED BY <1>4, <1>5, <1>6, <1>7, <1>8, <1>9, <1>10

LEMMA GrowUnlockStep ==
  ASSUME IInv, Exclusive, NEW t \in Threads, GrowUnlock(t)
  PROVE  IInv'
<1> USE MemoryAssumption DEF IInv, GrowUnlock, Goto
<1>1. TypeOK' /\ Pending'
  BY DEF TypeOK, PCs, Pages, Pending
<1>2. Locked'
  BY DEF TypeOK, Locked, InRegion
<1>3. Current' /\ Fresh' /\ SizeBacked'
  BY DEF TypeOK, Current, Added, Fresh, SizeBacked, Pages
<1>4. GrantUsable'
  BY DEF TypeOK, GrantUsable
<1> QED BY <1>1, <1>2, <1>3, <1>4

(* Every step of the process preserves the invariant. *)
LEMMA NextIInv ==
  ASSUME IInv, Exclusive, [Next]_vars
  PROVE  IInv'
<1>1. CASE UNCHANGED vars
  BY <1>1 DEF vars, IInv, TypeOK, Pages, Pending, Locked, Current, Fresh, SizeBacked,
              GrantUsable, InRegion, Added
<1>2. ASSUME NEW t \in Threads, GrowStep(t) PROVE IInv'
  BY <1>2, GrowLockStep, GrowLoadStep, GrowMapStep, GrowStoreStep, GrowUnlockStep DEF GrowStep
<1>3. ASSUME NEW t \in Threads, NEW d \in Deltas, GrowCall(t, d) PROVE IInv'
  BY <1>3, GrowCallStep
<1>4. ASSUME NEW t \in Threads, MemorySize(t) PROVE IInv'
  BY <1>4, MemorySizeStep
<1>5. ASSUME NEW t \in Threads, NEW p \in Pages, GuestStore(t, p) PROVE IInv'
  BY <1>5, GuestStoreStep
<1>6. ASSUME NEW t \in Threads, NEW u \in Threads, SpawnThread(t, u) PROVE IInv'
  BY <1>6, SpawnThreadStep
<1> QED BY <1>1, <1>2, <1>3, <1>4, <1>5, <1>6 DEF Next

(* The state keeps its shape, and a grow past memory.max never succeeds.   *)
THEOREM TypeCorrect == ASSUME Exclusive PROVE Spec => []TypeOK
<1>1. IInv => TypeOK
  BY DEF IInv
<1> QED BY InitIInv, NextIInv, <1>1, PTL DEF Spec

(* An observed memory.size is always backed by mapped pages.               *)
THEOREM SizesAreBacked == ASSUME Exclusive PROVE Spec => []SizeBacked
<1>1. IInv => SizeBacked
  BY DEF IInv
<1> QED BY InitIInv, NextIInv, <1>1, PTL DEF Spec

(* What memory.grow returned is within the size, mapped and the caller's.  *)
THEOREM GrantsAreUsable == ASSUME Exclusive PROVE Spec => []GrantUsable
<1>1. IInv => GrantUsable
  BY DEF IInv
<1> QED BY InitIInv, NextIInv, <1>1, PTL DEF Spec

(* The published size never goes back. *)
THEOREM SizeNeverShrinks == ASSUME Exclusive PROVE Spec => SizeMonotone
<1>1. ASSUME IInv, [Next]_vars PROVE [size' >= size]_size
  <2>1. ASSUME NEW t \in Threads, GrowStore(t) PROVE size' >= size
    <3>1. old[t] + delta[t] \in size .. MaxPages
      BY <1>1, <2>1, AddedAbove DEF IInv, GrowStore
    <3> QED BY <1>1, <2>1, <3>1, MemoryAssumption DEF IInv, TypeOK, GrowStore, NewCount
  <2>2. (\E t \in Threads : GrowStore(t)) \/ UNCHANGED size
    BY <1>1 DEF Next, vars, GrowStep, SpawnThread, MemorySize, GuestStore, GrowCall, GrowLock,
                GrowLoad, GrowMap, GrowUnlock
  <2> QED BY <2>1, <2>2
<1> QED BY InitIInv, NextIInv, <1>1, PTL DEF Spec, SizeMonotone

(* Pages are handed out at most once. *)
THEOREM GrantsAreExclusive == ASSUME Exclusive PROVE Spec => GrantOnce
<1> DEFINE Kept == \A p \in Pages : grantee[p] # NoOne => grantee'[p] = grantee[p]
<1>1. ASSUME IInv, [Next]_vars PROVE [Kept]_grantee
  <2>1. ASSUME NEW t \in Threads, GrowStore(t) PROVE Kept
    <3>1. \A p \in Added(t) : p >= size
      BY <1>1, <2>1, AddedAbove DEF IInv, GrowStore
    <3> QED BY <1>1, <2>1, <3>1 DEF IInv, Fresh, GrowStore
  <2>2. (\E t \in Threads : GrowStore(t)) \/ UNCHANGED grantee
    BY <1>1 DEF Next, vars, GrowStep, SpawnThread, MemorySize, GuestStore, GrowCall, GrowLock,
                GrowLoad, GrowMap, GrowUnlock
  <2> QED BY <2>1, <2>2
<1> HIDE DEF Kept
<1>2. Spec => [][Kept]_grantee
  BY InitIInv, NextIInv, <1>1, PTL DEF Spec
<1> QED BY <1>2 DEF Kept, GrantOnce

(* No grow loses what the guest has stored. *)
THEOREM StoresAreKept == ASSUME Exclusive PROVE Spec => StoresKept
<1> DEFINE Kept == \A p \in Pages : data[p] = "guest" => data'[p] = "guest"
<1>1. ASSUME IInv, [Next]_vars PROVE [Kept]_data
  <2>1. ASSUME NEW t \in Threads, GrowMap(t) PROVE Kept
    <3>1. \A p \in Added(t) : p >= size
      BY <1>1, <2>1, AddedAbove DEF IInv, GrowMap
    <3> QED BY <1>1, <2>1, <3>1 DEF IInv, Fresh, GrowMap, MapRange
  <2>2. ASSUME NEW t \in Threads, NEW p \in Pages, GuestStore(t, p) PROVE Kept
    BY <1>1, <2>2 DEF IInv, TypeOK, GuestStore
  <2>3. \/ \E t \in Threads : GrowMap(t)
        \/ \E t \in Threads, p \in Pages : GuestStore(t, p)
        \/ UNCHANGED data
    BY <1>1 DEF Next, vars, GrowStep, SpawnThread, MemorySize, GrowCall, GrowLock,
                GrowLoad, GrowStore, GrowUnlock
  <2> QED BY <2>1, <2>2, <2>3
<1> HIDE DEF Kept
<1>2. Spec => [][Kept]_data
  BY InitIInv, NextIInv, <1>1, PTL DEF Spec
<1> QED BY <1>2 DEF Kept, StoresKept

=============================================================================
