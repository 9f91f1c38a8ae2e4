---------------------------- MODULE Futex_proofs ----------------------------
(***************************************************************************)
(* Wakeups are counted exactly, none is lost and a wait at a refused       *)
(* address never returns, for any number of threads, any words and         *)
(* timeouts, and counts of any width that can count the threads.           *)
(***************************************************************************)
EXTENDS Futex, FiniteSetTheorems, TLAPS

-----------------------------------------------------------------------------
(* Counting.                                                               *)

(* A power of two is the number of subsets of a set, so it is positive.    *)
LEMMA PowerOfTwo ==
  ASSUME NEW n \in Nat
  PROVE  2^n \in Nat \ {0}
<1> DEFINE S == 1 .. n
<1>1. IsFiniteSet(S) /\ Cardinality(S) = n
  BY FS_Interval
<1>2. IsFiniteSet(SUBSET S) /\ Cardinality(SUBSET S) = 2^n
  BY <1>1, FS_SUBSET
<1>3. Cardinality(SUBSET S) \in Nat
  BY <1>2, FS_CardinalityType
<1>4. Cardinality(SUBSET S) # 0
  BY <1>2, FS_EmptySet
<1> QED  BY <1>2, <1>3, <1>4

(* Every notify requests the smaller of its count and the waiters: neither *)
(* the kernel's sign nor its treatment of zero shows.                      *)
LEMMA RequestedFacts ==
  ASSUME NEW n \in Counts
  PROVE  /\ IsFiniteSet(Asleep) /\ Cardinality(Asleep) \in Nat
         /\ n \in Nat
         /\ Requested(n) = Least(n, Cardinality(Asleep))
<1>1. /\ IsFiniteSet(Threads) /\ Width \in Nat \ {0}
      /\ Cardinality(Threads) < 2^(Width - 1)
  BY FutexAssumption
<1>2. Asleep \subseteq Threads
  BY DEF Asleep
<1>3. IsFiniteSet(Asleep) /\ Cardinality(Asleep) <= Cardinality(Threads)
  BY <1>1, <1>2, FS_Subset
<1>4. Cardinality(Asleep) \in Nat /\ Cardinality(Threads) \in Nat
  BY <1>1, <1>3, FS_CardinalityType
<1>5. 2^Width \in Nat /\ 2^(Width - 1) \in Nat
  <2>1. Width \in Nat /\ Width - 1 \in Nat
    BY <1>1
  <2> QED  BY <2>1, PowerOfTwo
<1>6. n \in Nat
  BY <1>5 DEF Counts
<1> DEFINE c == Cardinality(Asleep)
           p == 2^(Width - 1)
<1>7. c \in Nat /\ p \in Nat /\ c < p /\ INT32_MAX = p - 1
  BY <1>1, <1>3, <1>4, <1>5 DEF INT32_MAX
<1>8. Requested(n) = Least(n, c)
  <2> HIDE DEF c, p
  <2>1. CASE n = 0
    BY <1>7, <2>1 DEF Requested, Least
  <2>2. CASE n # 0
    <3>1. Clamp(n) = Least(n, p - 1) /\ Clamp(n) \in Int /\ Clamp(n) <= p - 1
      BY <1>6, <1>7 DEF Clamp, Least
    <3>2. Signed(Clamp(n)) = Clamp(n)
      BY <1>7, <3>1 DEF Signed
    <3>3. Requested(n) = Least(c, IF Clamp(n) > 0 THEN Clamp(n) ELSE 1)
      BY <2>2, <3>2 DEF Requested, WokenFor, c
    <3> QED  BY <1>6, <1>7, <2>2, <3>1, <3>3 DEF Least
  <2> QED  BY <2>1, <2>2
<1> QED  BY <1>3, <1>4, <1>6, <1>8

-----------------------------------------------------------------------------
(* The inductive invariant.                                                *)

Labels == {"guest", "issue", "asleep", "woken", "retry", "trap"}

Woken == {t \in Threads : pc[t] = "woken"}

CallFields == {"at", "timeout", "remaining", "want", "expected", "notified"}

TypeInv == pc \in [Threads -> Labels] /\ DOMAIN call = Threads

(* A wait keeps the value it was called with; "notified" holds only while  *)
(* the word differs from it, and never of a thread that sleeps.  A wait at *)
(* a refused address does not get past the kernel's tests.                 *)
CallInv(t) ==
  Waiting(t) =>
    /\ DOMAIN call[t] = CallFields
    /\ call[t].expected = call[t].want
    /\ call[t].notified => word # call[t].want /\ pc[t] # "asleep"
    /\ call[t].at = "refused" => pc[t] \in {"issue", "retry"}

IInv == TypeInv /\ WakesExact /\ \A t \in Threads : CallInv(t)

LEMMA WokenFacts ==
  /\ IsFiniteSet(Woken) /\ Cardinality(Woken) \in Nat
  /\ WakesExact <=> exact /\ credit = Cardinality(Woken)
<1>1. Woken \subseteq Threads /\ IsFiniteSet(Threads)
  BY FutexAssumption DEF Woken
<1>2. IsFiniteSet(Woken)
  BY <1>1, FS_Subset
<1> QED  BY <1>2, FS_CardinalityType DEF WakesExact, Woken

(* Steps that wake nobody and end no woken wait. *)
LEMMA SameWoken ==
  ASSUME IInv, UNCHANGED <<credit, exact>>, Woken' = Woken
  PROVE  WakesExact'
<1>1. exact' /\ credit' = Cardinality(Woken')
  BY WokenFacts DEF IInv
<1> QED  BY <1>1 DEF WakesExact, Woken

LEMMA GuestStoreStep ==
  ASSUME IInv, NEW t \in Threads, NEW v \in Words, GuestStore(t, v)
  PROVE  IInv'
<1>1. word' = v /\ UNCHANGED <<pc, credit, exact>>
  BY DEF GuestStore
<1>2. call' = [u \in Threads |->
        IF Waiting(u) THEN [call[u] EXCEPT !.notified = @ /\ v # call[u].want] ELSE call[u]]
  BY DEF GuestStore
<1>3. TypeInv' /\ Woken' = Woken
  BY <1>1, <1>2 DEF IInv, TypeInv, Woken
<1>4. ASSUME NEW u \in Threads
      PROVE  CallInv(u)'
  <2>1. SUFFICES ASSUME Waiting(u)
                 PROVE  CallInv(u)'
    BY <1>1 DEF CallInv, Waiting
  <2>2. /\ DOMAIN call[u] = CallFields
        /\ call[u].expected = call[u].want
        /\ call[u].notified => pc[u] # "asleep"
        /\ call[u].at = "refused" => pc[u] \in {"issue", "retry"}
    BY <2>1 DEF IInv, CallInv
  <2>3. call'[u] = [call[u] EXCEPT !.notified = call[u].notified /\ v # call[u].want]
    BY <1>2, <2>1
  <2>4. /\ DOMAIN call'[u] = DOMAIN call[u] /\ call'[u].want = call[u].want
        /\ call'[u].expected = call[u].expected /\ call'[u].at = call[u].at
    BY <2>2, <2>3 DEF CallFields
  <2>5. call'[u].notified <=> call[u].notified /\ v # call[u].want
    BY <2>2, <2>3 DEF CallFields
  <2> QED  BY <1>1, <2>2, <2>4, <2>5 DEF CallInv
<1> QED  BY <1>1, <1>3, <1>4, SameWoken DEF IInv

(* A step that moves one thread and leaves the word and the other calls    *)
(* alone keeps what is known of the other calls.                           *)
LEMMA OtherCalls ==
  ASSUME IInv, NEW t \in Threads, NEW label \in Labels, NEW c,
         Goto(t, label), UNCHANGED word,
         call' = [call EXCEPT ![t] = c] \/ (c = call[t] /\ UNCHANGED call)
  PROVE  /\ TypeInv'
         /\ pc'[t] = label /\ call'[t] = c
         /\ \A u \in Threads \ {t} : CallInv(u)'
<1>1. pc' = [pc EXCEPT ![t] = label]
  BY DEF Goto
<1>2. TypeInv' /\ pc'[t] = label /\ call'[t] = c
  BY <1>1 DEF IInv, TypeInv
<1>3. ASSUME NEW u \in Threads \ {t}
      PROVE  CallInv(u)'
  <2>1. pc'[u] = pc[u] /\ call'[u] = call[u]
    BY <1>1 DEF IInv, TypeInv
  <2>2. CallInv(u)
    BY DEF IInv
  <2> QED  BY <2>1, <2>2 DEF CallInv, Waiting
<1> QED  BY <1>2, <1>3

(* A thread that is moved between labels other than "woken". *)
LEMMA NotWoken ==
  ASSUME TypeInv, NEW t \in Threads, NEW label, label # "woken",
         pc[t] # "woken", Goto(t, label)
  PROVE  Woken' = Woken
<1>1. pc' = [pc EXCEPT ![t] = label]
  BY DEF Goto
<1>2. ASSUME NEW u \in Threads
      PROVE  pc'[u] = "woken" <=> pc[u] = "woken"
  BY <1>1 DEF TypeInv
<1> QED  BY <1>2 DEF Woken

LEMMA WaitCallStep ==
  ASSUME IInv, NEW t \in Threads, NEW p \in Places, NEW v \in Words, NEW d \in Timeouts,
         Wait(t, p, v, d)
  PROVE  IInv'
<1> DEFINE c == [at |-> p, timeout |-> d, remaining |-> IF d >= 0 THEN d ELSE 0,
                 want |-> v, expected |-> v, notified |-> FALSE]
<1>1. /\ pc[t] = "guest" /\ Goto(t, "issue") /\ call' = [call EXCEPT ![t] = c]
      /\ UNCHANGED <<word, credit, exact>>
  BY DEF Wait, InGuest
<1>2. /\ DOMAIN c = CallFields
      /\ c.expected = c.want /\ ~c.notified
  BY DEF CallFields
<1> HIDE DEF c
<1>3. TypeInv' /\ pc'[t] = "issue" /\ call'[t] = c /\ \A u \in Threads \ {t} : CallInv(u)'
  BY <1>1, OtherCalls DEF Labels
<1>4. CallInv(t)'
  BY <1>2, <1>3 DEF CallInv
<1>5. WakesExact'
  BY <1>1, NotWoken, SameWoken DEF IInv
<1> QED  BY <1>3, <1>4, <1>5 DEF IInv

LEMMA Wait8Step ==
  ASSUME IInv, NEW t \in Threads, Wait8(t)
  PROVE  IInv'
<1>1. /\ pc[t] = "guest" /\ Goto(t, "trap") /\ UNCHANGED <<word, call, credit, exact>>
  BY DEF Wait8, InGuest
<1>2. TypeInv' /\ pc'[t] = "trap" /\ \A u \in Threads \ {t} : CallInv(u)'
  BY <1>1, OtherCalls DEF Labels
<1>3. CallInv(t)'
  BY <1>2 DEF CallInv, Waiting
<1>4. WakesExact'
  BY <1>1, NotWoken, SameWoken DEF IInv
<1> QED  BY <1>2, <1>3, <1>4 DEF IInv

(* The steps by which a wait returns other than woken. *)
LEMMA ReturnStep ==
  ASSUME IInv, NEW t \in Threads, IssueDiffers(t) \/ Expire(t)
  PROVE  IInv'
<1>1. /\ pc[t] # "woken" /\ Goto(t, "guest") /\ call' = [call EXCEPT ![t] = NoCall]
      /\ UNCHANGED <<word, credit, exact>>
  BY DEF IssueDiffers, Expire, Returns
<1>2. TypeInv' /\ pc'[t] = "guest" /\ \A u \in Threads \ {t} : CallInv(u)'
  BY <1>1, OtherCalls DEF Labels
<1>3. CallInv(t)'
  BY <1>2 DEF CallInv, Waiting
<1>4. WakesExact'
  BY <1>1, NotWoken, SameWoken DEF IInv
<1> QED  BY <1>2, <1>3, <1>4 DEF IInv

(* The kernel has tested the word, so whoever goes to sleep for a value    *)
(* the word has was not notified of another.                               *)
LEMMA SleepStep ==
  ASSUME IInv, NEW t \in Threads, Sleep(t)
  PROVE  IInv'
<1>1. /\ pc[t] = "issue" /\ Goto(t, "asleep") /\ word = call[t].expected
      /\ call[t].at = "word"
      /\ UNCHANGED <<word, call, credit, exact>>
  BY DEF Sleep
<1>2. /\ TypeInv' /\ pc'[t] = "asleep" /\ call'[t] = call[t]
      /\ \A u \in Threads \ {t} : CallInv(u)'
  BY <1>1, OtherCalls DEF Labels
<1>3. /\ DOMAIN call[t] = CallFields
      /\ call[t].expected = call[t].want
      /\ call[t].notified => word # call[t].want
  BY <1>1 DEF IInv, CallInv, Waiting
<1>4. CallInv(t)'
  BY <1>1, <1>2, <1>3 DEF CallInv
<1>5. WakesExact'
  BY <1>1, NotWoken, SameWoken DEF IInv
<1> QED  BY <1>2, <1>4, <1>5 DEF IInv

(* The kernel refuses an address or a signal ends the sleep; what the call *)
(* has stays.                                                              *)
LEMMA FailedCallStep ==
  ASSUME IInv, NEW t \in Threads, Refuse(t) \/ Interrupt(t)
  PROVE  IInv'
<1>1. /\ pc[t] \in {"issue", "asleep"} /\ Goto(t, "retry")
      /\ UNCHANGED <<word, call, credit, exact>>
  BY DEF Refuse, Interrupt
<1>2. /\ TypeInv' /\ pc'[t] = "retry" /\ call'[t] = call[t]
      /\ \A u \in Threads \ {t} : CallInv(u)'
  BY <1>1, OtherCalls DEF Labels
<1>3. CallInv(t)'
  <2>1. CallInv(t) /\ Waiting(t)
    BY <1>1 DEF IInv, Waiting
  <2> QED  BY <1>1, <1>2, <2>1 DEF CallInv
<1>4. WakesExact'
  BY <1>1, NotWoken, SameWoken DEF IInv
<1> QED  BY <1>2, <1>3, <1>4 DEF IInv

(* The loop issues the call again with what it has. *)
LEMMA RetryStep ==
  ASSUME IInv, NEW t \in Threads, Retry(t)
  PROVE  IInv'
<1>1. /\ pc[t] = "retry" /\ Goto(t, "issue") /\ call' = [call EXCEPT ![t] = call[t]]
      /\ UNCHANGED <<word, credit, exact>>
  BY DEF Retry, Reissued
<1>2. /\ TypeInv' /\ pc'[t] = "issue" /\ call'[t] = call[t]
      /\ \A u \in Threads \ {t} : CallInv(u)'
  BY <1>1, OtherCalls DEF Labels
<1>3. CallInv(t)'
  <2>1. CallInv(t) /\ Waiting(t)
    BY <1>1 DEF IInv, Waiting
  <2> QED  BY <1>1, <1>2, <2>1 DEF CallInv
<1>4. WakesExact'
  BY <1>1, NotWoken, SameWoken DEF IInv
<1> QED  BY <1>2, <1>3, <1>4 DEF IInv

(* A woken thread returns and takes its unit of the credit with it. *)
LEMMA WaitOkStep ==
  ASSUME IInv, NEW t \in Threads, WaitOk(t)
  PROVE  IInv'
<1>1. /\ pc[t] = "woken" /\ Goto(t, "guest") /\ call' = [call EXCEPT ![t] = NoCall]
      /\ credit' = credit - 1 /\ UNCHANGED <<word, exact>>
  BY DEF WaitOk, Returns
<1>2. TypeInv' /\ pc'[t] = "guest" /\ \A u \in Threads \ {t} : CallInv(u)'
  BY <1>1, OtherCalls DEF Labels
<1>3. CallInv(t)'
  BY <1>2 DEF CallInv, Waiting
<1>4. WakesExact'
  <2>1. t \in Woken
    BY <1>1 DEF Woken
  <2>2. Woken' = Woken \ {t}
    <3>1. ASSUME NEW u \in Threads
          PROVE  pc'[u] = "woken" <=> pc[u] = "woken" /\ u # t
      BY <1>1, <1>2 DEF Goto, IInv, TypeInv
    <3> QED  BY <3>1 DEF Woken
  <2>3. IsFiniteSet(Woken) /\ exact /\ credit = Cardinality(Woken)
    BY WokenFacts DEF IInv
  <2>4. Cardinality(Woken \ {t}) = Cardinality(Woken) - 1
    BY <2>1, <2>3, FS_RemoveElement
  <2> QED  BY <1>1, <2>2, <2>3, <2>4 DEF WakesExact, Woken
<1> QED  BY <1>2, <1>3, <1>4 DEF IInv

LEMMA TickStep ==
  ASSUME IInv, Tick
  PROVE  IInv'
<1>1. UNCHANGED <<word, pc, credit, exact>>
  BY DEF Tick
<1>2. call' = [t \in Threads |->
        IF Runs(t) THEN [call[t] EXCEPT !.remaining = @ - 1] ELSE call[t]]
  BY DEF Tick
<1>3. TypeInv' /\ Woken' = Woken
  BY <1>1, <1>2 DEF IInv, TypeInv, Woken
<1>4. ASSUME NEW u \in Threads
      PROVE  CallInv(u)'
  <2>1. SUFFICES ASSUME Waiting(u)
                 PROVE  CallInv(u)'
    BY <1>1 DEF CallInv, Waiting
  <2>2. /\ DOMAIN call[u] = CallFields
        /\ call[u].expected = call[u].want
        /\ call[u].notified => word # call[u].want /\ pc[u] # "asleep"
        /\ call[u].at = "refused" => pc[u] \in {"issue", "retry"}
    BY <2>1 DEF IInv, CallInv
  <2>3. call'[u] = [call[u] EXCEPT !.remaining = call[u].remaining - 1] \/ call'[u] = call[u]
    BY <1>2
  <2>4. /\ DOMAIN call'[u] = DOMAIN call[u] /\ call'[u].want = call[u].want
        /\ call'[u].expected = call[u].expected /\ call'[u].notified = call[u].notified
        /\ call'[u].at = call[u].at
    BY <2>2, <2>3 DEF CallFields
  <2> QED  BY <1>1, <2>2, <2>4 DEF CallInv
<1> QED  BY <1>1, <1>3, <1>4, SameWoken DEF IInv

(* What a notify wakes are sleepers, which become woken; if the count is   *)
(* enough for all threads, they are all the sleepers.                      *)
LEMMA NotifyStep ==
  ASSUME IInv, NEW t \in Threads, NEW n \in Counts, Notify(t, n)
  PROVE  IInv'
<1>1. PICK woken \in SUBSET Asleep :
        /\ Cardinality(woken) = Requested(n)
        /\ pc' = [u \in Threads |-> IF u \in woken THEN "woken" ELSE pc[u]]
  BY DEF Notify
<1>2. call' = [u \in Threads |->
        IF Waiting(u)
        THEN [call[u] EXCEPT
                !.notified = @ \/ (word # call[u].want /\ n >= Cardinality(Threads))]
        ELSE call[u]]
  BY DEF Notify
<1>3. /\ credit' = credit + Requested(n)
      /\ exact' = (exact /\ Requested(n) = Least(n, Cardinality(Asleep)))
      /\ UNCHANGED word
  BY DEF Notify
<1>4. /\ IsFiniteSet(Asleep) /\ Cardinality(Asleep) \in Nat /\ n \in Nat
      /\ Requested(n) = Least(n, Cardinality(Asleep))
  BY RequestedFacts
<1>5. TypeInv'
  BY <1>1, <1>2 DEF IInv, TypeInv, Labels
<1>6. WakesExact'
  <2>1. IsFiniteSet(Woken) /\ Cardinality(Woken) \in Nat /\ exact /\ credit = Cardinality(Woken)
    BY WokenFacts DEF IInv
  <2>2. IsFiniteSet(woken) /\ Woken \cap woken = {}
    <3>1. IsFiniteSet(woken)
      BY <1>4, FS_Subset
    <3>2. Woken \cap woken = {}
      BY DEF Woken, Asleep
    <3> QED  BY <3>1, <3>2
  <2>3. Woken' = Woken \cup woken
    <3>1. ASSUME NEW u \in Threads
          PROVE  pc'[u] = "woken" <=> u \in woken \/ pc[u] = "woken"
      BY <1>1
    <3>2. woken \subseteq Threads
      BY DEF Asleep
    <3> QED  BY <3>1, <3>2 DEF Woken
  <2>4. Cardinality(Woken \cup woken) = Cardinality(Woken) + Cardinality(woken)
    <3>1. Cardinality(Woken \cup woken)
            = Cardinality(Woken) + Cardinality(woken) - Cardinality(Woken \cap woken)
      BY <2>1, <2>2, FS_Union
    <3>2. Cardinality(Woken \cap woken) = 0
      BY <2>2, FS_EmptySet
    <3>3. Cardinality(woken) \in Nat
      BY <2>2, FS_CardinalityType
    <3> QED  BY <2>1, <3>1, <3>2, <3>3
  <2> QED  BY <1>1, <1>3, <1>4, <2>1, <2>3, <2>4 DEF WakesExact, Woken
<1>7. n >= Cardinality(Threads) => woken = Asleep
  <2>1. SUFFICES ASSUME n >= Cardinality(Threads)
                 PROVE  woken = Asleep
    OBVIOUS
  <2>2. Asleep \subseteq Threads /\ IsFiniteSet(Threads)
    BY FutexAssumption DEF Asleep
  <2>3. Cardinality(Asleep) <= Cardinality(Threads) /\ Cardinality(Threads) \in Nat
    BY <2>2, FS_Subset, FS_CardinalityType
  <2>4. Cardinality(woken) = Cardinality(Asleep)
    BY <1>1, <1>4, <2>1, <2>3 DEF Least
  <2> QED  BY <1>4, <2>4, FS_Subset
<1>8. ASSUME NEW u \in Threads
      PROVE  CallInv(u)'
  <2>1. SUFFICES ASSUME Waiting(u)'
                 PROVE  CallInv(u)'
    BY DEF CallInv
  <2>2. pc'[u] = (IF u \in woken THEN "woken" ELSE pc[u])
    BY <1>1
  <2>3. Waiting(u)
    BY <2>1, <2>2 DEF Waiting, Asleep
  <2>4. /\ DOMAIN call[u] = CallFields
        /\ call[u].expected = call[u].want
        /\ call[u].notified => word # call[u].want /\ pc[u] # "asleep"
        /\ call[u].at = "refused" => pc[u] \in {"issue", "retry"}
    BY <2>3 DEF IInv, CallInv
  <2>5. call'[u] = [call[u] EXCEPT !.notified =
          call[u].notified \/ (word # call[u].want /\ n >= Cardinality(Threads))]
    BY <1>2, <2>3
  <2>6. /\ DOMAIN call'[u] = DOMAIN call[u] /\ call'[u].want = call[u].want
        /\ call'[u].expected = call[u].expected /\ call'[u].at = call[u].at
    BY <2>4, <2>5 DEF CallFields
  <2>7. call'[u].notified
          <=> call[u].notified \/ (word # call[u].want /\ n >= Cardinality(Threads))
    BY <2>4, <2>5 DEF CallFields
  <2>8. call'[u].notified => pc'[u] # "asleep"
    <3>1. CASE n >= Cardinality(Threads)
      BY <1>7, <2>2, <3>1 DEF Asleep
    <3>2. CASE ~(n >= Cardinality(Threads))
      BY <2>2, <2>4, <2>7, <3>2
    <3> QED  BY <3>1, <3>2
  <2>9. call'[u].at = "refused" => pc'[u] \in {"issue", "retry"}
    BY <2>2, <2>4, <2>6 DEF Asleep
  <2> QED  BY <1>3, <2>4, <2>6, <2>7, <2>8, <2>9 DEF CallInv
<1> QED  BY <1>5, <1>6, <1>8 DEF IInv

-----------------------------------------------------------------------------
(* The theorems.                                                           *)

LEMMA InitIInv == Init => IInv
<1> SUFFICES ASSUME Init
             PROVE  IInv
  OBVIOUS
<1>1. /\ pc = [t \in Threads |-> "guest"] /\ call = [t \in Threads |-> NoCall]
      /\ credit = 0 /\ exact
  BY DEF Init
<1>2. TypeInv /\ \A t \in Threads : CallInv(t)
  BY <1>1 DEF TypeInv, Labels, CallInv, Waiting
<1>3. Woken = {}
  BY <1>1 DEF Woken
<1>4. WakesExact
  BY <1>1, <1>3, WokenFacts, FS_EmptySet
<1> QED  BY <1>2, <1>4 DEF IInv

LEMMA NextIInv == IInv /\ [Next]_vars => IInv'
<1> SUFFICES ASSUME IInv, [Next]_vars
             PROVE  IInv'
  OBVIOUS
<1>1. CASE UNCHANGED vars
  BY <1>1 DEF vars, IInv, TypeInv, WakesExact, CallInv, Waiting
<1>2. CASE Tick
  BY <1>2, TickStep
<1>3. ASSUME NEW t \in Threads, NEW v \in Words, GuestStore(t, v)
      PROVE  IInv'
  BY <1>3, GuestStoreStep
<1>4. ASSUME NEW t \in Threads, NEW p \in Places, NEW v \in Words, NEW d \in Timeouts,
             Wait(t, p, v, d)
      PROVE  IInv'
  BY <1>4, WaitCallStep
<1>5. ASSUME NEW t \in Threads, NEW n \in Counts, Notify(t, n)
      PROVE  IInv'
  BY <1>5, NotifyStep
<1>6. ASSUME NEW t \in Threads, Wait8(t) \/ WaitStep(t) \/ Interrupt(t)
      PROVE  IInv'
  BY <1>6, Wait8Step, ReturnStep, SleepStep, WaitOkStep, FailedCallStep, RetryStep
     DEF WaitStep
<1> QED  BY <1>1, <1>2, <1>3, <1>4, <1>5, <1>6 DEF Next

LEMMA InvariantIsKept == Spec => []IInv
<1> QED  BY InitIInv, NextIInv, PTL DEF Spec

(* wasm_host_atomic_notify reports exactly the waiters it wakes, the       *)
(* smaller of its unsigned count and their number, and each of them        *)
(* returns 0 from wasm_host_atomic_wait_4 once.                            *)
THEOREM WakesAreExact == Spec => []WakesExact
<1>1. IInv => WakesExact
  BY DEF IInv
<1> QED  BY <1>1, InvariantIsKept, PTL

(* The loop of wasm_host_atomic_wait_4 that issues the system call again   *)
(* after a signal loses no wakeup: whoever was notified of a changed word  *)
(* does not sleep while the word is changed.                               *)
THEOREM NoWakeupIsLost == Spec => []NoLostWakeup
<1>1. IInv => NoLostWakeup
  BY DEF IInv, CallInv, NoLostWakeup, Asleep, Waiting
<1> QED  BY <1>1, InvariantIsKept, PTL

(* The loop of wasm_host_atomic_wait_4 never leaves a wait at an address    *)
(* the kernel refuses: neither a deadline nor a notify reaches it.         *)
THEOREM RefusedWaitsSpin == Spec => RefusedSpins
<1> DEFINE Stays(t) == Waiting(t) /\ call[t].at = "refused"
                         => (pc[t] \in {"issue", "retry"} /\ call[t].at = "refused")'
<1>1. ASSUME IInv, [Next]_vars
      PROVE  \A t \in Threads : Stays(t)
  <2>1. SUFFICES ASSUME NEW t \in Threads, Waiting(t), call[t].at = "refused"
                 PROVE  (pc[t] \in {"issue", "retry"} /\ call[t].at = "refused")'
    OBVIOUS
  <2>2. /\ pc[t] \in {"issue", "retry"} /\ DOMAIN call[t] = CallFields
        /\ \A u \in Threads : CallInv(u)'
    BY <1>1, <2>1, NextIInv DEF IInv, CallInv
  <2>3. SUFFICES Waiting(t)' /\ call'[t].at = call[t].at
    BY <2>1, <2>2 DEF CallInv
  <2>4. DOMAIN pc = Threads /\ DOMAIN call = Threads
    BY <1>1 DEF IInv, TypeInv
  <2>5. CASE UNCHANGED vars
    BY <2>1, <2>5 DEF vars, Waiting
  <2>6. CASE Tick
    <3>1. call'[t] = [call[t] EXCEPT !.remaining = call[t].remaining - 1] \/ call'[t] = call[t]
      BY <2>6 DEF Tick
    <3> QED  BY <2>1, <2>2, <2>6, <3>1 DEF Tick, Waiting, CallFields
  <2>7. ASSUME NEW u \in Threads, NEW v \in Words, GuestStore(u, v)
        PROVE  Waiting(t)' /\ call'[t].at = call[t].at
    <3>1. call'[t] = [call[t] EXCEPT !.notified = call[t].notified /\ v # call[t].want]
      BY <2>1, <2>7 DEF GuestStore
    <3> QED  BY <2>1, <2>2, <2>7, <3>1 DEF GuestStore, Waiting, CallFields
  <2>8. ASSUME NEW u \in Threads, NEW n \in Counts, Notify(u, n)
        PROVE  Waiting(t)' /\ call'[t].at = call[t].at
    <3>1. call'[t] = [call[t] EXCEPT !.notified =
            call[t].notified \/ (word # call[t].want /\ n >= Cardinality(Threads))]
      BY <2>1, <2>8 DEF Notify
    <3>2. pc'[t] = pc[t]
      BY <2>2, <2>8 DEF Notify, Asleep
    <3> QED  BY <2>1, <2>2, <3>1, <3>2 DEF Waiting, CallFields
  <2>9. ASSUME NEW u \in Threads,
               \/ \E p \in Places, v \in Words, d \in Timeouts : Wait(u, p, v, d)
               \/ Wait8(u) \/ WaitStep(u) \/ Interrupt(u)
        PROVE  Waiting(t)' /\ call'[t].at = call[t].at
    <3>1. CASE u # t
      <4>1. pc'[t] = pc[t] /\ call'[t] = call[t]
        BY <2>4, <2>9, <3>1
           DEF Wait, Wait8, WaitStep, Interrupt, IssueDiffers, Sleep, Refuse, Retry,
               Expire, WaitOk, Returns, Goto
      <4> QED  BY <2>1, <4>1 DEF Waiting
    <3>2. CASE u = t
      <4>1. Refuse(t) \/ Retry(t)
        BY <2>1, <2>2, <2>9, <3>2
           DEF Wait, Wait8, WaitStep, Interrupt, IssueDiffers, Sleep, Expire, WaitOk, InGuest
      <4>2. pc'[t] \in {"issue", "retry"} /\ call'[t] = call[t]
        BY <2>4, <4>1 DEF Refuse, Retry, Reissued, Goto
      <4> QED  BY <4>2 DEF Waiting
    <3> QED  BY <3>1, <3>2
  <2> QED  BY <1>1, <2>5, <2>6, <2>7, <2>8, <2>9 DEF Next
<1>2. IInv /\ [Next]_vars => [\A t \in Threads : Stays(t)]_vars
  BY <1>1
<1> QED  BY <1>2, InvariantIsKept, PTL DEF Spec, RefusedSpins

(* So it is with the fairness of the kernel's scheduler.                   *)
COROLLARY FairWakes == FairSpec => [](WakesExact /\ NoLostWakeup)
<1> QED  BY WakesAreExact, NoWakeupIsLost, PTL DEF FairSpec

=============================================================================
