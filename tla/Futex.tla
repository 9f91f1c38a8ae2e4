------------------------------- MODULE Futex -------------------------------
(***************************************************************************)
(* memory.atomic.wait32 and memory.atomic.notify as host_platform.c        *)
(* implements them with Linux futexes: compiled code calls the host with   *)
(* the address of a word of the linear memory, a wait re-issues the system *)
(* call after any other error until it is woken, the word differs, or its  *)
(* deadline has passed.                                                    *)
(*                                                                         *)
(* One mapped, aligned word, and addresses that the kernel refuses: the    *)
(* compiled code checks neither alignment (EINVAL) nor bounds (EFAULT; no  *)
(* memory.grow maps the page meanwhile).  The kernel (Sleep, Refuse,       *)
(* Expire, Interrupt, WokenFor) is external.  It tests the word and goes   *)
(* to sleep in one step, and an expired timer goes before a pending signal.*)
(*                                                                         *)
(* An operator X_Y next to X is X with a fault; nothing here uses it.      *)
(***************************************************************************)
EXTENDS Integers, FiniteSets

CONSTANTS
  Threads,
  Words,       (* the values guests store in the word                        *)
  Timeouts,    (* relative timeouts in clock ticks; negative: none           *)
  Width        (* bound: bits of a count, 32 in the code                     *)

ASSUME FutexAssumption ==
  /\ IsFiniteSet(Threads)
  /\ Timeouts \subseteq Int
  /\ Width \in Nat \ {0}
  /\ Cardinality(Threads) < 2^(Width - 1)

VARIABLES
  word,     (* the word in linear memory                                     *)
  pc,       (* "guest"; in a wait: "issue", "asleep", "woken", "retry" (the  *)
            (* call failed with another error); or "trap"                    *)
  call,     (* the arguments and locals of a running wait                    *)
  credit,   (* history: the sum of what notifies returned, less the number   *)
            (* of waits that returned 0                                      *)
  exact     (* history: every notify woke as many as it should have          *)

vars == <<word, pc, call, credit, exact>>

(* Where a guest waits or notifies. *)
Places == {"word", "refused"}

INT32_MAX == 2^(Width - 1) - 1

Counts == 0 .. 2^Width - 1

NoCall == [timeout |-> -1]

Init ==
  /\ word \in Words
  /\ pc = [t \in Threads |-> "guest"]
  /\ call = [t \in Threads |-> NoCall]
  /\ credit = 0
  /\ exact = TRUE

Aborted == \E t \in Threads : pc[t] = "trap"

InGuest(t) == pc[t] = "guest" /\ ~Aborted

Waiting(t) == pc[t] \in {"issue", "asleep", "woken", "retry"}

Asleep == {t \in Threads : pc[t] = "asleep"}

Goto(t, label) == pc' = [pc EXCEPT ![t] = label]

-----------------------------------------------------------------------------

(* Guest code changes the word. *)
GuestStore(t, v) ==
  /\ InGuest(t)
  /\ word' = v
  /\ call' = [u \in Threads |->
       IF Waiting(u) THEN [call[u] EXCEPT !.notified = @ /\ v # call[u].want] ELSE call[u]]
  /\ UNCHANGED <<pc, credit, exact>>

(* wasm_host_atomic_wait_4 up to its loop: futex_deadline makes an absolute *)
(* deadline, kept here as the ticks that remain.  `at` is where the guest  *)
(* waits, `expected` the value the system call is issued with, `want` the  *)
(* one the guest passed, and `notified` is history: since the word differs *)
(* from it, all waiters have been notified.                                *)
Wait(t, p, v, d) ==
  /\ InGuest(t)
  /\ Goto(t, "issue")
  /\ call' = [call EXCEPT ![t] =
       [at |-> p, timeout |-> d, remaining |-> IF d >= 0 THEN d ELSE 0,
        want |-> v, expected |-> v, notified |-> FALSE]]
  /\ UNCHANGED <<word, credit, exact>>

(* A wait on 64 bits is not implemented: the assertion ends the process.   *)
Wait8(t) ==
  /\ InGuest(t)
  /\ Goto(t, "trap")
  /\ UNCHANGED <<word, call, credit, exact>>

Returns(t) ==
  /\ Goto(t, "guest")
  /\ call' = [call EXCEPT ![t] = NoCall]

(* The system call is issued; EAGAIN, the wait returns 1. *)
IssueDiffers(t) ==
  /\ pc[t] = "issue" /\ call[t].at = "word" /\ ~Aborted
  /\ word # call[t].expected
  /\ Returns(t)
  /\ UNCHANGED <<word, credit, exact>>

Sleep(t) ==
  /\ pc[t] = "issue" /\ call[t].at = "word" /\ ~Aborted
  /\ word = call[t].expected
  /\ Goto(t, "asleep")
  /\ UNCHANGED <<word, call, credit, exact>>

(* EINVAL or EFAULT, before the kernel has looked at the deadline. *)
Refuse_Returned(t) ==
  /\ pc[t] = "issue" /\ call[t].at = "refused" /\ ~Aborted
  /\ Returns(t)
  /\ UNCHANGED <<word, credit, exact>>

Refuse(t) ==
  /\ pc[t] = "issue" /\ call[t].at = "refused" /\ ~Aborted
  /\ Goto(t, "retry")
  /\ UNCHANGED <<word, call, credit, exact>>

Expired(t) == call[t].timeout >= 0 /\ call[t].remaining = 0

(* ETIMEDOUT, the wait returns 2. *)
Expire(t) ==
  /\ pc[t] = "asleep" /\ ~Aborted
  /\ Expired(t)
  /\ Returns(t)
  /\ UNCHANGED <<word, credit, exact>>

(* The system call of a woken thread returns 0, and so does the wait. *)
WaitOk(t) ==
  /\ pc[t] = "woken" /\ ~Aborted
  /\ Returns(t)
  /\ credit' = credit - 1
  /\ UNCHANGED <<word, exact>>

(* EINTR *)
Interrupt(t) ==
  /\ pc[t] = "asleep" /\ ~Aborted
  /\ ~Expired(t)
  /\ Goto(t, "retry")
  /\ UNCHANGED <<word, call, credit, exact>>

(* Whatever the error, the loop issues the same call again, with the same  *)
(* value and the absolute deadline.                                        *)
Reissued_Reloaded(c) == [c EXCEPT !.expected = word]
Reissued_Relative(c) == [c EXCEPT !.remaining = IF c.timeout >= 0 THEN c.timeout ELSE 0]

Reissued(c) == c

Retry(t) ==
  /\ pc[t] = "retry" /\ ~Aborted
  /\ Goto(t, "issue")
  /\ call' = [call EXCEPT ![t] = Reissued(@)]
  /\ UNCHANGED <<word, credit, exact>>

(* CLOCK_MONOTONIC advances. *)
Runs(t) == Waiting(t) /\ call[t].remaining > 0

Tick ==
  /\ ~Aborted
  /\ \E t \in Threads : Runs(t)
  /\ call' = [t \in Threads |->
       IF Runs(t) THEN [call[t] EXCEPT !.remaining = @ - 1] ELSE call[t]]
  /\ UNCHANGED <<word, pc, credit, exact>>

(* What the kernel makes of the unsigned count: an int, and it looks at    *)
(* the limit only after it has woken a waiter.                             *)
Signed(n) == IF n > INT32_MAX THEN n - 2^Width ELSE n

Least(a, b) == IF a < b THEN a ELSE b

WokenFor(n) == Least(Cardinality(Asleep), IF Signed(n) > 0 THEN Signed(n) ELSE 1)

(* A count that is too large for an int is cut; zero wakes nobody.         *)
Clamp_None(n) == n

Clamp(n) == Least(n, INT32_MAX)

Requested(n) == IF n = 0 THEN 0 ELSE WokenFor(Clamp(n))

(* wasm_host_atomic_notify: the kernel chooses whom it wakes.  At an        *)
(* address it refuses nobody sleeps and the call returns 0: a stutter.     *)
Notify(t, n) ==
  /\ InGuest(t)
  /\ \E woken \in SUBSET Asleep :
       /\ Cardinality(woken) = Requested(n)
       /\ pc' = [u \in Threads |-> IF u \in woken THEN "woken" ELSE pc[u]]
  /\ credit' = credit + Requested(n)
  /\ exact' = (exact /\ Requested(n) = Least(n, Cardinality(Asleep)))
  /\ call' = [u \in Threads |->
       IF Waiting(u)
       THEN [call[u] EXCEPT
               !.notified = @ \/ (word # call[u].want /\ n >= Cardinality(Threads))]
       ELSE call[u]]
  /\ UNCHANGED word

WaitStep(t) ==
  IssueDiffers(t) \/ Sleep(t) \/ Refuse(t) \/ Retry(t) \/ Expire(t) \/ WaitOk(t)

Next ==
  \/ \E t \in Threads :
       \/ \E v \in Words : GuestStore(t, v)
       \/ \E p \in Places, v \in Words, d \in Timeouts : Wait(t, p, v, d)
       \/ Wait8(t)
       \/ \E n \in Counts : Notify(t, n)
       \/ WaitStep(t) \/ Interrupt(t)
  \/ Tick

Spec == Init /\ [][Next]_vars

(* The kernel schedules the threads that are in a wait and its clock goes  *)
(* on.  Guests owe nothing and signals come as they like.                  *)
FairSpec == Spec /\ WF_vars(Tick) /\ \A t \in Threads : WF_vars(WaitStep(t))

-----------------------------------------------------------------------------

(* Every notify wakes the smaller of its unsigned count and the number of  *)
(* waiters, and what notifies report adds up to the waits that return 0:   *)
(* no wait returns 0 on a signal and no waiter is reported twice.          *)
WakesExact == exact /\ credit = Cardinality({t \in Threads : pc[t] = "woken"})

(* The protocol of a guest lock: the word is changed, then all waiters are *)
(* notified.  A waiter for the old value does not sleep through both, even *)
(* if a signal has taken it out of the kernel in the meantime.             *)
NoLostWakeup == \A t \in Asleep : word # call[t].want => ~call[t].notified

(* A wait with a timeout at an address of the memory ends, however often it *)
(* is interrupted, and so does one that was woken.                         *)
WaitEnds ==
  \A t \in Threads :
    (pc[t] = "woken" \/ (Waiting(t) /\ call[t].at = "word" /\ call[t].timeout >= 0))
      ~> (pc[t] = "guest" \/ Aborted)

(* A wait at an address the kernel refuses never returns, whatever its     *)
(* timeout, notifies and stores: the loop takes every error but two for a  *)
(* signal.                                                                 *)
RefusedSpins ==
  [][\A t \in Threads :
       Waiting(t) /\ call[t].at = "refused"
         => (pc[t] \in {"issue", "retry"} /\ call[t].at = "refused")']_vars

=============================================================================
