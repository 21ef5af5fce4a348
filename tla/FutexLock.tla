------------------------------ MODULE FutexLock ------------------------------
(***************************************************************************)
(* The internal lock of the library, __lock and __unlock of runtime.c: an  *)
(* int that is 0 when free, 1 when held and 2 when held and a thread may   *)
(* sleep on it, with the private futex of the kernel behind it.  Every     *)
(* atomic instruction and every system call is one step.                   *)
(*                                                                         *)
(* pc[t] is where thread t is in the code:                                 *)
(*   out    outside                                                        *)
(*   mark   about to CAS the word from 1 to 2                              *)
(*   wait   about to call futex_wait(l, 2)                                 *)
(*   sleep  asleep in the kernel                                           *)
(*   retry  about to CAS the word from 0 to 2                              *)
(*   cs     __lock has returned                                            *)
(*   store  in __unlock, fetch_and_sub returned 2, about to store 0        *)
(*   wake   in __unlock, about to call futex_wake(l, 1)                    *)
(***************************************************************************)
EXTENDS Integers, FiniteSets

CONSTANT Threads

VARIABLES l,        \* the lock word
          pc

vars == <<l, pc>>

Sleepers == {t \in Threads : pc[t] = "sleep"}

\* The threads that own the word: the store of 0 is what gives it up.
Holders == {t \in Threads : pc[t] \in {"cs", "store"}}

Init == l = 0 /\ pc = [t \in Threads |-> "out"]

Goto(t, where) == pc' = [pc EXCEPT ![t] = where]

\* What the loop of __lock does next after a CAS that returned l, not 0.
AfterFailedCAS(t) == Goto(t, IF l = 2 THEN "wait" ELSE "mark")

\* c = CAS(l, 0, 1); if it succeeded, return.
LockFast(t) ==
  /\ pc[t] = "out"
  /\ IF l = 0 THEN l' = 1 /\ Goto(t, "cs")
              ELSE AfterFailedCAS(t) /\ UNCHANGED l

\* Mutant: a fetch_and_add in place of the CAS.
MarkContendedAdd(t) ==
  /\ pc[t] = "mark"
  /\ l' = l + 1
  /\ Goto(t, IF l = 0 THEN "retry" ELSE "wait")

\* CAS(l, 1, 2) != 0 : sleep; the word was free : straight to the retry.
MarkContended(t) ==
  /\ pc[t] = "mark"
  /\ l' = IF l = 1 THEN 2 ELSE l
  /\ Goto(t, IF l = 0 THEN "retry" ELSE "wait")

\* The kernel compares the word with 2 and puts the caller to sleep, as one step.
FutexWait(t) ==
  /\ pc[t] = "wait"
  /\ Goto(t, IF l = 2 THEN "sleep" ELSE "retry")
  /\ UNCHANGED l

\* A signal interrupts the sleep: futex_wait returns -EINTR, which is ignored.
Interrupted(t) ==
  /\ pc[t] = "sleep"
  /\ Goto(t, "retry")
  /\ UNCHANGED l

\* Mutant: a thread that was woken takes the lock to be handed over.
LockRetryHandover(t) ==
  /\ pc[t] = "retry"
  /\ l' = 2 /\ Goto(t, "cs")

\* Mutant: the retry acquires with 1, as the fast path does.
LockRetryOne(t) ==
  /\ pc[t] = "retry"
  /\ IF l = 0 THEN l' = 1 /\ Goto(t, "cs")
              ELSE AfterFailedCAS(t) /\ UNCHANGED l

LockRetry(t) ==
  /\ pc[t] = "retry"
  /\ IF l = 0 THEN l' = 2 /\ Goto(t, "cs")
              ELSE AfterFailedCAS(t) /\ UNCHANGED l

\* fetch_and_sub(l, 1) != 1 means that somebody may be asleep.
UnlockFetchSub(t) ==
  /\ pc[t] = "cs"
  /\ l' = l - 1
  /\ Goto(t, IF l = 1 THEN "out" ELSE "store")

\* Mutant: __unlock returns without the futex_wake.
UnlockStoreNoWake(t) ==
  /\ pc[t] = "store"
  /\ l' = 0
  /\ Goto(t, "out")

UnlockStore(t) ==
  /\ pc[t] = "store"
  /\ l' = 0
  /\ Goto(t, "wake")

FutexWake(t) ==
  /\ pc[t] = "wake"
  /\ IF Sleepers = {}
       THEN Goto(t, "out")
       ELSE \E s \in Sleepers : pc' = [pc EXCEPT ![t] = "out", ![s] = "retry"]
  /\ UNCHANGED l

LockStep(t) == LockFast(t) \/ MarkContended(t) \/ FutexWait(t) \/ LockRetry(t)

UnlockStep(t) == UnlockFetchSub(t) \/ UnlockStore(t) \/ FutexWake(t)

Next == \E t \in Threads : LockStep(t) \/ Interrupted(t) \/ UnlockStep(t)

\* A thread that is inside __lock or __unlock and not asleep keeps running.
Running(t) == \/ MarkContended(t) \/ FutexWait(t) \/ LockRetry(t)
              \/ UnlockStore(t) \/ FutexWake(t)

Fairness == \A t \in Threads : WF_vars(Running(t))

Spec == Init /\ [][Next]_vars

FairSpec == Spec /\ Fairness
-----------------------------------------------------------------------------
Locations == {"out", "mark", "wait", "sleep", "retry", "cs", "store", "wake"}

\* The word takes only the three values the comment of runtime.c gives it.
TypeOK == /\ l \in 0..2
          /\ pc \in [Threads -> Locations]

\* At most one thread is between the return of __lock and the release in
\* __unlock, also while the word passes through 1 on its way from 2 to 0.
MutualExclusion == \A s, t \in Holders : s = t

\* The word is 0 exactly when nobody holds the lock.
WordTellsHolder == (l = 0) <=> (Holders = {})

\* A sleeping thread is never forgotten: the word is 2, so the unlock to come
\* will wake somebody, or a thread that is already awake will mark it or pass
\* the wake-up on.
NoLostWakeup ==
  Sleepers # {} => \/ l = 2
                   \/ \E t \in Threads : pc[t] \in {"mark", "retry", "store", "wake"}

\* The inductive invariant of __lock and __unlock: none of its parts is preserved
\* by every step without the others.
IInv == TypeOK /\ MutualExclusion /\ WordTellsHolder /\ NoLostWakeup

\* What the callers see: holder and waiting threads of the abstract lock.
Abstract == INSTANCE Lock WITH
  holder <- Holders,
  want <- {t \in Threads : pc[t] \in {"mark", "wait", "sleep", "retry"}}

AbstractSafety == Abstract!LockSafety

\* __lock and __unlock implement the abstract lock: its one holder, and its
\* promise that a free lock that is wanted is eventually taken.
ImplementsLock == Abstract!LockSpec
=============================================================================
