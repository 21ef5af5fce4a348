---------------------------- MODULE PthreadMutex ----------------------------
(***************************************************************************)
(* pthread_mutex_lock, trylock, timedlock and unlock of pthread_sync.c on  *)
(* one mutex, for the three mutex types.  __lock is 0 free, 1 locked, 2    *)
(* locked with waiters; __owner and __count are plain fields written by    *)
(* the thread that holds the lock word.                                    *)
(*                                                                         *)
(* pc[t]:  idle   in no mutex function                                     *)
(*         xchg   in acquire, about to exchange the word with 2            *)
(*         fwait  about to call the futex wait                             *)
(*         sleep  asleep in the kernel                                     *)
(*         own    the word is acquired, about to write owner and count     *)
(*         free   in unlock, owner and count cleared, word not yet         *)
(*         wake   in unlock, about to wake one sleeper                     *)
(* The bounded spin before the first exchange only delays the caller and   *)
(* is not a step.                                                          *)
(***************************************************************************)
EXTENDS Integers, FiniteSets

CONSTANTS Threads,
          NoOwner,     \* the 0 of __owner
          MaxCount     \* INT_MAX, the limit of a recursive count

ASSUME NoOwnerAssumption == NoOwner \notin Threads
ASSUME MaxCountAssumption == MaxCount \in Nat \ {0}

Types == {"NORMAL", "RECURSIVE", "ERRORCHECK"}
Calls == {"lock", "try", "timed"}

VARIABLES type, lock, owner, count, pc,
          call,    \* call[t]: the function t last called to lock
          depth    \* depth[t]: successful locks minus successful unlocks of t

vars == <<type, lock, owner, count, pc, call, depth>>

Sleepers == {t \in Threads : pc[t] = "sleep"}

\* pthread_mutex_init, for each of the types
Init == /\ type \in Types
        /\ lock = 0 /\ owner = NoOwner /\ count = 0
        /\ pc = [t \in Threads |-> "idle"]
        /\ call = [t \in Threads |-> "lock"]
        /\ depth = [t \in Threads |-> 0]

Goto(t, where) == pc' = [pc EXCEPT ![t] = where]

\* Mutant: only error-checking mutexes test their owner.
RelocksErrorcheck(t) == type = "ERRORCHECK" /\ owner = t

Relocks(t) == type # "NORMAL" /\ owner = t

\* lock_common by the owner of a mutex with an owner test: EDEADLK for an
\* error-checking one, EAGAIN at the limit of the count, or one level more.
LockOwned(t, c) ==
  /\ pc[t] = "idle" /\ Relocks(t)
  /\ IF type = "RECURSIVE" /\ count < MaxCount
       THEN /\ count' = count + 1
            /\ depth' = [depth EXCEPT ![t] = @ + 1]
       ELSE UNCHANGED <<count, depth>>
  /\ call' = [call EXCEPT ![t] = c]
  /\ UNCHANGED <<type, lock, owner, pc>>

\* lock_common otherwise, up to the first compare-and-swap: a trylock that
\* fails returns EBUSY, the others go on in acquire.
LockFirst(t, c) ==
  /\ pc[t] = "idle" /\ ~Relocks(t)
  /\ call' = [call EXCEPT ![t] = c]
  /\ lock' = IF lock = 0 THEN 1 ELSE lock
  /\ Goto(t, IF lock = 0 THEN "own" ELSE IF c = "try" THEN "idle" ELSE "xchg")
  /\ UNCHANGED <<type, owner, count, depth>>

\* acquire's loop: exchange(lock, 2)
Exchange(t) ==
  /\ pc[t] = "xchg"
  /\ lock' = 2
  /\ Goto(t, IF lock = 0 THEN "own" ELSE "fwait")
  /\ UNCHANGED <<type, owner, count, call, depth>>

FutexWait(t) ==
  /\ pc[t] = "fwait"
  /\ Goto(t, IF lock = 2 THEN "sleep" ELSE "xchg")
  /\ UNCHANGED <<type, lock, owner, count, call, depth>>

\* -EINTR: acquire tries again
Interrupted(t) ==
  /\ pc[t] = "sleep"
  /\ Goto(t, "xchg")
  /\ UNCHANGED <<type, lock, owner, count, call, depth>>

\* Mutant: a waiter that times out takes its waiters mark back.
TimedOutUnmarks(t) ==
  /\ pc[t] = "sleep" /\ call[t] = "timed"
  /\ lock' = IF lock = 2 THEN 1 ELSE lock
  /\ Goto(t, "idle")
  /\ UNCHANGED <<type, owner, count, call, depth>>

\* -ETIMEDOUT: acquire gives up and leaves the word at 2
TimedOut(t) ==
  /\ pc[t] = "sleep" /\ call[t] = "timed"
  /\ Goto(t, "idle")
  /\ UNCHANGED <<type, lock, owner, count, call, depth>>

\* the end of lock_common
TakeOwnership(t) ==
  /\ pc[t] = "own"
  /\ owner' = t
  /\ count' = 1
  /\ depth' = [depth EXCEPT ![t] = @ + 1]
  /\ Goto(t, "idle")
  /\ UNCHANGED <<type, lock, call>>

\* Callers that never own the mutex unlock it only where the code defines the
\* outcome: a NORMAL mutex that is not theirs only while it is free (EPERM).
MayUnlock(t) == depth[t] > 0 \/ type # "NORMAL" \/ lock = 0

\* Mutant: the owner test covers error-checking mutexes only.
UnlockFailsErrorcheck(t) ==
  lock = 0 \/ (type = "ERRORCHECK" /\ owner # t)

UnlockFails(t) == lock = 0 \/ (type # "NORMAL" /\ owner # t)

\* Mutant: a recursive unlock clears the whole count.
UnlockKeepsAll(t) == FALSE

\* --count of a recursive mutex is not yet 0
UnlockKeeps(t) == type = "RECURSIVE" /\ count # 1

\* Mutant: the owner is left in place when the word is given up.
UnlockKeepsOwner(t) ==
  /\ pc[t] = "idle" /\ MayUnlock(t) /\ ~UnlockFails(t)
  /\ count' = count - 1
  /\ depth' = [depth EXCEPT ![t] = @ - 1]
  /\ IF UnlockKeeps(t) THEN UNCHANGED pc ELSE Goto(t, "free")
  /\ UNCHANGED <<type, lock, owner, call>>

\* pthread_mutex_unlock up to the exchange; EPERM changes nothing.
Unlock(t) ==
  /\ pc[t] = "idle" /\ MayUnlock(t) /\ ~UnlockFails(t)
  /\ IF UnlockKeeps(t)
       THEN /\ count' = count - 1
            /\ depth' = [depth EXCEPT ![t] = @ - 1]
            /\ UNCHANGED <<owner, pc>>
       ELSE /\ owner' = NoOwner
            /\ count' = 0
            /\ depth' = [depth EXCEPT ![t] = @ - 1]
            /\ Goto(t, "free")
  /\ UNCHANGED <<type, lock, call>>

\* exchange(lock, 0) == 2 means that somebody may be asleep.
ReleaseWord(t) ==
  /\ pc[t] = "free"
  /\ lock' = 0
  /\ Goto(t, IF lock = 2 THEN "wake" ELSE "idle")
  /\ UNCHANGED <<type, owner, count, call, depth>>

\* Mutant: the sleeper is not woken.
FutexWakeNone(t) ==
  /\ pc[t] = "wake"
  /\ Goto(t, "idle")
  /\ UNCHANGED <<type, lock, owner, count, call, depth>>

FutexWake(t) ==
  /\ pc[t] = "wake"
  /\ IF Sleepers = {}
       THEN Goto(t, "idle")
       ELSE \E s \in Sleepers : pc' = [pc EXCEPT ![t] = "idle", ![s] = "xchg"]
  /\ UNCHANGED <<type, lock, owner, count, call, depth>>

LockStep(t) == \/ \E c \in Calls : LockOwned(t, c) \/ LockFirst(t, c)
               \/ Exchange(t) \/ FutexWait(t) \/ Interrupted(t) \/ TimedOut(t)
               \/ TakeOwnership(t)

UnlockStep(t) == Unlock(t) \/ ReleaseWord(t) \/ FutexWake(t)

Next == \E t \in Threads : LockStep(t) \/ UnlockStep(t)

\* A thread inside a mutex function and not asleep keeps running.
Running(t) == \/ Exchange(t) \/ FutexWait(t) \/ TakeOwnership(t)
              \/ ReleaseWord(t) \/ FutexWake(t)

Spec == Init /\ [][Next]_vars

FairSpec == Spec /\ \A t \in Threads : WF_vars(Running(t))
-----------------------------------------------------------------------------
Locations == {"idle", "xchg", "fwait", "sleep", "own", "free", "wake"}

\* The fields of the mutex and the threads' places in its functions have their types.
TypeOK == /\ type \in Types
          /\ lock \in 0..2
          /\ owner \in Threads \cup {NoOwner}
          /\ count \in 0..MaxCount
          /\ pc \in [Threads -> Locations]
          /\ call \in [Threads -> Calls]
          /\ depth \in [Threads -> Nat]

\* From the acquisition of the word to the exchange that frees it.
Holders == {t \in Threads : depth[t] > 0 \/ pc[t] \in {"own", "free"}}

\* At most one thread holds the mutex, whatever mix of lock, trylock, timedlock
\* (and its time-out) and nested unlocks led there.
MutualExclusion == \A s, t \in Holders : s = t

\* __lock is 0 exactly when nobody holds the mutex.
WordTellsHolder == (lock = 0) <=> (Holders = {})

\* __owner and __count are written without atomics, yet they name the holder
\* and the number of unlocks it still owes whenever it is outside the mutex
\* functions, and name nobody while nobody holds the mutex.
OwnerMatchesHolder ==
  /\ \A t \in Threads : depth[t] > 0 => owner = t
  /\ \A t \in Threads : pc[t] \in {"own", "free"} => owner = NoOwner /\ depth[t] = 0
  /\ \A t \in Threads : owner = t => count = depth[t]
  /\ Holders = {} => owner = NoOwner
  /\ type # "RECURSIVE" => count <= 1

\* A sleeper in acquire is never forgotten, also when another waiter timed out
\* and left the word at 2 or took the wake-up with it.
NoLostWakeup ==
  Sleepers # {} => lock = 2 \/ \E t \in Threads : pc[t] \in {"xchg", "wake"}

\* A recursive or error-checking mutex never makes its own holder wait.
NoSelfDeadlock ==
  type # "NORMAL" =>
    \A t \in Threads : pc[t] \in {"xchg", "fwait", "sleep"} => depth[t] = 0

\* The inductive invariant of the mutex functions: who holds the mutex, what its
\* fields say of it, and that nobody sleeps who will not be woken.
IInv == /\ TypeOK /\ MutualExclusion /\ WordTellsHolder /\ OwnerMatchesHolder
        /\ NoLostWakeup /\ NoSelfDeadlock

Abstract == INSTANCE Lock WITH
  holder <- Holders,
  want <- {t \in Threads : pc[t] \in {"xchg", "fwait", "sleep"} /\ depth[t] = 0}

AbstractSafety == Abstract!LockSafety

\* The mutex implements the abstract lock: one holder, and whenever it is free
\* and a thread is in acquire, some thread gets it or gives up.
ImplementsLock == Abstract!LockSpec
=============================================================================
