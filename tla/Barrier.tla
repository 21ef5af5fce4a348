------------------------------- MODULE Barrier -------------------------------
(***************************************************************************)
(* pthread_barrier_wait of pthread_sync.c: a mutex, a condition variable,  *)
(* the count of the threads that arrived and the number of the cycle.      *)
(* More threads than the target may use the barrier, so a fast thread can  *)
(* be back for the next cycle before the slow ones have left this one.     *)
(* The wait disables cancellation, so the cancellation points of the       *)
(* condition wait do nothing.                                              *)
(*                                                                         *)
(* pc[t]:  idle, lock (in pthread_mutex_lock), wake (the last to arrive,   *)
(*         in the broadcast, owns the mutex), unlock, fwait (in cond_wait, *)
(*         mutex released), sleep, relock                                  *)
(***************************************************************************)
EXTENDS SyncBase

VARIABLES target,          \* __target
          owner, count, cycle, seq,
          mycycle, snap,   \* local copies of __cycle and of the condition's __seq
          pc,
          arrived,         \* calls that incremented __count so far
          ticket           \* ticket[t]: the number of the arrival of t's call

vars == <<target, owner, count, cycle, seq, mycycle, snap, pc, arrived, ticket>>

Sleepers == {t \in Threads : pc[t] = "sleep"}

Init == /\ target \in Targets
        /\ owner = NoOwner /\ count = 0 /\ cycle = 0 /\ seq = 0
        /\ mycycle = [t \in Threads |-> 0] /\ snap = [t \in Threads |-> 0]
        /\ pc = [t \in Threads |-> "idle"]
        /\ arrived = 0 /\ ticket = [t \in Threads |-> 0]

Goto(t, where) == pc' = [pc EXCEPT ![t] = where]

Callers == {t \in Threads : pc[t] = "lock"}

Call(t) == /\ pc[t] = "idle"
           /\ arrived + Cardinality(Callers) < MaxArrivals
           /\ Goto(t, "lock")
           /\ UNCHANGED <<target, owner, count, cycle, seq, mycycle, snap, arrived, ticket>>

\* Assumed: no thread sleeps through 2^32 cycles.
NoWrap == \A t \in Threads : pc[t] \in {"fwait", "sleep", "relock"} =>
            /\ mycycle[t] # (cycle + 1) % SeqMod
            /\ pc[t] = "fwait" => snap[t] # (seq + 1) % SeqMod

\* The mutex is taken, and the thread is the last to arrive: a new cycle begins
\* and the broadcast has incremented the sequence number.
EnterLast(t) ==
  /\ pc[t] = "lock" /\ owner = NoOwner /\ count + 1 = target /\ NoWrap
  /\ count' = 0
  /\ cycle' = (cycle + 1) % SeqMod
  /\ seq' = (seq + 1) % SeqMod
  /\ owner' = t
  /\ Goto(t, "wake")
  /\ arrived' = arrived + 1
  /\ ticket' = [ticket EXCEPT ![t] = arrived + 1]
  /\ UNCHANGED <<target, mycycle, snap>>

\* Not the last: the cycle and the sequence number are loaded and the mutex is
\* released, all while it is owned.
EnterWait(t) ==
  /\ pc[t] = "lock" /\ owner = NoOwner /\ count + 1 # target
  /\ count' = count + 1
  /\ mycycle' = [mycycle EXCEPT ![t] = cycle]
  /\ snap' = [snap EXCEPT ![t] = seq]
  /\ Goto(t, "fwait")
  /\ arrived' = arrived + 1
  /\ ticket' = [ticket EXCEPT ![t] = arrived + 1]
  /\ UNCHANGED <<target, owner, cycle, seq>>

\* Mutant: a signal instead of a broadcast.
WakeOne(t) ==
  /\ pc[t] = "wake"
  /\ IF Sleepers = {}
       THEN Goto(t, "unlock")
       ELSE \E s \in Sleepers : pc' = [pc EXCEPT ![t] = "unlock", ![s] = "relock"]
  /\ UNCHANGED <<target, owner, count, cycle, seq, mycycle, snap, arrived, ticket>>

WakeAll(t) ==
  /\ pc[t] = "wake"
  /\ pc' = [u \in Threads |-> IF u = t THEN "unlock"
                              ELSE IF u \in Sleepers THEN "relock" ELSE pc[u]]
  /\ UNCHANGED <<target, owner, count, cycle, seq, mycycle, snap, arrived, ticket>>

\* returns PTHREAD_BARRIER_SERIAL_THREAD
LeaveSerial(t) ==
  /\ pc[t] = "unlock"
  /\ owner' = NoOwner
  /\ ticket' = [ticket EXCEPT ![t] = 0]
  /\ Goto(t, "idle")
  /\ UNCHANGED <<target, count, cycle, seq, mycycle, snap, arrived>>

FutexWait(t) ==
  /\ pc[t] = "fwait"
  /\ Goto(t, IF seq = snap[t] THEN "sleep" ELSE "relock")
  /\ snap' = [snap EXCEPT ![t] = 0]
  /\ UNCHANGED <<target, owner, count, cycle, seq, mycycle, arrived, ticket>>

\* A handler of the program, or a cancellation request, interrupts the sleep.
Interrupted(t) ==
  /\ pc[t] = "sleep"
  /\ Goto(t, "relock")
  /\ UNCHANGED <<target, owner, count, cycle, seq, mycycle, snap, arrived, ticket>>

\* Mutant: a wait that returns is taken for the end of the cycle.
LeaveOnWakeup(t) ==
  /\ pc[t] = "relock" /\ owner = NoOwner
  /\ mycycle' = [mycycle EXCEPT ![t] = 0]
  /\ ticket' = [ticket EXCEPT ![t] = 0]
  /\ Goto(t, "idle")
  /\ UNCHANGED <<target, owner, count, cycle, seq, snap, arrived>>

\* cond_wait has the mutex back and the loop's condition is false: return 0.
Leave(t) ==
  /\ pc[t] = "relock" /\ owner = NoOwner /\ mycycle[t] # cycle
  /\ mycycle' = [mycycle EXCEPT ![t] = 0]
  /\ ticket' = [ticket EXCEPT ![t] = 0]
  /\ Goto(t, "idle")
  /\ UNCHANGED <<target, owner, count, cycle, seq, snap, arrived>>

\* The cycle has not ended: wait again.
WaitAgain(t) ==
  /\ pc[t] = "relock" /\ owner = NoOwner /\ mycycle[t] = cycle
  /\ snap' = [snap EXCEPT ![t] = seq]
  /\ Goto(t, "fwait")
  /\ UNCHANGED <<target, owner, count, cycle, seq, mycycle, arrived, ticket>>

WithMutex(t) == EnterLast(t) \/ EnterWait(t) \/ Leave(t) \/ WaitAgain(t)
Running(t) == WakeAll(t) \/ LeaveSerial(t) \/ FutexWait(t)

Next == \E t \in Threads : Call(t) \/ WithMutex(t) \/ Running(t) \/ Interrupted(t)

Spec == Init /\ [][Next]_vars

\* A thread that is not asleep runs on, and gets a mutex that is free again and
\* again (FutexLock shows what the lock itself gives).
FairSpec == Spec /\ \A t \in Threads : WF_vars(Running(t)) /\ SF_vars(WithMutex(t))
-----------------------------------------------------------------------------
TypeOK == /\ target \in Targets
          /\ owner \in Threads \cup {NoOwner}
          /\ count \in 0..(target - 1)
          /\ {cycle, seq} \subseteq 0..(SeqMod - 1)
          /\ mycycle \in [Threads -> 0..(SeqMod - 1)]
          /\ snap \in [Threads -> 0..(SeqMod - 1)]
          /\ pc \in [Threads -> {"idle", "lock", "wake", "unlock", "fwait", "sleep", "relock"}]
          /\ arrived \in 0..MaxArrivals
          /\ ticket \in [Threads -> 0..MaxArrivals]

\* The arrivals are divided into groups of target; a call is released when its
\* group is complete.
Complete(k) == arrived >= ((k + target - 1) \div target) * target

\* A call of pthread_barrier_wait returns only when __target calls of its own cycle
\* have been made, whatever wakes its condition wait and however early the
\* threads of the next cycle arrive.
NoEarlyRelease ==
  [][\A t \in Threads : ticket[t] # 0 /\ ticket'[t] = 0 => Complete(ticket[t])]_vars

\* No thread of a complete cycle is asleep once the broadcast is over, so none
\* depends on the next cycle to be woken.
NobodyLeftBehind ==
  (\A t \in Threads : pc[t] # "wake") =>
    \A t \in Sleepers : ~Complete(ticket[t])

\* What makes both inductive: __count is where the arrivals are in their group, the
\* mutex is the last arrival's, and a waiter's group is complete exactly when the
\* cycle it saw is over; one about to sleep on the number of now is not late.
CyclesTrue ==
  /\ count = arrived % target
  /\ arrived + Cardinality(Callers) <= MaxArrivals
  /\ \A t \in Threads :
       /\ pc[t] \in {"idle", "lock"} <=> ticket[t] = 0
       /\ ticket[t] <= arrived
       /\ pc[t] \in {"wake", "unlock"} <=> owner = t
       /\ pc[t] \in {"wake", "unlock"} => Complete(ticket[t])
       /\ pc[t] \in {"fwait", "sleep", "relock"} => (mycycle[t] = cycle <=> ~Complete(ticket[t]))
       /\ pc[t] = "fwait" /\ snap[t] = seq => ~Complete(ticket[t])

IInv == TypeOK /\ CyclesTrue /\ NobodyLeftBehind
=============================================================================
