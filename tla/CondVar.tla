------------------------------- MODULE CondVar -------------------------------
(***************************************************************************)
(* pthread_cond_wait, timedwait, signal and broadcast of pthread_sync.c,   *)
(* with deferred cancellation (pthread.c), used the way condition          *)
(* variables are meant to be: items is a counter protected by the mutex, a *)
(* consumer waits while it is 0, a producer adds one and then signals,     *)
(* with or without the mutex.  The mutex is the abstract lock PthreadMutex *)
(* implements, with an owner and a recursive count.                        *)
(*                                                                         *)
(* pc[t]:  idle     in the program                                         *)
(*         recheck  returned from a wait, owns the mutex, must look at the *)
(*                  items again                                            *)
(*         rel      in cond_wait, the sequence number loaded               *)
(*         fwait    the mutex released, about to call the futex wait       *)
(*         sleep    asleep in the kernel                                   *)
(*         relock   about to take the mutex back                           *)
(*         wake1, wakeall  in signal, broadcast: the sequence number       *)
(*                  incremented, about to call the futex wake              *)
(*         dead     acted on a cancellation request                        *)
(***************************************************************************)
EXTENDS SyncBase

VARIABLES owner, count,    \* the mutex
          nest,            \* nest[t]: locks minus unlocks the program of t made
          items, owes,     \* owes[t]: t added an item and has not signalled yet
          seq,             \* __seq of the condition variable
          snap, saved,     \* cond_wait's local copies of __seq and of the count
          res,             \* what the futex wait returned
          timed,           \* timed[t]: the wait has a time limit
          canceled,        \* p->canceled
          sigcancel,       \* signal 32 is pending for t
          pc

mutex == <<owner, count, nest>>
data == <<items, owes>>
locals == <<snap, saved, res, timed>>
cancel == <<canceled, sigcancel>>
vars == <<mutex, data, seq, locals, cancel, pc>>

Sleepers == {t \in Threads : pc[t] = "sleep"}
Blocked == {t \in Threads : pc[t] \in {"fwait", "sleep"}}

Init == /\ owner = NoOwner /\ count = 0 /\ nest = [t \in Threads |-> 0]
        /\ items = 0 /\ owes = [t \in Threads |-> FALSE]
        /\ seq = 0
        /\ snap = [t \in Threads |-> 0] /\ saved = [t \in Threads |-> 0]
        /\ res = [t \in Threads |-> "0"]
        /\ timed = [t \in Threads |-> FALSE]
        /\ canceled = [t \in Threads |-> FALSE]
        /\ sigcancel = [t \in Threads |-> FALSE]
        /\ pc = [t \in Threads |-> "idle"]

Goto(t, where) == pc' = [pc EXCEPT ![t] = where]

\* The program: lock (again), unlock, add an item, take an item.
Lock(t) == /\ pc[t] = "idle" /\ owner \in {NoOwner, t} /\ nest[t] < MaxDepth
           /\ owner' = t
           /\ count' = count + 1
           /\ nest' = [nest EXCEPT ![t] = @ + 1]
           /\ UNCHANGED <<data, seq, locals, cancel, pc>>

Unlock(t) == /\ pc[t] = "idle" /\ owner = t
             /\ owner' = IF count = 1 THEN NoOwner ELSE owner
             /\ count' = count - 1
             /\ nest' = [nest EXCEPT ![t] = @ - 1]
             /\ UNCHANGED <<data, seq, locals, cancel, pc>>

Put(t) == /\ pc[t] = "idle" /\ owner = t /\ items < MaxItems /\ ~owes[t]
          /\ items' = items + 1
          /\ owes' = [owes EXCEPT ![t] = TRUE]
          /\ UNCHANGED <<mutex, seq, locals, cancel, pc>>

Take(t) == /\ pc[t] \in {"idle", "recheck"} /\ owner = t /\ items > 0
           /\ items' = items - 1
           /\ Goto(t, "idle")
           /\ UNCHANGED <<mutex, owes, seq, locals, cancel>>

\* pthread_exit(PTHREAD_CANCELED) is taken when a request is seen.
Cancels(t) == canceled[t]

\* cond_wait up to the release of the mutex: a cancellation point, then the
\* sequence number is loaded and the count of the mutex saved.
WaitBegin(t, limited) ==
  /\ pc[t] \in {"idle", "recheck"} /\ owner = t /\ items = 0 /\ ~owes[t]
  /\ IF Cancels(t)
       THEN /\ Goto(t, "dead")
            /\ UNCHANGED <<mutex, locals>>
       ELSE /\ snap' = [snap EXCEPT ![t] = seq]
            /\ saved' = [saved EXCEPT ![t] = count]
            /\ timed' = [timed EXCEPT ![t] = limited]
            /\ count' = 1
            /\ Goto(t, "rel")
            /\ UNCHANGED <<owner, nest, res>>
  /\ UNCHANGED <<data, seq, cancel>>

\* Mutant: one level of a recursive mutex is released.
WaitReleaseOne(t) ==
  /\ pc[t] = "rel"
  /\ owner' = IF saved[t] = 1 THEN NoOwner ELSE owner
  /\ count' = saved[t] - 1
  /\ Goto(t, "fwait")
  /\ UNCHANGED <<nest, data, seq, locals, cancel>>

WaitRelease(t) ==
  /\ pc[t] = "rel"
  /\ owner' = NoOwner /\ count' = 0
  /\ Goto(t, "fwait")
  /\ UNCHANGED <<nest, data, seq, locals, cancel>>

\* Mutant: the futex compares with the number loaded after the release.
FutexWaitFresh(t) ==
  /\ pc[t] = "fwait"
  /\ Goto(t, "sleep")
  /\ snap' = [snap EXCEPT ![t] = 0]
  /\ UNCHANGED <<mutex, data, seq, saved, res, timed, cancel>>

\* __futex_timedwait: sleeps only if no signal came since the load (-EAGAIN,
\* which cond_wait treats as 0).
FutexWait(t) ==
  /\ pc[t] = "fwait"
  /\ Goto(t, IF seq = snap[t] THEN "sleep" ELSE "relock")
  /\ timed' = [timed EXCEPT ![t] = @ /\ seq = snap[t]]
  /\ snap' = [snap EXCEPT ![t] = 0]
  /\ UNCHANGED <<mutex, data, seq, saved, res, cancel>>

TimedOut(t) ==
  /\ pc[t] = "sleep" /\ timed[t]
  /\ res' = [res EXCEPT ![t] = "ETIMEDOUT"]
  /\ timed' = [timed EXCEPT ![t] = FALSE]
  /\ Goto(t, "relock")
  /\ UNCHANGED <<mutex, data, seq, snap, saved, cancel>>

\* A signal handler of the program interrupts the sleep.
Interrupted(t) ==
  /\ pc[t] = "sleep"
  /\ res' = [res EXCEPT ![t] = "EINTR"]
  /\ timed' = [timed EXCEPT ![t] = FALSE]
  /\ Goto(t, "relock")
  /\ UNCHANGED <<mutex, data, seq, snap, saved, cancel>>

\* Locals that are dead are set to 0 or FALSE: here those of a wait that is over.
Forget(t) == /\ saved' = [saved EXCEPT ![t] = 0]
             /\ res' = [res EXCEPT ![t] = "0"]

\* Mutant: the cancellation is acted on before the mutex is taken back.
WaitEndCancelFirst(t) ==
  /\ pc[t] = "relock"
  /\ IF res[t] = "EINTR" /\ Cancels(t)
       THEN Goto(t, "dead") /\ UNCHANGED <<owner, count>>
       ELSE /\ owner = NoOwner
            /\ owner' = t /\ count' = saved[t]
            /\ Goto(t, "recheck")
  /\ Forget(t)
  /\ UNCHANGED <<nest, data, seq, snap, timed, cancel>>

\* The end of cond_wait: the mutex and its count first, then, if the sleep was
\* interrupted, the cancellation point; a time-out goes back to the program,
\* anything else looks like a wake-up and makes it check its predicate.
WaitEnd(t) ==
  /\ pc[t] = "relock" /\ owner = NoOwner
  /\ owner' = t /\ count' = saved[t]
  /\ Goto(t, IF res[t] = "EINTR" /\ Cancels(t) THEN "dead"
             ELSE IF res[t] = "ETIMEDOUT" THEN "idle" ELSE "recheck")
  /\ Forget(t)
  /\ UNCHANGED <<nest, data, seq, snap, timed, cancel>>

\* Assumed of the program: fewer than 2^32 signals while one thread is between
\* the load of the sequence number and the futex wait.
NoWrap == \A t \in Threads :
            pc[t] \in {"rel", "fwait"} => snap[t] # (seq + 1) % SeqMod

\* pthread_cond_signal and pthread_cond_broadcast up to the futex wake
SignalBegin(t, wake) ==
  /\ pc[t] = "idle" /\ owes[t] /\ NoWrap
  /\ seq' = (seq + 1) % SeqMod
  /\ owes' = [owes EXCEPT ![t] = FALSE]
  /\ Goto(t, wake)
  /\ UNCHANGED <<mutex, items, locals, cancel>>

\* The sets of sleepers the futex wake of signal (1) or broadcast (INT_MAX) may choose.
Woken(all) ==
  IF all \/ Sleepers = {} THEN {Sleepers} ELSE {{s} : s \in Sleepers}

SignalWake(t) ==
  /\ pc[t] \in {"wake1", "wakeall"}
  /\ \E W \in Woken(pc[t] = "wakeall") :
       /\ pc' = [u \in Threads |-> IF u = t THEN "idle"
                                   ELSE IF u \in W THEN "relock" ELSE pc[u]]
       /\ timed' = [u \in Threads |-> u \notin W /\ timed[u]]
  /\ UNCHANGED <<mutex, data, seq, snap, saved, res, cancel>>

\* pthread_cancel(t) by some other thread: the flag, then signal 32.
Cancel(t) ==
  /\ t \in Cancellable /\ ~canceled[t] /\ pc[t] # "dead"
  /\ canceled' = [canceled EXCEPT ![t] = TRUE]
  /\ sigcancel' = [sigcancel EXCEPT ![t] = TRUE]
  /\ UNCHANGED <<mutex, data, seq, locals, pc>>

\* cancel_handler does nothing in deferred mode, but a sleep is interrupted.
DeliverCancel(t) ==
  /\ sigcancel[t] /\ pc[t] # "dead"
  /\ sigcancel' = [sigcancel EXCEPT ![t] = FALSE]
  /\ Goto(t, IF pc[t] = "sleep" THEN "relock" ELSE pc[t])
  /\ res' = [res EXCEPT ![t] = IF pc[t] = "sleep" THEN "EINTR" ELSE @]
  /\ timed' = [timed EXCEPT ![t] = @ /\ pc[t] # "sleep"]
  /\ UNCHANGED <<mutex, data, seq, snap, saved, canceled>>

Program(t) == Lock(t) \/ Unlock(t) \/ Put(t) \/ Take(t)

WaitStep(t) == \/ \E limited \in BOOLEAN : WaitBegin(t, limited)
               \/ WaitRelease(t) \/ FutexWait(t)
               \/ TimedOut(t) \/ Interrupted(t) \/ WaitEnd(t)

SignalStep(t) == (\E wake \in {"wake1", "wakeall"} : SignalBegin(t, wake)) \/ SignalWake(t)

Next == \E t \in Threads :
          Program(t) \/ WaitStep(t) \/ SignalStep(t) \/ Cancel(t) \/ DeliverCancel(t)

Spec == Init /\ [][Next]_vars

\* Library code that is not asleep runs on, signals are delivered, a program
\* that owns the mutex and has nothing to wait for takes an item or unlocks.
Fairness ==
  \A t \in Threads :
    /\ WF_vars(WaitRelease(t)) /\ WF_vars(FutexWait(t)) /\ WF_vars(TimedOut(t))
    /\ SF_vars(WaitEnd(t))
    /\ WF_vars(SignalStep(t)) /\ WF_vars(DeliverCancel(t))
    /\ WF_vars(pc[t] = "recheck" /\ (Take(t) \/ WaitBegin(t, FALSE)))
    /\ WF_vars(Unlock(t))

FairSpec == Spec /\ Fairness
-----------------------------------------------------------------------------
TypeOK == /\ owner \in Threads \cup {NoOwner}
          /\ count \in 0..MaxDepth
          /\ nest \in [Threads -> 0..MaxDepth]
          /\ items \in 0..MaxItems
          /\ owes \in [Threads -> BOOLEAN]
          /\ seq \in 0..(SeqMod - 1)
          /\ snap \in [Threads -> 0..(SeqMod - 1)]
          /\ saved \in [Threads -> 0..MaxDepth]
          /\ res \in [Threads -> {"0", "EINTR", "ETIMEDOUT"}]
          /\ timed \in [Threads -> BOOLEAN]
          /\ canceled \in [Threads -> BOOLEAN]
          /\ sigcancel \in [Threads -> BOOLEAN]
          /\ pc \in [Threads -> {"idle", "recheck", "rel", "fwait", "sleep",
                                 "relock", "wake1", "wakeall", "dead"}]

\* The threads that will look at the items, or will make another thread look.
Attentive == {t \in Threads :
                \/ owes[t]
                \/ pc[t] \in {"wake1", "wakeall", "recheck"}
                \/ pc[t] = "relock" /\ res[t] # "ETIMEDOUT" /\ ~(res[t] = "EINTR" /\ Cancels(t))
                \/ pc[t] = "fwait" /\ snap[t] # seq}

\* No signal is lost between the load of the sequence number, the release of the
\* mutex and the futex wait: while a consumer sleeps, there are never more items
\* than threads on their way to take one.
NoForgottenWaiter == Sleepers # {} => items <= Cardinality(Attentive)

\* A recursive mutex is released completely by a wait and comes back with the
\* depth it had, so the program's unlocks still match its locks.
DepthKept ==
  \A t \in Threads :
    IF pc[t] \in {"fwait", "sleep", "relock"}
      THEN owner # t /\ saved[t] = nest[t]
      ELSE owner = t /\ pc[t] # "rel" => count = nest[t]

\* Who has the mutex, and how often: the thread in cond_wait up to the release, one
\* that returned from it or acted on a request there, and otherwise the one thread
\* whose program locked it.  A waiter does not owe a signal, and only one whose sleep
\* has ended has a result of it.
OwnerKnown ==
  /\ owner = NoOwner => count = 0
  /\ \A t \in Threads :
       /\ pc[t] \in {"rel", "recheck", "dead"} => owner = t
       /\ pc[t] = "rel" => count = 1 /\ items = 0 /\ saved[t] = nest[t]
       /\ IF pc[t] \in {"fwait", "sleep", "relock"} THEN nest[t] > 0
                                                   ELSE owner = t <=> nest[t] > 0
       /\ pc[t] \in {"rel", "fwait", "sleep", "relock"} => ~owes[t]
       /\ res[t] # "0" => pc[t] = "relock"

\* Those of Attentive that no cancellation can take away.
Sure == {t \in Threads :
           \/ owes[t]
           \/ pc[t] \in {"wake1", "wakeall", "recheck"}
           \/ pc[t] = "relock" /\ res[t] = "0"
           \/ pc[t] = "fwait" /\ snap[t] # seq}
SignalsEnough == Sleepers # {} => items <= Cardinality(Sure)

\* While a thread is about to sleep on the sequence number of now, every item there
\* is was added after it loaded the number, and its signal is still to come.
Owing == {t \in Threads : owes[t]}
SignalsToCome == (\E t \in Threads : pc[t] = "fwait" /\ snap[t] = seq)
                   => items <= Cardinality(Owing)

\* With them, NoForgottenWaiter and DepthKept are inductive.
IInv == /\ TypeOK /\ DepthKept /\ OwnerKnown /\ SignalsEnough /\ SignalsToCome

\* A thread that is cancelled in a wait owns the mutex again when it acts on it.
DiesOwningMutex ==
  [][\A t \in Threads :
       pc[t] # "dead" /\ pc'[t] = "dead" => owner' = t /\ count' = nest'[t]]_vars

\* pthread.c says that cancellation "is acted on at ... the condition variable
\* waits": a thread asleep in a wait with a request outstanding leaves it.
CancelEndsWait ==
  \A t \in Threads : (canceled[t] /\ pc[t] = "sleep") ~> pc[t] # "sleep"
=============================================================================
