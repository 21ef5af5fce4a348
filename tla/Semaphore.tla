------------------------------ MODULE Semaphore ------------------------------
(***************************************************************************)
(* sem_wait, timedwait, trywait and post of semaphore.c on one semaphore.  *)
(* val is __val[0], the count the waiters sleep on; waiters is __val[1].   *)
(*                                                                         *)
(* pc[t]:  idle, loop (about to load and take the count), inc, fwait,      *)
(*         sleep, dec (about to decrement the waiters; res tells what the  *)
(*         futex wait returned), chk (in sem_post, the count incremented), *)
(*         wake, dead (acted on a cancellation request)                    *)
(***************************************************************************)
EXTENDS SyncBase

VARIABLES val, waiters, pc, timed, res, canceled, sigcancel

vars == <<val, waiters, pc, timed, res, canceled, sigcancel>>

Limits == {"none", "until", "invalid"}   \* the abs argument of sem_clockwait
Sleepers == {t \in Threads : pc[t] = "sleep"}

Init == /\ val = Initial /\ waiters = 0
        /\ pc = [t \in Threads |-> "idle"]
        /\ timed = [t \in Threads |-> "none"]
        /\ res = [t \in Threads |-> "0"]
        /\ canceled = [t \in Threads |-> FALSE]
        /\ sigcancel = [t \in Threads |-> FALSE]

Goto(t, where) == pc' = [pc EXCEPT ![t] = where]

\* sem_wait, sem_timedwait, sem_clockwait: the cancellation point at the start.
\* The time limit of a call that is over is dead, and set to "none".
WaitCall(t, limited) ==
  /\ pc[t] = "idle"
  /\ timed' = [timed EXCEPT ![t] = IF canceled[t] THEN "none" ELSE limited]
  /\ Goto(t, IF canceled[t] THEN "dead" ELSE "loop")
  /\ UNCHANGED <<val, waiters, res, canceled, sigcancel>>

TryWait(t) ==
  /\ pc[t] = "idle" /\ val > 0
  /\ val' = val - 1
  /\ UNCHANGED <<waiters, pc, timed, res, canceled, sigcancel>>

\* One round of sem_clockwait's loop: a token is taken, or a time limit that is
\* not a time is refused (EINVAL), or the caller goes to wait.
WaitTry(t) ==
  /\ pc[t] = "loop"
  /\ val' = IF val > 0 THEN val - 1 ELSE val
  /\ Goto(t, IF val > 0 \/ timed[t] = "invalid" THEN "idle" ELSE "inc")
  /\ timed' = [timed EXCEPT ![t] = IF val > 0 \/ @ = "invalid" THEN "none" ELSE @]
  /\ UNCHANGED <<waiters, res, canceled, sigcancel>>

IncWaiters(t) ==
  /\ pc[t] = "inc"
  /\ waiters' = waiters + 1
  /\ Goto(t, "fwait")
  /\ UNCHANGED <<val, timed, res, canceled, sigcancel>>

\* Mutant: the futex does not compare.
FutexWaitAnyway(t) ==
  /\ pc[t] = "fwait"
  /\ Goto(t, "sleep")
  /\ UNCHANGED <<val, waiters, timed, res, canceled, sigcancel>>

\* Only a count that was not positive gets here, and it is never negative.
FutexWait(t) ==
  /\ pc[t] = "fwait"
  /\ Goto(t, IF val = 0 THEN "sleep" ELSE "dec")
  /\ UNCHANGED <<val, waiters, timed, res, canceled, sigcancel>>

\* A handler of the program, or the time limit, ends the sleep.
SleepFails(t, why) ==
  /\ pc[t] = "sleep" /\ (why = "ETIMEDOUT" => timed[t] = "until")
  /\ res' = [res EXCEPT ![t] = why]
  /\ Goto(t, "dec")
  /\ UNCHANGED <<val, waiters, timed, canceled, sigcancel>>

\* Mutant: a waiter whose sleep failed stays counted.
DecWaitersOnSuccess(t) ==
  /\ pc[t] = "dec"
  /\ waiters' = IF res[t] = "0" THEN waiters - 1 ELSE waiters
  /\ Goto(t, IF res[t] = "0" THEN "loop" ELSE "idle")
  /\ res' = [res EXCEPT ![t] = "0"]
  /\ timed' = [timed EXCEPT ![t] = IF res[t] = "0" THEN @ ELSE "none"]
  /\ UNCHANGED <<val, canceled, sigcancel>>

\* After the futex wait: try again, or fail; EINTR is a cancellation point.
DecWaiters(t) ==
  /\ pc[t] = "dec"
  /\ waiters' = waiters - 1
  /\ Goto(t, IF res[t] = "0" THEN "loop"
             ELSE IF res[t] = "EINTR" /\ canceled[t] THEN "dead" ELSE "idle")
  /\ res' = [res EXCEPT ![t] = "0"]
  /\ timed' = [timed EXCEPT ![t] = IF res[t] = "0" THEN @ ELSE "none"]
  /\ UNCHANGED <<val, canceled, sigcancel>>

\* Mutant: the limit test is off by one.
PostBeyond(t) ==
  /\ pc[t] = "idle" /\ val <= SemValueMax
  /\ val' = val + 1
  /\ Goto(t, "chk")
  /\ UNCHANGED <<waiters, timed, res, canceled, sigcancel>>

\* sem_post up to the load of __val[1]; at the limit it fails with EOVERFLOW.
Post(t) ==
  /\ pc[t] = "idle" /\ val # SemValueMax
  /\ val' = val + 1
  /\ Goto(t, "chk")
  /\ UNCHANGED <<waiters, timed, res, canceled, sigcancel>>

\* Mutant: only the post that finds the count at 0 wakes a waiter.
CheckWaitersFirst(t) ==
  /\ pc[t] = "chk"
  /\ Goto(t, IF waiters = 0 \/ val > 1 THEN "idle" ELSE "wake")
  /\ UNCHANGED <<val, waiters, timed, res, canceled, sigcancel>>

CheckWaiters(t) ==
  /\ pc[t] = "chk"
  /\ Goto(t, IF waiters = 0 THEN "idle" ELSE "wake")
  /\ UNCHANGED <<val, waiters, timed, res, canceled, sigcancel>>

FutexWake(t) ==
  /\ pc[t] = "wake"
  /\ IF Sleepers = {}
       THEN Goto(t, "idle")
       ELSE \E s \in Sleepers : pc' = [pc EXCEPT ![t] = "idle", ![s] = "dec"]
  /\ UNCHANGED <<val, waiters, timed, res, canceled, sigcancel>>

\* pthread_cancel: the flag and signal 32
Cancel(t) ==
  /\ t \in Cancellable /\ ~canceled[t] /\ pc[t] # "dead"
  /\ canceled' = [canceled EXCEPT ![t] = TRUE]
  /\ sigcancel' = [sigcancel EXCEPT ![t] = TRUE]
  /\ UNCHANGED <<val, waiters, pc, timed, res>>

DeliverCancel(t) ==
  /\ sigcancel[t] /\ pc[t] # "dead"
  /\ sigcancel' = [sigcancel EXCEPT ![t] = FALSE]
  /\ Goto(t, IF pc[t] = "sleep" THEN "dec" ELSE pc[t])
  /\ res' = [res EXCEPT ![t] = IF pc[t] = "sleep" THEN "EINTR" ELSE @]
  /\ UNCHANGED <<val, waiters, timed, canceled>>

Running(t) == \/ WaitTry(t) \/ IncWaiters(t) \/ FutexWait(t) \/ DecWaiters(t)
              \/ CheckWaiters(t) \/ FutexWake(t)

Next == \E t \in Threads :
          \/ \E limited \in Limits : WaitCall(t, limited)
          \/ \E why \in {"EINTR", "ETIMEDOUT"} : SleepFails(t, why)
          \/ TryWait(t) \/ Post(t) \/ Running(t)
          \/ Cancel(t) \/ DeliverCancel(t)

Spec == Init /\ [][Next]_vars

\* Library code that is not asleep runs on, time limits expire, signals arrive.
FairSpec == Spec /\ \A t \in Threads : /\ WF_vars(Running(t)) /\ WF_vars(DeliverCancel(t))
                                       /\ WF_vars(SleepFails(t, "ETIMEDOUT"))
-----------------------------------------------------------------------------
TypeOK == /\ val \in 0..SemValueMax
          /\ waiters \in 0..Cardinality(Threads)
          /\ pc \in [Threads -> {"idle", "loop", "inc", "fwait", "sleep", "dec",
                                 "chk", "wake", "dead"}]
          /\ timed \in [Threads -> Limits]
          /\ res \in [Threads -> {"0", "EINTR", "ETIMEDOUT"}]
          /\ canceled \in [Threads -> BOOLEAN] /\ sigcancel \in [Threads -> BOOLEAN]

\* __val[1] is the number of threads between its increment and its decrement, so
\* a post that finds 0 there has nobody to wake, whatever calls failed before.
Counted == {t \in Threads : pc[t] \in {"fwait", "sleep", "dec"}}
WaitersCounted == waiters = Cardinality(Counted)

\* The threads that will look at the count, or make a sleeper look.
Attentive == {t \in Threads : \/ pc[t] \in {"loop", "inc", "fwait", "wake"}
                              \/ pc[t] = "chk" /\ waiters > 0
                              \/ pc[t] = "dec" /\ res[t] = "0"}

\* While a thread sleeps in sem_wait there are never more tokens than threads on
\* their way to one: no post is lost to a waiter that gave up or was overtaken.
NoForgottenWaiter == Sleepers # {} => val <= Cardinality(Attentive)

\* With them, inductive: only a call whose sleep has ended has a result of it.
IInv == /\ TypeOK /\ WaitersCounted /\ NoForgottenWaiter
        /\ \A t \in Threads : res[t] # "0" => pc[t] = "dec"

\* A thread asleep while there is a token is woken, or the token goes to another.
TokensAreNoticed == (val > 0 /\ Sleepers # {}) ~> (val = 0 \/ Sleepers = {})
=============================================================================
