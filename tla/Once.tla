-------------------------------- MODULE Once --------------------------------
(***************************************************************************)
(* pthread_once of pthread.c.  The control word o is 0 (not run), 1        *)
(* (running), 2 (done) or 3 (running with waiters).  C11's call_once is    *)
(* the same function.                                                      *)
(*                                                                         *)
(* pc[t]:  idle, cas (in the call, the word was not 2), fn (running the    *)
(*         routine), wake (stored 2 over 3), load (about to load the word  *)
(*         in the loop), mark (loaded 1, about to exchange it with 3),     *)
(*         fwait, sleep, done                                              *)
(***************************************************************************)
EXTENDS SyncBase

VARIABLES o, pc, runs   \* runs: how often the routine was called

vars == <<o, pc, runs>>

Sleepers == {t \in Threads : pc[t] = "sleep"}

Init == o = 0 /\ pc = [t \in Threads |-> "idle"] /\ runs = 0

Goto(t, where) == pc' = [pc EXCEPT ![t] = where]

Call(t) == /\ pc[t] \in {"idle", "done"}
           /\ Goto(t, IF o = 2 THEN "done" ELSE "cas")
           /\ UNCHANGED <<o, runs>>

\* Mutant: the routine is run by whoever finds it not done.
ClaimAny(t) == /\ pc[t] = "cas"
               /\ IF o # 2 THEN o' = 1 /\ runs' = runs + 1 /\ Goto(t, "fn")
                           ELSE Goto(t, "load") /\ UNCHANGED <<o, runs>>

Claim(t) == /\ pc[t] = "cas"
            /\ IF o = 0 THEN o' = 1 /\ runs' = runs + 1 /\ Goto(t, "fn")
                        ELSE Goto(t, "load") /\ UNCHANGED <<o, runs>>

\* The routine returns: 2 is stored, and 3 means that there are waiters.
Finish(t) == /\ pc[t] = "fn"
             /\ o' = 2
             /\ Goto(t, IF o = 3 THEN "wake" ELSE "done")
             /\ UNCHANGED runs

\* Mutant: one waiter is woken.
FutexWakeOne(t) ==
  /\ pc[t] = "wake"
  /\ IF Sleepers = {}
       THEN Goto(t, "done")
       ELSE \E s \in Sleepers : pc' = [pc EXCEPT ![t] = "done", ![s] = "load"]
  /\ UNCHANGED <<o, runs>>

FutexWake(t) ==
  /\ pc[t] = "wake"
  /\ pc' = [u \in Threads |-> IF u = t THEN "done"
                              ELSE IF u \in Sleepers THEN "load" ELSE pc[u]]
  /\ UNCHANGED <<o, runs>>

Load(t) == /\ pc[t] = "load"
           /\ Goto(t, CASE o = 2 -> "done" [] o = 1 -> "mark" [] OTHER -> "fwait")
           /\ UNCHANGED <<o, runs>>

\* The exchange fails if the word changed; the value found decides what follows.
Mark(t) == /\ pc[t] = "mark"
           /\ o' = IF o = 1 THEN 3 ELSE o
           /\ Goto(t, IF o = 2 THEN "load" ELSE "fwait")
           /\ UNCHANGED runs

FutexWait(t) == /\ pc[t] = "fwait"
                /\ Goto(t, IF o = 3 THEN "sleep" ELSE "load")
                /\ UNCHANGED <<o, runs>>

Interrupted(t) == pc[t] = "sleep" /\ Goto(t, "load") /\ UNCHANGED <<o, runs>>

Running(t) == Claim(t) \/ FutexWake(t) \/ Load(t) \/ Mark(t) \/ FutexWait(t)

Next == \E t \in Threads : Call(t) \/ Finish(t) \/ Running(t) \/ Interrupted(t)

Spec == Init /\ [][Next]_vars

\* Threads inside the function run on; the routine returns.
FairSpec == Spec /\ \A t \in Threads : WF_vars(Running(t)) /\ WF_vars(Finish(t))
-----------------------------------------------------------------------------
TypeOK == /\ o \in 0..3 /\ runs \in Nat
          /\ pc \in [Threads -> {"idle", "cas", "fn", "wake", "load", "mark",
                                 "fwait", "sleep", "done"}]

\* pthread_once returns only after the one call of the routine has returned.
OnlyAfterTheRoutine ==
  \A t \in Threads : pc[t] = "done" => runs = 1 /\ \A u \in Threads : pc[u] # "fn"

\* What makes it inductive: one thread runs the routine, if any; and nobody sleeps
\* after its end without a wake-up on the way.
IInv ==
  /\ TypeOK
  /\ runs = IF o = 0 THEN 0 ELSE 1
  /\ o \in {1, 3} <=> \E t \in Threads : pc[t] = "fn"
  /\ \A t, u \in Threads : pc[t] = "fn" /\ pc[u] = "fn" => t = u
  /\ \A t \in Threads : /\ pc[t] \in {"wake", "done"} => o = 2
                        /\ pc[t] \in {"load", "mark", "fwait", "sleep"} => o # 0
  /\ Sleepers # {} => o = 3 \/ \E t \in Threads : pc[t] = "wake"

\* Every call returns once the routine does, however the waiters raced with its end.
EveryCallReturns ==
  \A t \in Threads : pc[t] \notin {"idle", "done"} ~> pc[t] = "done"
=============================================================================
