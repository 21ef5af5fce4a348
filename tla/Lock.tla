-------------------------------- MODULE Lock --------------------------------
(***************************************************************************)
(* What a lock of the library promises to its callers: one holder at a     *)
(* time, and, whenever the lock is free and somebody is waiting for it,    *)
(* some thread eventually gets it.  It promises no fairness between        *)
(* threads: a newcomer may overtake the waiters.                           *)
(***************************************************************************)
EXTENDS FiniteSets

CONSTANT Threads

VARIABLES holder,   \* the set of threads inside: empty or a singleton
          want      \* the threads whose lock call has not returned yet

lockVars == <<holder, want>>

LockInit == holder = {} /\ want = {}

Request(t) == /\ t \notin holder \cup want
              /\ want' = want \cup {t}
              /\ UNCHANGED holder

Acquire(t) == /\ holder = {}
              /\ holder' = {t}
              /\ want' = want \ {t}

Release(t) == /\ t \in holder
              /\ holder' = {}
              /\ UNCHANGED want

\* a request with a time limit gives up
Withdraw(t) == /\ t \in want
               /\ want' = want \ {t}
               /\ UNCHANGED holder

LockNext ==
  \E t \in Threads : Request(t) \/ Acquire(t) \/ Release(t) \/ Withdraw(t)

LockSafety == LockInit /\ [][LockNext]_lockVars

AcquireWanted == \E t \in want : Acquire(t)

LockSpec == LockSafety /\ WF_lockVars(AcquireWanted)
=============================================================================
