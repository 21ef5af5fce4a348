------------------------------- MODULE Threads -------------------------------
(***************************************************************************)
(* The life of a thread (pthread.c): creation, exit, join, detach,         *)
(* cancellation, the list of live threads and the set*id broadcast over    *)
(* it, and what fork (process.c) does to them.  list_lock is the abstract  *)
(* lock that FutexLock implements.                                         *)
(*                                                                         *)
(* pc[t]:  none    never created                run     in the program     *)
(*         clock, clone, cunlock, cfail         in pthread_create          *)
(*         start   cloned, signals still blocked                           *)
(*         xlock, xunlock, xblock, xcount, xstate, xaddr, xunmap, xkill    *)
(*                 in pthread_exit              gone    ended              *)
(*         exit0   the last thread, in exit(0)                             *)
(*         join, jwait, jsleep                  in pthread_join            *)
(*         slock, ssys, swait                   in __setxid                *)
(*         flock, fork                          in fork                    *)
(*         fatal   __fatal ended the process                               *)
(***************************************************************************)
EXTENDS Integers, FiniteSets

CONSTANTS Threads, Main, Null,
          Creds,            \* values of the credentials
          Joinable,         \* threads created joinable; the others are detached
          Cancellable,      \* threads pthread_cancel is called on
          AsyncThreads,     \* threads that select asynchronous cancellation
          Setters,          \* threads that call setuid
          Forkers,          \* threads that call fork
          TimerHelpers      \* threads created by timer_create(SIGEV_THREAD)

VARIABLES pc, arg,              \* arg[t]: the thread t creates, joins or detaches
          listLock, next, prev, \* list_lock and the ring of live threads
          threadCount,
          detached, exitFutex,  \* fields of struct pthread
          canceled, cdis, casync,
          cleartid,             \* the kernel zeroes exitFutex when the thread ends
          mapped,               \* the mapping of the thread (stack, TLS, TCB) exists
          blocked, saved,       \* signals 32 and 33 are blocked; sigmask_saved
          sigcancel, sigxid,    \* signals 32 and 33 pending
          cred, xid,            \* credentials; [val, done, n, failed]
          handle                \* what the program may do with its pthread_t

life == <<threadCount, detached, exitFutex, cleartid, mapped>>
ring == <<next, prev>>
cancel == <<canceled, cdis, casync, sigcancel>>
mask == <<blocked, saved>>
creds == <<cred, xid, sigxid>>
vars == <<pc, arg, listLock, ring, life, cancel, mask, creds, handle>>

Init == /\ pc = [t \in Threads |-> IF t = Main THEN "run" ELSE "none"]
        /\ arg = [t \in Threads |-> Null]
        /\ listLock = Null
        /\ next = [t \in Threads |-> Null] /\ prev = [t \in Threads |-> Null]
        /\ threadCount = 1
        /\ detached = [t \in Threads |-> "JOINABLE"]
        /\ exitFutex = [t \in Threads |-> t = Main]
        /\ cleartid = [t \in Threads |-> t = Main]
        /\ mapped = [t \in Threads |-> t = Main]
        /\ canceled = [t \in Threads |-> FALSE]
        /\ cdis = [t \in Threads |-> FALSE] /\ casync = [t \in Threads |-> FALSE]
        /\ sigcancel = [t \in Threads |-> FALSE] /\ sigxid = [t \in Threads |-> FALSE]
        /\ blocked = [t \in Threads |-> FALSE] /\ saved = [t \in Threads |-> FALSE]
        /\ \E c \in Creds : /\ cred = [t \in Threads |-> c]
                            /\ xid = [val |-> c, done |-> 0, n |-> 0, failed |-> FALSE]
        /\ handle = [t \in Threads |-> IF t = Main THEN "valid" ELSE "none"]

Goto(t, where) == pc' = [pc EXCEPT ![t] = where]
Lock(t) == listLock = Null /\ listLock' = t
Unlock == listLock' = Null
\* the mask saved by the call that is ending; dead afterwards
RestoreMask(t) == /\ blocked' = [blocked EXCEPT ![t] = saved[t]]
                  /\ saved' = [saved EXCEPT ![t] = FALSE]
-----------------------------------------------------------------------------
\* The ring.  list_add makes the caller a ring of one if it has none.
ListAdd(m, p) ==
  LET n == IF next[m] = Null THEN [next EXCEPT ![m] = m] ELSE next
      v == IF next[m] = Null THEN [prev EXCEPT ![m] = m] ELSE prev
      after == n[m]
  IN /\ next' = [n EXCEPT ![p] = after, ![m] = p]
     /\ prev' = [[v EXCEPT ![p] = m] EXCEPT ![after] = p]

\* Mutant: the successor's prev is not updated.
ListDelHalf(p) ==
  IF next[p] = Null
    THEN UNCHANGED ring
    ELSE /\ next' = [[next EXCEPT ![prev[p]] = next[p]] EXCEPT ![p] = Null]
         /\ prev' = [prev EXCEPT ![p] = Null]

ListDel(p) ==
  IF next[p] = Null
    THEN UNCHANGED ring
    ELSE /\ next' = [[next EXCEPT ![prev[p]] = next[p]] EXCEPT ![p] = Null]
         /\ prev' = [[prev EXCEPT ![next[p]] = prev[p]] EXCEPT ![p] = Null]

\* The threads a loop from t->next to t visits.
Others(t) ==
  LET walk[i \in 0..Cardinality(Threads)] ==
        IF i = 0 THEN next[t]
        ELSE IF walk[i - 1] \in {Null, t} THEN walk[i - 1] ELSE next[walk[i - 1]]
  IN {walk[i] : i \in 0..Cardinality(Threads)} \ {Null, t}
-----------------------------------------------------------------------------
\* In asynchronous mode the program calls nothing but pthread_cancel and its kin.
MayCall(t) == pc[t] = "run" /\ ~casync[t]

\* pthread_create: the mapping and the fields of struct pthread; timer_create
\* calls it with every signal blocked.
CreateCall(t, c) ==
  /\ MayCall(t) /\ pc[c] = "none"
  /\ \A u \in Threads : arg[u] # c
  /\ arg' = [arg EXCEPT ![t] = c]
  /\ mapped' = [mapped EXCEPT ![c] = TRUE]
  /\ detached' = [detached EXCEPT ![c] = IF c \in Joinable THEN "JOINABLE" ELSE "DETACHED"]
  /\ exitFutex' = [exitFutex EXCEPT ![c] = TRUE]
  /\ saved' = [saved EXCEPT ![t] = blocked[t]]
  /\ blocked' = [blocked EXCEPT ![t] = @ \/ c \in TimerHelpers]
  /\ Goto(t, "clock")
  /\ UNCHANGED <<listLock, ring, threadCount, cleartid, cancel, creds, handle>>

CreateLock(t) ==
  /\ pc[t] = "clock" /\ Lock(t)
  /\ Goto(t, "clone")
  /\ UNCHANGED <<arg, ring, life, cancel, mask, creds, handle>>

\* Mutant: the new thread gets onto the list only when it runs.
CloneUnlisted(t) ==
  LET c == arg[t] IN
  /\ pc[t] = "clone"
  /\ threadCount' = threadCount + 1
  /\ pc' = [pc EXCEPT ![t] = "cunlock", ![c] = "start"]
  /\ saved' = [saved EXCEPT ![c] = blocked[t]]
  /\ blocked' = [blocked EXCEPT ![c] = TRUE]
  /\ cleartid' = [cleartid EXCEPT ![c] = TRUE]
  /\ cred' = [cred EXCEPT ![c] = cred[t]]
  /\ UNCHANGED <<arg, listLock, ring, detached, exitFutex, mapped, cancel, xid, sigxid, handle>>

\* With list_lock and all signals blocked: counted, listed and cloned; the new
\* thread starts blocked and has the creator's mask and credentials.
Clone(t) ==
  LET c == arg[t] IN
  /\ pc[t] = "clone"
  /\ threadCount' = threadCount + 1
  /\ ListAdd(t, c)
  /\ pc' = [pc EXCEPT ![t] = "cunlock", ![c] = "start"]
  /\ saved' = [saved EXCEPT ![c] = blocked[t]]
  /\ blocked' = [blocked EXCEPT ![c] = TRUE]
  /\ cleartid' = [cleartid EXCEPT ![c] = TRUE]
  /\ cred' = [cred EXCEPT ![c] = cred[t]]
  /\ UNCHANGED <<arg, listLock, detached, exitFutex, mapped, cancel, xid, sigxid, handle>>

\* clone fails: off the list again, which leaves the caller in a ring of its own.
CloneFails(t) ==
  /\ pc[t] = "clone"
  /\ threadCount' = threadCount + 1
  /\ IF next[t] = Null THEN next' = [next EXCEPT ![t] = t] /\ prev' = [prev EXCEPT ![t] = t]
                       ELSE UNCHANGED ring
  /\ Unlock
  /\ Goto(t, "cfail")
  /\ UNCHANGED <<arg, detached, exitFutex, cleartid, mapped, cancel, mask, creds, handle>>

\* Mutant: the thread that was not created stays counted.
CreateFailCounted(t) ==
  /\ pc[t] = "cfail"
  /\ mapped' = [mapped EXCEPT ![arg[t]] = FALSE]
  /\ exitFutex' = [exitFutex EXCEPT ![arg[t]] = FALSE]
  /\ detached' = [detached EXCEPT ![arg[t]] = "JOINABLE"]
  /\ arg' = [arg EXCEPT ![t] = Null]
  /\ RestoreMask(t)
  /\ Goto(t, "run")
  /\ UNCHANGED <<listLock, ring, threadCount, cleartid, cancel, creds, handle>>

CreateFail(t) ==
  /\ pc[t] = "cfail"
  /\ threadCount' = threadCount - 1
  /\ mapped' = [mapped EXCEPT ![arg[t]] = FALSE]
  /\ exitFutex' = [exitFutex EXCEPT ![arg[t]] = FALSE]
  /\ detached' = [detached EXCEPT ![arg[t]] = "JOINABLE"]
  /\ arg' = [arg EXCEPT ![t] = Null]
  /\ RestoreMask(t)
  /\ Goto(t, "run")
  /\ UNCHANGED <<listLock, ring, cleartid, cancel, creds, handle>>

CreateUnlock(t) ==
  /\ pc[t] = "cunlock" /\ Unlock
  /\ handle' = [handle EXCEPT ![arg[t]] = IF arg[t] \in Joinable THEN "valid" ELSE "none"]
  /\ arg' = [arg EXCEPT ![t] = Null]
  /\ RestoreMask(t)
  /\ Goto(t, "run")
  /\ UNCHANGED <<ring, life, cancel, creds>>

Start(t) ==
  /\ pc[t] = "start"
  /\ RestoreMask(t)
  /\ Goto(t, "run")
  /\ UNCHANGED <<arg, listLock, ring, life, cancel, creds, handle>>
-----------------------------------------------------------------------------
\* pthread_exit.  Destructors run before the thread leaves the list; cancellation
\* is off from here on.
EnterExit(t) == cdis' = [cdis EXCEPT ![t] = TRUE] /\ Goto(t, "xlock")

ExitCall(t) ==
  /\ pc[t] = "run"
  /\ EnterExit(t)
  /\ UNCHANGED <<arg, listLock, ring, life, canceled, casync, sigcancel, mask, creds, handle>>

ExitLock(t) ==
  /\ pc[t] = "xlock" /\ Lock(t)
  /\ ListDel(t)
  /\ Goto(t, "xunlock")
  /\ UNCHANGED <<arg, life, cancel, mask, creds, handle>>

ExitUnlock(t) ==
  /\ pc[t] = "xunlock" /\ Unlock
  /\ Goto(t, "xblock")
  /\ UNCHANGED <<arg, ring, life, cancel, mask, creds, handle>>

ExitBlock(t) ==
  /\ pc[t] = "xblock"
  /\ saved' = [saved EXCEPT ![t] = blocked[t]]
  /\ blocked' = [blocked EXCEPT ![t] = TRUE]
  /\ Goto(t, "xcount")
  /\ UNCHANGED <<arg, listLock, ring, life, cancel, creds, handle>>

\* the last thread to exit ends the process with status 0
ExitCount(t) ==
  /\ pc[t] = "xcount"
  /\ threadCount' = threadCount - 1
  /\ IF threadCount = 1 THEN Goto(t, "exit0") /\ RestoreMask(t)
                        ELSE Goto(t, "xstate") /\ UNCHANGED mask
  /\ UNCHANGED <<arg, listLock, ring, detached, exitFutex, cleartid, mapped, cancel, creds, handle>>

\* Mutant: a thread that was detached in time also waits to be joined.
ExitStateStale(t) ==
  /\ pc[t] = "xstate"
  /\ detached' = [detached EXCEPT ![t] = "EXITED"]
  /\ Goto(t, IF detached[t] = "DETACHED" /\ t \notin Joinable /\ t # Main THEN "xaddr" ELSE "xkill")
  /\ UNCHANGED <<arg, listLock, ring, threadCount, exitFutex, cleartid, mapped, cancel, mask, creds, handle>>

\* JOINABLE becomes EXITED, whoever joins or detaches reclaims the mapping; a
\* detached thread does it itself, except the main thread, which has none.
ExitState(t) ==
  /\ pc[t] = "xstate"
  /\ detached' = [detached EXCEPT ![t] = IF @ = "JOINABLE" THEN "EXITED" ELSE @]
  /\ Goto(t, IF detached[t] = "DETACHED" /\ t # Main THEN "xaddr" ELSE "xkill")
  /\ UNCHANGED <<arg, listLock, ring, threadCount, exitFutex, cleartid, mapped, cancel, mask, creds, handle>>

\* Mutant: the kernel is not told.
ExitAddrKept(t) ==
  /\ pc[t] = "xaddr"
  /\ Goto(t, "xunmap")
  /\ UNCHANGED <<arg, listLock, ring, life, cancel, mask, creds, handle>>

ExitAddr(t) ==
  /\ pc[t] = "xaddr"
  /\ cleartid' = [cleartid EXCEPT ![t] = FALSE]
  /\ Goto(t, "xunmap")
  /\ UNCHANGED <<arg, listLock, ring, threadCount, detached, exitFutex, mapped, cancel, mask, creds, handle>>

\* __unmapself, which needs no stack
ExitUnmap(t) ==
  /\ pc[t] = "xunmap"
  /\ mapped' = [mapped EXCEPT ![t] = FALSE]
  /\ Goto(t, "xkill")
  /\ UNCHANGED <<arg, listLock, ring, threadCount, detached, exitFutex, cleartid, cancel, mask, creds, handle>>

\* SYS_exit: the kernel zeroes the word it was given and wakes the joiner.
ExitKill(t) ==
  /\ pc[t] = "xkill"
  /\ exitFutex' = [exitFutex EXCEPT ![t] = @ /\ ~cleartid[t]]
  /\ pc' = [u \in Threads |-> IF u = t THEN "gone"
                              ELSE IF pc[u] = "jsleep" /\ arg[u] = t /\ cleartid[t] THEN "join"
                              ELSE pc[u]]
  /\ sigcancel' = [sigcancel EXCEPT ![t] = FALSE]
  /\ UNCHANGED <<arg, listLock, ring, threadCount, detached, cleartid, mapped, canceled, cdis, casync,
                 mask, creds, handle>>
-----------------------------------------------------------------------------
\* __testcancel acts.
ActsOnCancel(t) == canceled[t] /\ ~cdis[t]

\* The program joins or detaches a thread whose pthread_t it has, once.
JoinCall(t, u) ==
  /\ MayCall(t) /\ u # t /\ handle[u] = "valid"
  /\ handle' = [handle EXCEPT ![u] = "joining"]
  /\ arg' = [arg EXCEPT ![t] = u]
  /\ Goto(t, "join")
  /\ UNCHANGED <<listLock, ring, life, cancel, mask, creds>>

\* The loop of pthread_join ends: the mapping is removed.
JoinEnd(t) ==
  /\ pc[t] = "join" /\ ~exitFutex[arg[t]]
  /\ mapped' = [mapped EXCEPT ![arg[t]] = @ /\ arg[t] = Main]
  /\ handle' = [handle EXCEPT ![arg[t]] = "none"]
  /\ arg' = [arg EXCEPT ![t] = Null]
  /\ Goto(t, "run")
  /\ UNCHANGED <<listLock, ring, threadCount, detached, exitFutex, cleartid, cancel, mask, creds>>

\* The loop goes on: a cancellation point, which gives the thread up unjoined.
JoinLoop(t) ==
  /\ pc[t] = "join" /\ exitFutex[arg[t]]
  /\ IF ActsOnCancel(t)
       THEN /\ EnterExit(t)
            /\ handle' = [handle EXCEPT ![arg[t]] = IF detached[arg[t]] = "DETACHED" THEN "none" ELSE "valid"]
            /\ arg' = [arg EXCEPT ![t] = Null]
       ELSE Goto(t, "jwait") /\ UNCHANGED <<cdis, handle, arg>>
  /\ UNCHANGED <<listLock, ring, life, canceled, casync, sigcancel, mask, creds>>

\* Mutant: the futex does not compare.
JoinWaitAnyway(t) ==
  /\ pc[t] = "jwait"
  /\ Goto(t, "jsleep")
  /\ UNCHANGED <<arg, listLock, ring, life, cancel, mask, creds, handle>>

JoinWait(t) ==
  /\ pc[t] = "jwait"
  /\ Goto(t, IF exitFutex[arg[t]] THEN "jsleep" ELSE "join")
  /\ UNCHANGED <<arg, listLock, ring, life, cancel, mask, creds, handle>>

Interrupted(t) ==
  /\ pc[t] = "jsleep"
  /\ Goto(t, "join")
  /\ UNCHANGED <<arg, listLock, ring, life, cancel, mask, creds, handle>>

\* pthread_detach: a thread that has exited is reclaimed here and now.
Detach(t, u) ==
  /\ MayCall(t) /\ handle[u] = "valid"
  /\ IF detached[u] = "EXITED"
       THEN /\ u # t
            /\ handle' = [handle EXCEPT ![u] = "joining"]
            /\ arg' = [arg EXCEPT ![t] = u]
            /\ Goto(t, "join")
            /\ UNCHANGED detached
       ELSE /\ detached' = [detached EXCEPT ![u] = "DETACHED"]
            /\ handle' = [handle EXCEPT ![u] = "none"]
            /\ UNCHANGED <<pc, arg>>
  /\ UNCHANGED <<listLock, ring, threadCount, exitFutex, cleartid, mapped, cancel, mask, creds>>
-----------------------------------------------------------------------------
\* pthread_cancel on a thread whose pthread_t is valid: the flag, and signal 32
\* unless cancellation is disabled or the thread has ended.
Cancel(t, u) ==
  /\ pc[t] = "run" /\ u \in Cancellable /\ u # t /\ handle[u] # "none" /\ ~canceled[u]
  /\ canceled' = [canceled EXCEPT ![u] = TRUE]
  /\ sigcancel' = [sigcancel EXCEPT ![u] = ~cdis[u] /\ exitFutex[u]]
  /\ UNCHANGED <<pc, arg, listLock, ring, life, cdis, casync, mask, creds, handle>>

\* cancel_handler runs with every signal blocked.  In asynchronous mode it calls
\* pthread_exit and never returns, so they stay blocked; asynchronous mode may
\* only be on while the program runs code of its own.  Otherwise the handler does
\* nothing, but a sleep is interrupted.
DeliverCancel(t) ==
  /\ sigcancel[t] /\ ~blocked[t] /\ pc[t] \notin {"gone", "exit0"}
  /\ sigcancel' = [sigcancel EXCEPT ![t] = FALSE]
  /\ IF ActsOnCancel(t) /\ casync[t]
       THEN /\ EnterExit(t)
            /\ blocked' = [blocked EXCEPT ![t] = TRUE]
       ELSE /\ Goto(t, IF pc[t] = "jsleep" THEN "join" ELSE pc[t])
            /\ UNCHANGED <<cdis, blocked>>
  /\ UNCHANGED <<arg, listLock, ring, life, canceled, casync, saved, creds, handle>>

TestCancel(t) ==
  /\ pc[t] = "run" /\ ActsOnCancel(t)
  /\ EnterExit(t)
  /\ UNCHANGED <<arg, listLock, ring, life, canceled, casync, sigcancel, mask, creds, handle>>

SetCancelState(t) ==
  /\ pc[t] = "run" /\ t \in Cancellable
  /\ cdis' = [cdis EXCEPT ![t] = ~@]
  /\ UNCHANGED <<pc, arg, listLock, ring, life, canceled, casync, sigcancel, mask, creds, handle>>

\* Asynchronous mode is itself a cancellation point.
SetCancelType(t) ==
  /\ pc[t] = "run" /\ t \in AsyncThreads
  /\ casync' = [casync EXCEPT ![t] = ~@]
  /\ IF ActsOnCancel(t) /\ ~casync[t] THEN EnterExit(t) ELSE UNCHANGED <<pc, cdis>>
  /\ UNCHANGED <<arg, listLock, ring, life, canceled, sigcancel, mask, creds, handle>>
-----------------------------------------------------------------------------
\* __setxid: list_lock, the call in this thread, then signal 33 to every other
\* thread on the list.  Before the first thread is created the call is made alone.
SetxidCall(t) ==
  /\ MayCall(t) /\ t \in Setters
  /\ Goto(t, "slock")
  /\ UNCHANGED <<arg, listLock, ring, life, cancel, mask, creds, handle>>

SetxidLock(t) ==
  /\ pc[t] = "slock" /\ Lock(t)
  /\ Goto(t, "ssys")
  /\ UNCHANGED <<arg, ring, life, cancel, mask, creds, handle>>

SetxidRefused(t) ==
  /\ pc[t] = "ssys" /\ Unlock
  /\ Goto(t, "run")
  /\ UNCHANGED <<arg, ring, life, cancel, mask, creds, handle>>

Broadcast(t, c) ==
  /\ pc[t] = "ssys"
  /\ cred' = [cred EXCEPT ![t] = c]
  /\ xid' = [val |-> c, done |-> 0, n |-> Cardinality(Others(t)), failed |-> FALSE]
  /\ sigxid' = [u \in Threads |-> sigxid[u] \/ u \in Others(t)]
  /\ Goto(t, "swait")
  /\ UNCHANGED <<arg, listLock, ring, life, cancel, mask, handle>>

\* Mutant: only a success is counted.
DeliverXidCountsOk(t, ok) ==
  /\ sigxid[t] /\ ~blocked[t]
  /\ sigxid' = [sigxid EXCEPT ![t] = FALSE]
  /\ cred' = [cred EXCEPT ![t] = IF ok THEN xid.val ELSE @]
  /\ xid' = [xid EXCEPT !.done = IF ok THEN @ + 1 ELSE @, !.failed = @ \/ ~ok]
  /\ UNCHANGED <<pc, arg, listLock, ring, life, cancel, mask, handle>>

\* setxid_handler in a thread that does not block signal 33
DeliverXid(t, ok) ==
  /\ sigxid[t] /\ ~blocked[t]
  /\ sigxid' = [sigxid EXCEPT ![t] = FALSE]
  /\ cred' = [cred EXCEPT ![t] = IF ok THEN xid.val ELSE @]
  /\ xid' = [xid EXCEPT !.done = @ + 1, !.failed = @ \/ ~ok]
  /\ UNCHANGED <<pc, arg, listLock, ring, life, cancel, mask, handle>>

\* Mutant: the broadcast is not waited for.
SetxidNoWait(t) ==
  /\ pc[t] = "swait"
  /\ Unlock /\ Goto(t, "run")
  /\ UNCHANGED <<arg, ring, life, cancel, mask, creds, handle>>

\* Every thread has answered; a failure in one of them ends the process.
SetxidReturn(t) ==
  /\ pc[t] = "swait" /\ xid.done >= xid.n
  /\ IF xid.failed THEN Goto(t, "fatal") /\ UNCHANGED listLock
                   ELSE Unlock /\ Goto(t, "run")
  /\ xid' = [xid EXCEPT !.done = 0, !.n = 0]     \* dead until the next broadcast
  /\ UNCHANGED <<arg, ring, life, cancel, mask, cred, sigxid, handle>>
-----------------------------------------------------------------------------
ForkCall(t) ==
  /\ MayCall(t) /\ t \in Forkers
  /\ Goto(t, "flock")
  /\ UNCHANGED <<arg, listLock, ring, life, cancel, mask, creds, handle>>

ForkLock(t) ==
  /\ pc[t] = "flock" /\ Lock(t)
  /\ Goto(t, "fork")
  /\ UNCHANGED <<arg, ring, life, cancel, mask, creds, handle>>

ForkParent(t) ==
  /\ pc[t] = "fork" /\ Unlock
  /\ Goto(t, "run")
  /\ UNCHANGED <<arg, ring, life, cancel, mask, creds, handle>>

\* In the child the caller is the only thread; the mappings of the others stay.
\* The behaviour goes on with the child.
ForkChild(t) ==
  /\ pc[t] = "fork"
  /\ pc' = [u \in Threads |-> IF u = t THEN "run"
                              ELSE IF pc[u] = "none" THEN "none" ELSE "gone"]
  /\ arg' = [u \in Threads |-> Null]
  /\ next' = [next EXCEPT ![t] = Null] /\ prev' = [prev EXCEPT ![t] = Null]
  /\ threadCount' = 1
  /\ listLock' = Null
  /\ exitFutex' = [exitFutex EXCEPT ![t] = TRUE]
  /\ cleartid' = [cleartid EXCEPT ![t] = TRUE]
  /\ sigcancel' = [u \in Threads |-> FALSE] /\ sigxid' = [u \in Threads |-> FALSE]
  /\ handle' = [u \in Threads |-> IF u = t THEN handle[u] ELSE "none"]
  /\ UNCHANGED <<detached, mapped, canceled, cdis, casync, mask, cred, xid>>
-----------------------------------------------------------------------------
CreateStep(t) == \/ CreateLock(t) \/ Clone(t) \/ CloneFails(t) \/ CreateFail(t)
                 \/ CreateUnlock(t) \/ Start(t)
ExitStep(t) == \/ ExitLock(t) \/ ExitUnlock(t) \/ ExitBlock(t) \/ ExitCount(t)
               \/ ExitState(t) \/ ExitAddr(t) \/ ExitUnmap(t) \/ ExitKill(t)
JoinStep(t) == JoinEnd(t) \/ JoinLoop(t) \/ JoinWait(t)
SetxidStep(t) == \/ SetxidLock(t) \/ SetxidRefused(t)
                 \/ \E c \in Creds : Broadcast(t, c)
                 \/ SetxidReturn(t)
ForkStep(t) == ForkLock(t) \/ ForkParent(t) \/ ForkChild(t)
Signals(t) == DeliverCancel(t) \/ \E ok \in BOOLEAN : DeliverXid(t, ok)

Calls(t) == \/ ExitCall(t) \/ TestCancel(t) \/ SetCancelState(t) \/ SetCancelType(t)
            \/ SetxidCall(t) \/ ForkCall(t)
            \/ \E u \in Threads : CreateCall(t, u) \/ JoinCall(t, u) \/ Detach(t, u) \/ Cancel(t, u)

\* The process runs until it exits.
Alive == \A t \in Threads : pc[t] \notin {"exit0", "fatal"}

Running(t) == CreateStep(t) \/ ExitStep(t) \/ JoinStep(t) \/ SetxidStep(t) \/ ForkStep(t)

Next == Alive /\ \E t \in Threads : \/ Calls(t) \/ Running(t) \/ Signals(t) \/ Interrupted(t)

Spec == Init /\ [][Next]_vars

\* A thread inside the library runs on, and gets a lock that is free again and
\* again; a signal that is not blocked is delivered.
FairSpec == /\ Spec
            /\ \A t \in Threads : SF_vars(Alive /\ Running(t)) /\ WF_vars(Alive /\ Signals(t))
-----------------------------------------------------------------------------
\* pthread.c keeps these threads on the list.
Listed == {t \in Threads : pc[t] \notin {"none", "xunlock", "xblock", "xcount", "xstate",
                                         "xaddr", "xunmap", "xkill", "gone", "exit0"}}

\* The threads that have not taken themselves off __thread_count, and once more
\* those whose clone failed and that have yet to take the new thread off.
Counted == {t \in Threads : pc[t] \notin {"none", "xstate", "xaddr", "xunmap", "xkill", "gone", "exit0"}}
Failing == {t \in Threads : pc[t] = "cfail"}

\* The state word, the list and the place of each thread have their types, and
\* __thread_count is exact, through failed clones, concurrent exits and fork.
TypeOK ==
  /\ pc \in [Threads -> {"none", "run", "clock", "clone", "cunlock", "cfail", "start",
                         "xlock", "xunlock", "xblock", "xcount", "xstate", "xaddr", "xunmap",
                         "xkill", "gone", "exit0", "join", "jwait", "jsleep", "slock", "ssys",
                         "swait", "flock", "fork", "fatal"}]
  /\ arg \in [Threads -> Threads \cup {Null}]
  /\ listLock \in Threads \cup {Null}
  /\ next \in [Threads -> Threads \cup {Null}] /\ prev \in [Threads -> Threads \cup {Null}]
  /\ threadCount = Cardinality(Counted) + Cardinality(Failing)
  /\ detached \in [Threads -> {"JOINABLE", "DETACHED", "EXITED"}]
  /\ {exitFutex, cleartid, mapped, canceled, cdis, casync, blocked, saved, sigcancel, sigxid}
       \subseteq [Threads -> BOOLEAN]
  /\ cred \in [Threads -> Creds]
  /\ xid \in [val : Creds, done : Nat, n : Nat, failed : BOOLEAN]
  /\ handle \in [Threads -> {"none", "valid", "joining"}]

\* A mapping is never removed too early: not while its thread runs on it, while the
\* kernel still has to zero exit_futex in it, while a join reads it, or while the
\* program has a valid pthread_t that points to it.
NeverUnmappedEarly ==
  \A t \in Threads :
    /\ pc[t] \notin {"none", "gone", "xkill"} => mapped[t]
    /\ pc[t] = "xkill" /\ cleartid[t] => mapped[t]
    /\ pc[t] \in {"join", "jwait", "jsleep"} => mapped[arg[t]]
    /\ handle[t] # "none" => mapped[t]

\* And none is forgotten: whichever of exit, join and detach comes last reclaims
\* the mapping of a thread the program has no further use for.
NoMappingLeaked ==
  \A t \in Threads \ {Main} : pc[t] = "gone" /\ handle[t] = "none" => ~mapped[t]

\* With list_lock free, the ring from every listed thread visits the other listed
\* threads, all of them, and prev is its inverse.
ListComplete ==
  listLock = Null =>
    \A t \in Listed : /\ Others(t) = Listed \ {t}
                      /\ next[t] # Null => next[prev[t]] = t /\ prev[next[t]] = t

\* "the last thread to exit ends the process": exit(0) is called when, and only
\* when, every thread has got past its own decrement of the count.
LastThreadEndsProcess ==
  /\ \A t \in Threads : pc[t] = "exit0" =>
       \A u \in Threads \ {t} : pc[u] \in {"none", "xstate", "xaddr", "xunmap", "xkill", "gone"}
  /\ \E t \in Threads : pc[t] \notin {"none", "xstate", "xaddr", "xunmap", "xkill", "gone"}

\* Between two broadcasts every listed thread has the same credentials, a thread
\* created or forked in the meantime included.
CredsAgree ==
  listLock = Null /\ Alive => \A t, u \in Listed : cred[t] = cred[u]

\* Every call of set*id returns (or ends the process).
SetxidReturns ==
  \A t \in Threads : pc[t] = "slock" ~> (pc[t] # "slock" /\ pc[t] # "ssys" /\ pc[t] # "swait") \/ ~Alive

\* A join of a thread that has ended returns, whenever its end came.
JoinReturns ==
  \A t \in Threads : \A u \in Threads \ {t} :
    (arg[t] = u /\ pc[t] \in {"join", "jwait", "jsleep"} /\ pc[u] = "gone")
      ~> (pc[t] \notin {"join", "jwait", "jsleep"} \/ ~Alive)

\* The README says that "setuid and the other set*id calls apply to every thread":
\* the thread that runs the exit handlers has the credentials last set.
ExitHasNewCredentials == \A t \in Threads : pc[t] = "exit0" => cred[t] = xid.val
=============================================================================
