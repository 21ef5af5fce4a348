-------------------------------- MODULE Sync --------------------------------
(***************************************************************************)
(* The synchronisation primitives, the named semaphores and the locks of   *)
(* the streams side by side.  They share no state, so a behaviour uses one *)
(* of them, sys, and leaves the others as they are; it uses none of them   *)
(* when sys is one of the two streams that MCSync adds.  The invariants    *)
(* proved of the primitives one by one are those of the whole.             *)
(***************************************************************************)
EXTENDS SyncBase, TLAPS

CONSTANTS None,
          Procs, ProcOf, Inodes, MaxHandles,   \* of NamedSem
          Files, StdSeq, MaxOpens              \* of StdioLocks, with MaxDepth

VARIABLES sys,
          c_owner, c_count, c_nest, c_items, c_owes, c_seq, c_snap, c_saved,
          c_res, c_timed, c_canceled, c_sigcancel, c_pc,
          r_lock, r_writer, r_seq, r_wwait, r_pc, r_mode, r_snap, r_held,
          s_val, s_waiters, s_pc, s_timed, s_res, s_canceled, s_sigcancel,
          b_target, b_owner, b_count, b_cycle, b_seq, b_mycycle, b_snap, b_pc, b_arrived, b_ticket,
          o_o, o_pc, o_runs,
          n_name, n_inited, n_tmp, n_fd, n_flags, n_refs, n_pc, n_handles,
          l_ofl, l_ofl_lock, l_owner, l_lock_count, l_state, l_data, l_final, l_pc, l_at, l_opens

\* The modules with the proofs extend the specifications; both are used here.
Cond == INSTANCE CondVarProofs WITH
  owner <- c_owner, count <- c_count, nest <- c_nest, items <- c_items,
  owes <- c_owes, seq <- c_seq, snap <- c_snap, saved <- c_saved, res <- c_res,
  timed <- c_timed, canceled <- c_canceled, sigcancel <- c_sigcancel, pc <- c_pc
RW == INSTANCE RWLockProofs WITH
  lock <- r_lock, writer <- r_writer, seq <- r_seq, wwait <- r_wwait, pc <- r_pc,
  mode <- r_mode, snap <- r_snap, held <- r_held
Sem == INSTANCE SemaphoreProofs WITH
  val <- s_val, waiters <- s_waiters, pc <- s_pc, timed <- s_timed, res <- s_res,
  canceled <- s_canceled, sigcancel <- s_sigcancel
Bar == INSTANCE BarrierProofs WITH
  target <- b_target, owner <- b_owner, count <- b_count, cycle <- b_cycle, seq <- b_seq,
  mycycle <- b_mycycle, snap <- b_snap, pc <- b_pc, arrived <- b_arrived,
  ticket <- b_ticket
One == INSTANCE Once WITH o <- o_o, pc <- o_pc, runs <- o_runs
Named == INSTANCE NamedSem WITH
  Actors <- Threads,
  name <- n_name, inited <- n_inited, tmp <- n_tmp, fd <- n_fd, flags <- n_flags,
  refs <- n_refs, pc <- n_pc, handles <- n_handles
Locks == INSTANCE StdioLocks WITH
  ofl <- l_ofl, ofl_lock <- l_ofl_lock, owner <- l_owner, lock_count <- l_lock_count,
  state <- l_state, data <- l_data, final <- l_final, pc <- l_pc, at <- l_at, opens <- l_opens

cond == <<c_owner, c_count, c_nest, c_items, c_owes, c_seq, c_snap, c_saved,
          c_res, c_timed, c_canceled, c_sigcancel, c_pc>>
rw == <<r_lock, r_writer, r_seq, r_wwait, r_pc, r_mode, r_snap, r_held>>
sem == <<s_val, s_waiters, s_pc, s_timed, s_res, s_canceled, s_sigcancel>>
bar == <<b_target, b_owner, b_count, b_cycle, b_seq, b_mycycle, b_snap, b_pc, b_arrived, b_ticket>>
one == <<o_o, o_pc, o_runs>>
named == <<n_name, n_inited, n_tmp, n_fd, n_flags, n_refs, n_pc, n_handles>>
locks == <<l_ofl, l_ofl_lock, l_owner, l_lock_count, l_state, l_data, l_final, l_pc, l_at, l_opens>>
vars == <<sys, cond, rw, sem, bar, one, named, locks>>

Init == /\ sys \in {"cond", "rwlock", "sem", "barrier", "once", "named", "locks", "stream", "other"}
        /\ Cond!Init /\ RW!Init /\ Sem!Init /\ Bar!Init /\ One!Init /\ Named!Init /\ Locks!Init
        /\ sys # "barrier" => b_target = 1     \* one value of what is not used

Next == \/ sys = "cond" /\ Cond!Next /\ UNCHANGED <<sys, rw, sem, bar, one, named, locks>>
        \/ sys = "rwlock" /\ RW!Next /\ UNCHANGED <<sys, cond, sem, bar, one, named, locks>>
        \/ sys = "sem" /\ Sem!Next /\ UNCHANGED <<sys, cond, rw, bar, one, named, locks>>
        \/ sys = "barrier" /\ Bar!Next /\ UNCHANGED <<sys, cond, rw, sem, one, named, locks>>
        \/ sys = "once" /\ One!Next /\ UNCHANGED <<sys, cond, rw, sem, bar, named, locks>>
        \/ sys = "named" /\ Named!Next /\ UNCHANGED <<sys, cond, rw, sem, bar, one, locks>>
        \/ sys = "locks" /\ Locks!Next /\ UNCHANGED <<sys, cond, rw, sem, bar, one, named>>

Spec == Init /\ [][Next]_vars
-----------------------------------------------------------------------------
\* No wake-up is lost in any of the four functions that sleep on a futex: the
\* condition wait, the read-write lock, sem_wait and the barrier (each stated in
\* its module, over what that primitive's sleepers wait for, in its IInv with what
\* makes it inductive).
NoForgottenWaiter == /\ sys = "cond" => Cond!IInv /\ Cond!NoForgottenWaiter
                     /\ sys = "rwlock" => RW!IInv /\ RW!NoLostWakeup
                     /\ sys = "sem" => Sem!IInv /\ Sem!NoForgottenWaiter
                     /\ sys = "barrier" => Bar!IInv /\ Bar!NobodyLeftBehind

\* pthread_rwlock_*: a writer is alone, __lock says who is inside and never counts
\* beyond MAX_READERS; a thread that reads never waits for another read lock.
WriterAlone == sys = "rwlock" => RW!TypeOK /\ RW!WriterAlone /\ RW!RecursiveReadNeverWaits

\* cond_wait: a waiter, a cancelled one too, owns the mutex again at the depth it had.
MutexComesBack == [][sys = "cond" => Cond!DepthKept']_vars /\ Cond!DiesOwningMutex

\* pthread_barrier_wait: no call returns before its own cycle is complete;
\* pthread_once: none before the one call of the routine has.
NoEarlyReturn == [][sys = "once" => One!IInv' /\ One!OnlyAfterTheRoutine']_vars /\ Bar!NoEarlyRelease

\* sem_open: "nobody sees an uninitialised semaphore", the mappings of a process
\* are those of its open handles, no temporary file is left behind, and of the
\* processes that race to create a name one wins.
NamesTrue == /\ [][sys = "named" =>
                   /\ Named!TypeOK' /\ Named!NobodySeesUninitialised'
                   /\ Named!MappingsMatchHandles' /\ Named!NoTemporaryLeft']_vars
             /\ Named!NameNeverStolen

\* Nobody touches a FILE that fclose has freed, and when exit is done every open stream
\* has been flushed and nobody has written to it since.
StreamLocks == sys = "locks" =>
               /\ Locks!TypeOK /\ Locks!NoFreedStream
               /\ Locks!FinalFlushIsFinal /\ Locks!AllFlushed
-----------------------------------------------------------------------------
(* pthread_once *)

\* The invariant of pthread_once holds initially: nobody has called it.
LEMMA OnceInit == One!Init => One!IInv
  BY DEF One!Init, One!IInv, One!TypeOK, One!Sleepers

\* Every step of pthread_once keeps it.
LEMMA OnceStep == One!IInv /\ [One!Next]_(One!vars) => One!IInv'
<1> SUFFICES ASSUME One!IInv, [One!Next]_(One!vars)
             PROVE  One!IInv'
  OBVIOUS
<1> USE DEF One!IInv, One!TypeOK, One!Sleepers, One!Goto
<1>1. ASSUME NEW t \in Threads, One!Call(t)
      PROVE  One!IInv'
  BY <1>1 DEF One!Call
<1>2. ASSUME NEW t \in Threads, One!Claim(t)
      PROVE  One!IInv'
  BY <1>2 DEF One!Claim
<1>3. ASSUME NEW t \in Threads, One!Finish(t)
      PROVE  One!IInv'
  BY <1>3 DEF One!Finish
<1>4. ASSUME NEW t \in Threads, One!FutexWake(t)
      PROVE  One!IInv'
  BY <1>4 DEF One!FutexWake
<1>5. ASSUME NEW t \in Threads, One!Load(t)
      PROVE  One!IInv'
  BY <1>5 DEF One!Load
<1>6. ASSUME NEW t \in Threads, One!Mark(t)
      PROVE  One!IInv'
  BY <1>6 DEF One!Mark
<1>7. ASSUME NEW t \in Threads, One!FutexWait(t)
      PROVE  One!IInv'
  BY <1>7 DEF One!FutexWait
<1>8. ASSUME NEW t \in Threads, One!Interrupted(t)
      PROVE  One!IInv'
  BY <1>8 DEF One!Interrupted
<1>9. CASE UNCHANGED One!vars
  BY <1>9 DEF One!vars
<1> QED
  BY <1>1, <1>2, <1>3, <1>4, <1>5, <1>6, <1>7, <1>8, <1>9 DEF One!Next, One!Running

-----------------------------------------------------------------------------
(* The primitives one by one: a behaviour of Sync is one of each of them. *)

\* Whichever primitive a behaviour uses, all are as their initialisers leave them.
LEMMA InitAll == Init => RW!Init /\ Sem!Init /\ Cond!Init /\ Bar!Init /\ One!Init
  BY DEF Init

\* A step of one leaves the variables of the others as they are.
LEMMA StepAll ==
  [Next]_vars => /\ [RW!Next]_(RW!vars) /\ [Sem!Next]_(Sem!vars) /\ [Cond!Next]_(Cond!vars)
                 /\ [Bar!Next]_(Bar!vars) /\ [One!Next]_(One!vars)
  BY DEF Next, vars, rw, sem, cond, bar, one, RW!vars, Sem!vars, Bar!vars, One!vars,
         Cond!vars, Cond!mutex, Cond!data, Cond!locals, Cond!cancel

\* rw_lock, rw_try and pthread_rwlock_unlock, sem_wait and sem_post, the waits and signals
\* of a condition variable, pthread_barrier_wait and pthread_once keep their invariants;
\* a thread cancelled in a wait dies owning the mutex, and the barrier releases nobody
\* early.
LEMMA AllKept == Spec => /\ [](RW!IInv /\ Sem!IInv /\ Cond!IInv /\ Bar!IInv /\ One!IInv)
                         /\ []Cond!NoForgottenWaiter
                         /\ Cond!DiesOwningMutex /\ Bar!NoEarlyRelease
<1>1. /\ RW!Spec => []RW!IInv
      /\ Sem!Spec => []Sem!IInv
      /\ Cond!Spec => []Cond!IInv
      /\ Cond!Spec => [](Cond!NoForgottenWaiter /\ Cond!DepthKept) /\ Cond!DiesOwningMutex
      /\ Bar!Spec => []Bar!IInv
      /\ Bar!Spec => []Bar!NobodyLeftBehind /\ Bar!NoEarlyRelease
  BY RW!Invariance, Sem!Invariance, Cond!Invariance, Cond!Safety, Bar!Invariance, Bar!Safety,
     ThreadsAssumption, NoOwnerAssumption, CancellableAssumption, LimitAssumption
     DEF IsFiniteSet, RW!IsFiniteSet, Sem!IsFiniteSet, Cond!IsFiniteSet, Bar!IsFiniteSet
<1> QED BY <1>1, InitAll, StepAll, OnceInit, OnceStep, PTL
        DEF Spec, RW!Spec, Sem!Spec, Cond!Spec, Bar!Spec
-----------------------------------------------------------------------------
(* What the run checks *)

\* The invariants of the primitives are those of Sync, whichever of them is in use.
LEMMA Consequences ==
  ASSUME RW!IInv, Sem!IInv, Cond!IInv, Bar!IInv, One!IInv, Cond!NoForgottenWaiter
  PROVE  NoForgottenWaiter /\ WriterAlone /\ Cond!DepthKept /\ One!OnlyAfterTheRoutine
  BY DEF NoForgottenWaiter, WriterAlone, RW!IInv, Sem!IInv, Bar!IInv, Cond!IInv, One!IInv,
         One!OnlyAfterTheRoutine

\* No wake-up is lost by cond_wait, rw_lock, sem_wait or pthread_barrier_wait.
THEOREM SyncNoForgottenWaiter == Spec => []NoForgottenWaiter
  BY AllKept, Consequences, PTL

\* A writer is alone, __lock says who is inside, and a thread that reads never waits
\* for another read lock.
THEOREM SyncWriterAlone == Spec => []WriterAlone
  BY AllKept, Consequences, PTL

\* A thread that waited on a condition variable, and one cancelled there, owns the
\* mutex again at the depth it had.
THEOREM SyncMutexComesBack == Spec => MutexComesBack
  BY AllKept, Consequences, PTL DEF MutexComesBack

\* pthread_barrier_wait returns only when its cycle is complete, pthread_once only when
\* the routine has returned.
THEOREM SyncNoEarlyReturn == Spec => NoEarlyReturn
  BY AllKept, Consequences, PTL DEF NoEarlyReturn
=============================================================================
