----------------------------- MODULE MCProgress -----------------------------
(***************************************************************************)
(* What must happen in the end, in the modules whose threads wait for each *)
(* other.  A behaviour uses one of them, sys, under the fairness its       *)
(* module states.                                                          *)
(***************************************************************************)
EXTENDS SyncBase, Sequences

CONSTANTS t1, t2, t3, Null, None,
          MaxFires,                              \* of Timer
          out, file, MaxOpens                    \* of StdioLocks, with MaxDepth

MCThreads == {t1, t2, t3}
Pair == {t1, t2}

VARIABLES sys,
          r_lock, r_writer, r_seq, r_wwait, r_pc, r_mode, r_snap, r_held,
          s_val, s_waiters, s_pc, s_timed, s_res, s_canceled, s_sigcancel,
          o_o, o_pc, o_runs,
          t_pc, t_hpc, t_dpc, t_by, t_asleep, t_tid, t_deleting, t_mem, t_ktimer,
          t_queue, t_fires, t_calls, t_late, t_stray,
          l_ofl, l_ofl_lock, l_owner, l_lock_count, l_state, l_data, l_final,
          l_pc, l_at, l_opens,
          h_pc, arg, listLock, next, prev, threadCount, detached, exitFutex,
          canceled, cdis, casync, cleartid, mapped, blocked, saved, sigcancel, sigxid,
          cred, xid, handle

RW == INSTANCE RWLock WITH
  lock <- r_lock, writer <- r_writer, seq <- r_seq, wwait <- r_wwait, pc <- r_pc,
  mode <- r_mode, snap <- r_snap, held <- r_held
Sem == INSTANCE Semaphore WITH
  val <- s_val, waiters <- s_waiters, pc <- s_pc, timed <- s_timed, res <- s_res,
  canceled <- s_canceled, sigcancel <- s_sigcancel
One == INSTANCE Once WITH o <- o_o, pc <- o_pc, runs <- o_runs
Timers == INSTANCE Timer WITH
  pc <- t_pc, hpc <- t_hpc, dpc <- t_dpc, by <- t_by, asleep <- t_asleep, tid <- t_tid,
  deleting <- t_deleting, mem <- t_mem, ktimer <- t_ktimer, queue <- t_queue,
  fires <- t_fires, calls <- t_calls, late <- t_late, stray <- t_stray
Locks == INSTANCE StdioLocks WITH
  Threads <- Pair, Files <- {file}, StdSeq <- <<out>>,
  ofl <- l_ofl, ofl_lock <- l_ofl_lock, owner <- l_owner, lock_count <- l_lock_count,
  state <- l_state, data <- l_data, final <- l_final, pc <- l_pc, at <- l_at,
  opens <- l_opens
Two == INSTANCE Threads WITH
  Threads <- Pair, Main <- t1, Creds <- {1, 2}, Joinable <- Pair, Cancellable <- {t2}, AsyncThreads <- {},
  Setters <- Pair, Forkers <- {t1}, TimerHelpers <- {}, pc <- h_pc
Helper == INSTANCE Threads WITH
  Threads <- Pair, Main <- t1, Creds <- {1, 2}, Joinable <- {t1}, Cancellable <- {}, AsyncThreads <- {},
  Setters <- {t1}, Forkers <- {}, TimerHelpers <- {t2}, pc <- h_pc

threads == <<h_pc, arg, listLock, next, prev, threadCount, detached, exitFutex,
             canceled, cdis, casync, cleartid, mapped, blocked, saved, sigcancel, sigxid,
             cred, xid, handle>>
rw == <<r_lock, r_writer, r_seq, r_wwait, r_pc, r_mode, r_snap, r_held>>
sem == <<s_val, s_waiters, s_pc, s_timed, s_res, s_canceled, s_sigcancel>>
one == <<o_o, o_pc, o_runs>>
timers == <<t_pc, t_hpc, t_dpc, t_by, t_asleep, t_tid, t_deleting, t_mem, t_ktimer,
            t_queue, t_fires, t_calls, t_late, t_stray>>
locks == <<l_ofl, l_ofl_lock, l_owner, l_lock_count, l_state, l_data, l_final,
           l_pc, l_at, l_opens>>
vars == <<sys, threads, rw, sem, one, timers, locks>>

Init ==
  /\ sys \in {"two", "rwlock", "sem", "once", "timer", "stdio"}
  /\ RW!Init /\ Sem!Init /\ One!Init /\ Timers!Init /\ Locks!Init /\ Two!Init
  /\ xid.val = 1                             \* the values are interchangeable

Next ==
  \/ sys = "two" /\ Two!Next /\ UNCHANGED <<sys, rw, sem, one, timers, locks>>
  \/ sys = "rwlock" /\ RW!Next /\ UNCHANGED <<sys, threads, sem, one, timers, locks>>
  \/ sys = "sem" /\ Sem!Next /\ UNCHANGED <<sys, threads, rw, one, timers, locks>>
  \/ sys = "once" /\ One!Next /\ UNCHANGED <<sys, threads, rw, sem, timers, locks>>
  \/ sys = "timer" /\ Timers!Next /\ UNCHANGED <<sys, threads, rw, sem, one, locks>>
  \/ sys = "stdio" /\ Locks!Next /\ UNCHANGED <<sys, threads, rw, sem, one, timers>>

\* The fairness of each module (its FairSpec says what justifies it), required of
\* the module in use.
Fairness ==
  /\ \A t \in Threads :
       /\ WF_rw(sys = "rwlock" /\ RW!Running(t))
       /\ WF_sem(sys = "sem" /\ Sem!Running(t))
       /\ WF_sem(sys = "sem" /\ Sem!SleepFails(t, "ETIMEDOUT"))
       /\ WF_one(sys = "once" /\ (One!Running(t) \/ One!Finish(t)))
  /\ \A t \in Pair :
       /\ SF_threads(sys = "two" /\ Two!Alive /\ Two!Running(t))
       /\ WF_threads(sys = "two" /\ Two!Alive /\ Two!Signals(t))
       /\ SF_locks(sys = "stdio" /\ Locks!GoesOn(t))
       /\ WF_locks(sys = "stdio" /\ Locks!Unlocks(t))
  /\ WF_timers(sys = "timer" /\ Timers!Library)
  /\ WF_timers(sys = "timer" /\ Timers!FnReturns)

FairSpec == Init /\ [][Next]_vars /\ Fairness

\* A thread and the helper thread of a timer, under the same fairness
HelperInit ==
  /\ sys = "helper" /\ RW!Init /\ Sem!Init /\ One!Init /\ Timers!Init /\ Locks!Init /\ Helper!Init
HelperSpec ==
  /\ HelperInit /\ [][Helper!Next /\ UNCHANGED <<sys, rw, sem, one, timers, locks>>]_vars
  /\ \A t \in Pair : /\ SF_threads(Helper!Alive /\ Helper!Running(t))
                     /\ WF_threads(Helper!Alive /\ Helper!Signals(t))
-----------------------------------------------------------------------------
\* Whoever can go on does: a free read-write lock that is waited for is taken, a
\* token a thread sleeps for is taken, every call of pthread_once returns once the
\* routine has.
WaitsEnd == /\ sys = "rwlock" => RW!FreeLockIsTaken
            /\ sys = "sem" => Sem!TokensAreNoticed
            /\ sys = "once" => One!EveryCallReturns

\* fopen, fclose, fflush(NULL), exit and timer_create return whatever the other
\* threads hold meanwhile, the helper of a deleted timer ends, and setuid and
\* pthread_join return, fork included.
CallsReturn == /\ sys = "stdio" => Locks!CallsReturn /\ Locks!ExitEnds
               /\ sys = "timer" => Timers!CreateReturns /\ Timers!HelperEnds
               /\ sys = "two" => Two!SetxidReturns /\ Two!JoinReturns

\* setuid returns in a process whose other thread is the helper of a timer.
SetxidReturns == Helper!SetxidReturns
=============================================================================
