------------------------------- MODULE MCLocks -------------------------------
(***************************************************************************)
(* The mutex (the module extended), the internal lock of the library, and  *)
(* the asynchronous requests that are kept under a mutex.  A behaviour     *)
(* uses one of them, sys, under the fairness its module states.            *)
(***************************************************************************)
EXTENDS PthreadMutex, Sequences, TLC

CONSTANTS t1, t2, t3,
          c1, c2, cb1, cb2, fd1,    \* clients, control blocks and descriptor of Aio
          MaxReqs, MaxGroups

MCThreads == {t1, t2, t3}
Clients == {c1, c2}

VARIABLES sys, f_l, f_pc,
          a_err, a_list, a_next_seq, a_req, a_wpc, a_left, a_group, a_notified, a_pc, a_job,
          a_sleeping, a_held

Fut == INSTANCE FutexLock WITH l <- f_l, pc <- f_pc
Requests == INSTANCE Aio WITH
  Cbs <- {cb1, cb2}, FdOf <- (cb1 :> fd1 @@ cb2 :> fd1), Lists <- {<<cb1, cb2>>}, Cancellable <- {c1},
  err <- a_err, list <- a_list, next_seq <- a_next_seq, req <- a_req, wpc <- a_wpc, left <- a_left,
  group <- a_group, notified <- a_notified, pc <- a_pc, job <- a_job, sleeping <- a_sleeping,
  held <- a_held

futex == <<f_l, f_pc>>
aio == <<a_err, a_list, a_next_seq, a_req, a_wpc, a_left, a_group, a_notified, a_pc, a_job,
         a_sleeping, a_held>>
all == <<sys, vars, futex, aio>>

LocksInit == /\ sys \in {"mutex", "futex", "aio"}
             /\ Init /\ Fut!Init /\ Requests!Init
             /\ sys # "mutex" => type = "NORMAL"      \* one value of what is not used

LocksNext == \/ sys = "mutex" /\ Next /\ UNCHANGED <<sys, futex, aio>>
             \/ sys = "futex" /\ Fut!Next /\ UNCHANGED <<sys, vars, aio>>
             \/ sys = "aio" /\ Requests!Next /\ UNCHANGED <<sys, vars, futex>>

LocksSpec ==
  /\ LocksInit /\ [][LocksNext]_all
  /\ \A t \in Threads : /\ WF_vars(sys = "mutex" /\ Running(t))
                        /\ WF_futex(sys = "futex" /\ Fut!Running(t))
  /\ \A c \in Clients : WF_aio(sys = "aio" /\ Requests!Client(c))
  /\ \A s \in Requests!Seqs : WF_aio(sys = "aio" /\ Requests!Worker(s))
-----------------------------------------------------------------------------
\* __lock and __unlock keep their inductive invariant and implement the abstract
\* lock: one holder, and a free lock that is wanted is taken.
InternalLockTrue == [][Fut!IInv']_all /\ Fut!ImplementsLock

\* Asynchronous requests: the group of a lio_listio call is there while it is used and
\* its completion is notified once, when all of its requests are over; aio_fsync waits
\* for what was queued before it; a request's status changes only while it is in
\* progress, and aio_cancel says AIO_ALLDONE only when nothing on the descriptor is.
RequestsTrue == /\ [][/\ Requests!TypeOK' /\ Requests!GroupLivesWhileUsed'
                      /\ Requests!NotifiedWhenAllDone' /\ Requests!FsyncAfterEarlier'
                      /\ Requests!AllDoneMeansDone']_all
                /\ Requests!CallerOwnsFinished

\* Every asynchronous request completes.
Completes == Requests!Completes
=============================================================================
