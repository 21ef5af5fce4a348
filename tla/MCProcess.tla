------------------------------ MODULE MCProcess ------------------------------
(***************************************************************************)
(* What a process goes through: the dynamic linker, the exit handlers,     *)
(* fork, the life of threads, the helper thread of a timer, and the        *)
(* children made by posix_spawn, popen and system.  They are checked side  *)
(* by side, a behaviour uses one of them, sys.                             *)
(*                                                                         *)
(* The objects of the linker: libB needs libA, libA and libC need each     *)
(* other, libA needs the program's library libS as well, and libC imports  *)
(* symbols of libB and of libD, which it does not depend on.               *)
(***************************************************************************)
EXTENDS DynLink

CONSTANTS libS, libA, libB, libC, libD,                  \* objects
          t1, t2, t3, Null,                              \* threads
          Systems,
          Cap, MaxBlocks, MaxExitFns, NestedInLibrary, CloseDuringExit,
          NPools, MaxAtfork, MaxForks, MaxLevel,
          MaxFires,
          MaxProcs, MaxCalls                             \* of Spawn

MCThreads == {t1, t2}
MCDeps == [x \in Objs |-> CASE x = libA -> {libC, libS} [] x \in {libB, libC} -> {libA} [] OTHER -> {}]
MCImports == [x \in Objs |-> IF x = libC THEN {libB, libD} ELSE {}]

\* Descriptors 0 to 7; the program has two or three open, one of them close-on-exec.
Open(n, cx) == [f |-> <<"file", n>>, cx |-> cx]
MCTables == {[n \in {0, 1, 2} |-> Open(n, n = 2)], [n \in {0, 2} |-> Open(n, FALSE)]}
Action(type, fd, newfd, ok) == [type |-> type, fd |-> fd, newfd |-> newfd, ok |-> ok]
MCActions == {Action("dup2", 0, 1, TRUE), Action("dup2", 2, 3, TRUE), Action("dup2", 2, 2, TRUE),
              Action("dup2", 7, 1, TRUE), Action("open", 4, 9, TRUE),
              Action("chdir", 4, 8, TRUE), Action("fchdir", 0, 0, TRUE)}
Job(flags, attr, tries, search) == [flags |-> flags, attr |-> attr, tries |-> tries, search |-> search]
MCJobs == {Job({"QUIT"}, "", <<"ok">>, FALSE), Job({"mask"}, "", <<"EACCES", "toolong", "ENOENT">>, TRUE),
           Job({}, "", <<"ENOENT", "ok", "EIO">>, TRUE), Job({}, "EPERM", <<"ok">>, FALSE)}
MCLists == [1..3 -> {"ok", "EACCES", "ENOENT", "ELOOP", "ENOEXEC", "toolong", "EIO"}]
MCModes == {[c |-> "r", e |-> FALSE], [c |-> "w", e |-> TRUE]}

VARIABLES sys,
          e_lock, e_n, e_fns, e_older, e_cur, e_blocks, e_exiting, e_pc, e_b, e_i,
          e_fn, e_lib, e_count, e_ran,
          f_want, f_held, f_pc, f_tab, f_n, f_k, f_ran, f_child, f_forks,
          t_pc, t_hpc, t_dpc, t_by, t_asleep, t_tid, t_deleting, t_mem, t_ktimer,
          t_queue, t_fires, t_calls, t_late, t_stray,
          h_pc, h_arg, h_listLock, h_next, h_prev, h_threadCount, h_detached, h_exitFutex,
          h_canceled, h_cdis, h_casync, h_cleartid, h_mapped, h_blocked, h_saved,
          h_sigcancel, h_sigxid, h_cred, h_xid, h_handle,
          p_procs, p_streams, p_fa, p_k, p_c, p_last, p_strayed, p_calls

Exits == INSTANCE ExitFns WITH
  Threads <- MCThreads, MaxHandlers <- MaxExitFns,
  exit_lock <- e_lock, n <- e_n, fns <- e_fns, older <- e_older, cur <- e_cur,
  blocks <- e_blocks, exiting <- e_exiting, pc <- e_pc, b <- e_b, i <- e_i,
  fn <- e_fn, lib <- e_lib, count <- e_count, ran <- e_ran
Forks == INSTANCE Fork WITH
  Threads <- MCThreads, MaxHandlers <- MaxAtfork,
  want <- f_want, held <- f_held, pc <- f_pc, tab <- f_tab, n <- f_n, k <- f_k,
  ran <- f_ran, child <- f_child, forks <- f_forks
Timers == INSTANCE Timer WITH
  pc <- t_pc, hpc <- t_hpc, dpc <- t_dpc, by <- t_by, asleep <- t_asleep, tid <- t_tid,
  deleting <- t_deleting, mem <- t_mem, ktimer <- t_ktimer, queue <- t_queue,
  fires <- t_fires, calls <- t_calls, late <- t_late, stray <- t_stray
\* Of three threads one calls setuid; or else two of them can be joined.
Life == INSTANCE Threads WITH
  Threads <- {t1, t2, t3}, Main <- t1, Creds <- {1, 2}, Joinable <- {t1}, Cancellable <- {t2},
  AsyncThreads <- {t2}, Setters <- {t1}, Forkers <- {}, TimerHelpers <- {},
  pc <- h_pc, arg <- h_arg, listLock <- h_listLock, next <- h_next, prev <- h_prev,
  threadCount <- h_threadCount, detached <- h_detached, exitFutex <- h_exitFutex,
  canceled <- h_canceled, cdis <- h_cdis, casync <- h_casync, cleartid <- h_cleartid,
  mapped <- h_mapped, blocked <- h_blocked, saved <- h_saved, sigcancel <- h_sigcancel,
  sigxid <- h_sigxid, cred <- h_cred, xid <- h_xid, handle <- h_handle
Joins == INSTANCE Threads WITH
  Threads <- {t1, t2, t3}, Main <- t1, Creds <- {1, 2}, Joinable <- {t1, t2}, Cancellable <- {t2},
  AsyncThreads <- {t2}, Setters <- {}, Forkers <- {}, TimerHelpers <- {},
  pc <- h_pc, arg <- h_arg, listLock <- h_listLock, next <- h_next, prev <- h_prev,
  threadCount <- h_threadCount, detached <- h_detached, exitFutex <- h_exitFutex,
  canceled <- h_canceled, cdis <- h_cdis, casync <- h_casync, cleartid <- h_cleartid,
  mapped <- h_mapped, blocked <- h_blocked, saved <- h_saved, sigcancel <- h_sigcancel,
  sigxid <- h_sigxid, cred <- h_cred, xid <- h_xid, handle <- h_handle
Children == INSTANCE Spawn WITH
  MaxFd <- 7, Tables <- MCTables, Actions <- MCActions, Jobs <- MCJobs, Lists <- MCLists,
  Modes <- MCModes, Directories <- {0},
  procs <- p_procs, streams <- p_streams, fa <- p_fa, k <- p_k, c <- p_c, last <- p_last,
  strayed <- p_strayed, calls <- p_calls

exits == <<e_lock, e_n, e_fns, e_older, e_cur, e_blocks, e_exiting, e_pc, e_b, e_i,
           e_fn, e_lib, e_count, e_ran>>
forks == <<f_want, f_held, f_pc, f_tab, f_n, f_k, f_ran, f_child, f_forks>>
timers == <<t_pc, t_hpc, t_dpc, t_by, t_asleep, t_tid, t_deleting, t_mem, t_ktimer,
            t_queue, t_fires, t_calls, t_late, t_stray>>
life == <<h_pc, h_arg, h_listLock, h_next, h_prev, h_threadCount, h_detached, h_exitFutex,
          h_canceled, h_cdis, h_casync, h_cleartid, h_mapped, h_blocked, h_saved,
          h_sigcancel, h_sigxid, h_cred, h_xid, h_handle>>
children == <<p_procs, p_streams, p_fa, p_k, p_c, p_last, p_strayed, p_calls>>
allvars == <<sys, vars, exits, forks, timers, life, children>>

ProcessInit == /\ sys \in Systems
               /\ Init /\ Exits!Init /\ Forks!Init /\ Timers!Init /\ Life!Init
               /\ Children!Init
               /\ h_xid.val = 1    \* the values of the credentials are interchangeable
               \* one value of what is not used
               /\ sys # "spawn" => 1 \notin DOMAIN p_procs[0].fds

ProcessNext ==
  \/ sys = "dl" /\ Next /\ UNCHANGED <<sys, exits, forks, timers, life, children>>
  \/ sys = "exit" /\ Exits!Next /\ UNCHANGED <<sys, vars, forks, timers, life, children>>
  \/ sys = "fork" /\ Forks!Next /\ UNCHANGED <<sys, vars, exits, timers, life, children>>
  \/ sys = "timer" /\ Timers!Next /\ UNCHANGED <<sys, vars, exits, forks, life, children>>
  \/ sys = "life" /\ Life!Next /\ UNCHANGED <<sys, vars, exits, forks, timers, children>>
  \/ sys = "joins" /\ Joins!Next /\ UNCHANGED <<sys, vars, exits, forks, timers, children>>
  \/ sys = "spawn" /\ Children!Next /\ UNCHANGED <<sys, vars, exits, forks, timers, life>>

ProcessSpec == ProcessInit /\ [][ProcessNext]_allvars
-----------------------------------------------------------------------------
\* dlopen and dlclose: what is mapped is what is needed.  The reference counts are
\* true, no mapped object refers to an unmapped one, an open handle has its scope,
\* code that runs or will run is mapped, and outside of the calls nothing is mapped
\* that nothing needs.
MappedWhileNeeded == sys = "dl" =>
  TypeOK /\ RefcntTrue /\ NothingDangles /\ HandleUsable /\ CodeMapped /\ NoLeak

\* exit and dlclose run every handler, and no handler twice; an unmapped library has no
\* handler left for exit to call.
HandlersRunOnce == sys = "exit" =>
                   /\ Exits!TypeOK /\ Exits!RunsOnce /\ Exits!ExitRunsAll
                   /\ Exits!UnmappedLibraryHasNoHandlers

\* exit calls the handlers newest first; fork runs the parent handlers of the prepare
\* handlers it ran, in the opposite order.
HandlerOrder == Exits!NewestFirst /\ Forks!HandlersPaired

\* The child of fork has consistent copies of the heap, the object list and the
\* thread list, and can lock them; the locks are taken in one order.
ChildUsable == sys = "fork" =>
  Forks!TypeOK /\ Forks!ChildIsWhole /\ Forks!ChildUnlocked /\ Forks!NoWaitCycle

\* A timer's function is called once per expiration at most, and at most once after
\* timer_delete set its flag; the state goes only after the kernel timer.
TimerCalls == sys = "timer" =>
              /\ Timers!TypeOK /\ Timers!OneCallPerExpiration /\ Timers!OneLateCallAtMost
              /\ Timers!FreedOnlyWhenDeleted

\* The mapping of a thread's stack is removed, and not before its last use, whichever
\* of exit, join and detach comes last.
MappingLifetime == /\ sys = "life" => Life!NeverUnmappedEarly /\ Life!NoMappingLeaked
                   /\ sys = "joins" => Joins!NeverUnmappedEarly /\ Joins!NoMappingLeaked

\* Every live thread is on the list of threads and counted, and when setuid has
\* returned they all have the new credentials; the last one to exit ends the process.
ThreadsListed == /\ sys = "life" => /\ Life!TypeOK /\ Life!ListComplete
                                    /\ Life!CredsAgree /\ Life!LastThreadEndsProcess
                 /\ sys = "joins" => /\ Joins!TypeOK /\ Joins!ListComplete
                                     /\ Joins!LastThreadEndsProcess

\* posix_spawn returns 0 exactly when the program runs, with the descriptors, signal
\* mask and directory the file actions and attributes ask for; the pipe that carries
\* the error stays in the library.
SpawnTrue == sys = "spawn" => Children!SpawnTrue /\ Children!ErrorPipePrivate

\* popen's stream and child hold the two ends of one pipe, pclose and system return
\* their own child's status, system restores the signals, execvpe tries the
\* directories of PATH in order.
CommandsTrue == sys = "spawn" => Children!PopenTrue /\ Children!CommandTrue

\* popen.c says of the descriptors that "other popen streams are never inherited".
StreamsPrivate == Children!StreamsPrivate
=============================================================================
