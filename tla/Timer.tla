-------------------------------- MODULE Timer --------------------------------
(***************************************************************************)
(* A SIGEV_THREAD timer (timer.c): a kernel timer that signals a helper    *)
(* thread, and the helper, which waits for the signal and calls the        *)
(* function.  The state they share is allocated by timer_create and freed  *)
(* by the helper when it notices that the timer is deleted.  timer_delete  *)
(* is called by the program or by the notification function itself.        *)
(*                                                                         *)
(* pc:   new, tid (waits for t->tid), kernel, ready, failed                *)
(* hpc:  none, tid, wait, expired, told (what sigtimedwait returned),      *)
(*       call, fn (in the function), gone                                  *)
(* dpc:  none, kernel, flag, tid, kill, done; by: who is in timer_delete   *)
(***************************************************************************)
EXTENDS Integers, Sequences

CONSTANT MaxFires

VARIABLES pc, hpc, dpc, by,
          asleep,         \* timer_create sleeps on t->tid
          tid, deleting,  \* the shared state; tid is "unset" or "helper"
          mem,            \* the state: "none", "live", "freed"
          ktimer,         \* the kernel timer: "none", "disarmed", "armed", "deleted"
          queue,          \* the signals pending for the helper
          fires, calls,   \* expirations delivered; calls of the function
          late,           \* calls that began with the flag set
          stray           \* the freed state was read

vars == <<pc, hpc, dpc, by, asleep, tid, deleting, mem, ktimer, queue, fires, calls, late, stray>>
shared == <<tid, deleting, mem>>
kernel == <<ktimer, queue, fires>>

Init == /\ pc = "new" /\ hpc = "none" /\ dpc = "none" /\ by = "none"
        /\ asleep = FALSE
        /\ tid = "unset" /\ deleting = FALSE /\ mem = "none"
        /\ ktimer = "none" /\ queue = <<>> /\ fires = 0 /\ calls = 0 /\ late = 0
        /\ stray = FALSE

Read == stray' = (stray \/ mem = "freed")
-----------------------------------------------------------------------------
\* timer_create: the state is allocated and the helper is created, or not.
CreateCall ==
  /\ pc = "new"
  /\ \/ mem' = "live" /\ hpc' = "tid" /\ pc' = "tid"
     \/ pc' = "failed" /\ UNCHANGED <<mem, hpc>>
  /\ UNCHANGED <<dpc, by, asleep, tid, deleting, kernel, calls, late, stray>>

\* Mutant: the wait does not compare t->tid.
AwaitTidBlindly ==
  /\ pc = "tid" /\ ~asleep
  /\ Read
  /\ \/ tid # "unset" /\ pc' = "kernel" /\ UNCHANGED asleep
     \/ asleep' = TRUE /\ UNCHANGED pc
  /\ UNCHANGED <<hpc, dpc, by, shared, kernel, calls, late>>

\* while (!t->tid) futex wait
AwaitTid ==
  /\ pc = "tid" /\ ~asleep
  /\ Read
  /\ IF tid # "unset" THEN pc' = "kernel" /\ UNCHANGED asleep
                      ELSE asleep' = TRUE /\ UNCHANGED pc
  /\ UNCHANGED <<hpc, dpc, by, shared, kernel, calls, late>>

\* The kernel timer is made; if it cannot be, the helper is told to stop, as in
\* timer_delete.
KernelTimer ==
  /\ pc = "kernel"
  /\ Read
  /\ \/ ktimer' = "disarmed" /\ pc' = "ready" /\ UNCHANGED <<dpc, by>>
     \/ pc' = "failed" /\ dpc' = "flag" /\ by' = "create" /\ UNCHANGED ktimer
  /\ UNCHANGED <<hpc, asleep, shared, queue, fires, calls, late>>

\* timer_settime
Settime ==
  /\ pc = "ready" /\ dpc = "none" /\ ktimer \in {"disarmed", "armed"}
  /\ Read
  /\ ktimer' \in {"disarmed", "armed"}
  /\ UNCHANGED <<pc, hpc, dpc, by, asleep, shared, queue, fires, calls, late>>

\* Mutant: every expiration is queued.
FireAgain ==
  /\ ktimer = "armed" /\ fires < MaxFires
  /\ queue' = Append(queue, "timer") /\ fires' = fires + 1
  /\ UNCHANGED <<pc, hpc, dpc, by, asleep, shared, ktimer, calls, late, stray>>

\* The kernel: an expiration queues its signal unless it is still queued (an overrun).
Fire ==
  /\ ktimer = "armed" /\ fires < MaxFires
  /\ \A k \in 1..Len(queue) : queue[k] # "timer"
  /\ queue' = Append(queue, "timer") /\ fires' = fires + 1
  /\ UNCHANGED <<pc, hpc, dpc, by, asleep, shared, ktimer, calls, late, stray>>
-----------------------------------------------------------------------------
\* The helper stores its thread id and wakes timer_create.
HelperTid ==
  /\ hpc = "tid"
  /\ tid' = "helper" /\ asleep' = FALSE /\ hpc' = "wait"
  /\ UNCHANGED <<pc, dpc, by, deleting, mem, kernel, calls, late, stray>>

\* rt_sigtimedwait takes the first signal.
HelperWait ==
  /\ hpc = "wait" /\ queue # <<>>
  /\ hpc' = IF Head(queue) = "timer" THEN "expired" ELSE "told"
  /\ queue' = Tail(queue)
  /\ UNCHANGED <<pc, dpc, by, asleep, shared, ktimer, fires, calls, late, stray>>

\* Mutant: the signal of timer_delete is taken for an expiration.
HelperCheckAny ==
  /\ hpc \in {"expired", "told"}
  /\ Read
  /\ IF deleting /\ hpc = "told" /\ by = "create"
       THEN mem' = "freed" /\ hpc' = "gone"
       ELSE hpc' = "call" /\ UNCHANGED mem
  /\ UNCHANGED <<pc, dpc, by, asleep, tid, deleting, kernel, calls, late>>

\* Mutant: the flag is looked at only for the signal of timer_delete.
HelperCheckTold ==
  /\ hpc \in {"expired", "told"}
  /\ Read
  /\ IF deleting /\ hpc = "told"
       THEN mem' = "freed" /\ hpc' = "gone"
       ELSE hpc' = (IF hpc = "expired" THEN "call" ELSE "wait") /\ UNCHANGED mem
  /\ UNCHANGED <<pc, dpc, by, asleep, tid, deleting, kernel, calls, late>>

\* if (t->deleting) free; else if the timer sent the signal, the function is called.
HelperCheck ==
  /\ hpc \in {"expired", "told"}
  /\ Read
  /\ IF deleting
       THEN mem' = "freed" /\ hpc' = "gone"
       ELSE hpc' = (IF hpc = "expired" THEN "call" ELSE "wait") /\ UNCHANGED mem
  /\ UNCHANGED <<pc, dpc, by, asleep, tid, deleting, kernel, calls, late>>
HelperCall ==
  /\ hpc = "call" /\ hpc' = "fn"
  /\ Read
  /\ calls' = calls + 1 /\ late' = IF deleting THEN late + 1 ELSE late
  /\ UNCHANGED <<pc, dpc, by, asleep, shared, kernel>>

FnReturns ==
  /\ hpc = "fn" /\ (by = "helper" => dpc = "done")
  /\ hpc' = "wait"
  /\ UNCHANGED <<pc, dpc, by, asleep, shared, kernel, calls, late, stray>>
-----------------------------------------------------------------------------
\* timer_delete, by the program or by the function
DeleteCall(who) ==
  /\ pc = "ready" /\ dpc = "none"
  /\ who = "helper" => hpc = "fn"
  /\ by' = who /\ dpc' = "kernel"
  /\ Read
  /\ UNCHANGED <<pc, hpc, asleep, shared, kernel, calls, late>>

\* Mutant: the kernel timer stays.
DeleteKernelNot ==
  /\ dpc = "kernel"
  /\ dpc' = "flag"
  /\ UNCHANGED <<pc, hpc, by, asleep, shared, kernel, calls, late, stray>>

\* SYS_timer_delete; a signal that is queued may stay so.
DeleteKernel ==
  /\ dpc = "kernel"
  /\ ktimer' = "deleted"
  /\ \/ UNCHANGED queue
     \/ queue' = SelectSeq(queue, LAMBDA s : s # "timer")
  /\ dpc' = "flag"
  /\ UNCHANGED <<pc, hpc, by, asleep, shared, fires, calls, late, stray>>

DeleteFlag ==
  /\ dpc = "flag"
  /\ deleting' = TRUE /\ dpc' = "tid"
  /\ UNCHANGED <<pc, hpc, by, asleep, tid, mem, kernel, calls, late, stray>>

\* Mutant: the helper is not woken.
DeleteTidOnly ==
  /\ dpc = "tid"
  /\ Read
  /\ dpc' = "done"
  /\ UNCHANGED <<pc, hpc, by, asleep, shared, kernel, calls, late>>

\* tt->tid is read for tgkill ...
DeleteTid ==
  /\ dpc = "tid"
  /\ Read
  /\ dpc' = "kill"
  /\ UNCHANGED <<pc, hpc, by, asleep, shared, kernel, calls, late>>

\* ... which fails if the helper is gone.
DeleteKill ==
  /\ dpc = "kill"
  /\ queue' = IF hpc = "gone" THEN queue ELSE Append(queue, "tkill")
  /\ dpc' = "done"
  /\ UNCHANGED <<pc, hpc, by, asleep, shared, ktimer, fires, calls, late, stray>>
-----------------------------------------------------------------------------
Library == \/ AwaitTid \/ KernelTimer \/ HelperTid \/ HelperWait \/ HelperCheck \/ HelperCall
           \/ DeleteKernel \/ DeleteFlag \/ DeleteTid \/ DeleteKill
Next == \/ Library \/ CreateCall \/ Settime \/ Fire \/ FnReturns
        \/ \E who \in {"program", "helper"} : DeleteCall(who)

Spec == Init /\ [][Next]_vars
\* The threads run, and the notification function returns.
FairSpec == Spec /\ WF_vars(Library) /\ WF_vars(FnReturns)
-----------------------------------------------------------------------------
\* The parts of the state keep to their values; of the timer and of timer_delete one
\* signal each is pending at most.
TypeOK ==
  /\ pc \in {"new", "tid", "kernel", "ready", "failed"}
  /\ hpc \in {"none", "tid", "wait", "expired", "told", "call", "fn", "gone"}
  /\ dpc \in {"none", "kernel", "flag", "tid", "kill", "done"}
  /\ by \in {"none", "create", "program", "helper"}
  /\ mem \in {"none", "live", "freed"} /\ ktimer \in {"none", "disarmed", "armed", "deleted"}
  /\ queue \in Seq({"timer", "tkill"}) /\ Len(queue) <= 2
  /\ fires \in 0..MaxFires /\ calls \in Nat /\ late \in Nat

\* The function is called at most once for each expiration the kernel delivered:
\* the signal that timer_delete sends never passes for one (si_code).
OneCallPerExpiration == calls <= fires

\* The state is freed only after its timer was deleted, or could not be made.
FreedOnlyWhenDeleted == mem = "freed" => deleting /\ ktimer \in {"none", "deleted"}

\* Once the flag is set at most one further call of the function begins, the one the
\* helper had decided on.
OneLateCallAtMost == late <= 1

\* timer_create returns: the store of the helper's id does not slip by its wait.
CreateReturns == pc = "tid" ~> pc \in {"ready", "failed"}

\* A deleted timer's helper ends and frees the state, however the deletion and the
\* last expirations interleave; so does the helper of a timer that could not be made.
HelperEnds == (dpc # "none" \/ pc = "failed") /\ mem = "live" ~> mem = "freed"

\* "wake the helper; it frees its state and exits": timer_delete does not read the
\* state once it is freed.
NoReadAfterFree == ~stray
=============================================================================
