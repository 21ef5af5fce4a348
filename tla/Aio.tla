--------------------------------- MODULE Aio ---------------------------------
(***************************************************************************)
(* Asynchronous I/O (aio.c).  A request is a record on a list, named here  *)
(* by its sequence number, and a worker thread that performs it; the       *)
(* caller sees it only through the status of its control block.  All the   *)
(* bookkeeping is done under one mutex, and whoever waits sleeps on one    *)
(* condition variable: a step here is what is done in one critical section *)
(* (PthreadMutex and CondVar justify it).  What a request transfers is     *)
(* left out.                                                               *)
(*                                                                         *)
(* pc[c]:   idle; each (the loop of lio_listio); insert, create, remove,   *)
(*          fail (in submit); drop (the end of lio_listio with a group);   *)
(*          wait (lio_listio with LIO_WAIT); suspend; dead                 *)
(* wpc[s]:  none, fsync (waits for earlier requests), io, notify, gnotify, *)
(*          gone                                                           *)
(***************************************************************************)
EXTENDS Integers, FiniteSets, Sequences

CONSTANTS Clients, Cbs,
          FdOf,            \* the descriptor of each control block
          Lists,           \* the lists given to lio_listio
          Cancellable,     \* clients that may be cancelled
          MaxReqs, MaxGroups

VARIABLES err,             \* cb->__err: "none", "inprogress", "done", "failed"
          list, next_seq,  \* the requests on the list; the next sequence number
          req, wpc,        \* the requests ever made and their workers
          left, group,     \* grp->left; "none", "live", "freed"
          notified,        \* notifications of each group
          pc, job,         \* the clients
          sleeping,        \* clients and workers in pthread_cond_wait
          held             \* the mutex was left locked by a cancelled thread

vars == <<err, list, next_seq, req, wpc, left, group, notified, pc, job, sleeping, held>>
reqs == <<list, next_seq, req, wpc>>
groups == <<left, group, notified>>

Seqs == 1..MaxReqs
Groups == 1..MaxGroups
Ops == {"rw", "fsync"}
\* What a client is doing: the control block and request being submitted, the
\* group, the control blocks still to submit, those it will wait for, the call.
NoJob == [cb |-> 0, op |-> "rw", seq |-> 0, grp |-> 0, todo |-> <<>>, wait |-> {}, call |-> "none"]
NoReq == [cb |-> 0, op |-> "rw", grp |-> 0]

Init == /\ err = [cb \in Cbs |-> "none"]
        /\ list = {} /\ next_seq = 1
        /\ req = [s \in Seqs |-> NoReq] /\ wpc = [s \in Seqs |-> "none"]
        /\ left = [g \in Groups |-> 0] /\ group = [g \in Groups |-> "none"]
        /\ notified = [g \in Groups |-> 0]
        /\ pc = [c \in Clients |-> "idle"] /\ job = [c \in Clients |-> NoJob]
        /\ sleeping = {} /\ held = FALSE

Goto(c, where) == pc' = [pc EXCEPT ![c] = where]
\* pthread_cond_broadcast
Broadcast == sleeping' = {}

\* The program submits a control block that it owns: no request of it is in
\* progress and no other call is using it.
Submitting(cb) == \E c \in Clients : \/ job[c].cb = cb
                                     \/ \E k \in 1..Len(job[c].todo) : job[c].todo[k] = cb
Owned(cb) == /\ err[cb] # "inprogress" /\ ~Submitting(cb)
             /\ \A c \in Clients : cb \notin job[c].wait
-----------------------------------------------------------------------------
\* What follows the submission of one control block: the next one of the list,
\* or the end of the call.
AfterSubmit(c, j) ==
  IF j.todo # <<>>
    THEN /\ Goto(c, "each")
         /\ job' = [job EXCEPT ![c] = [j EXCEPT !.cb = 0, !.seq = 0]]
    ELSE IF j.grp # 0
    THEN /\ Goto(c, "drop")
         /\ job' = [job EXCEPT ![c] = [j EXCEPT !.cb = 0, !.seq = 0]]
    ELSE IF j.call = "liowait"
    THEN /\ Goto(c, "wait")
         /\ job' = [job EXCEPT ![c] = [j EXCEPT !.cb = 0, !.seq = 0]]
    ELSE Goto(c, "idle") /\ job' = [job EXCEPT ![c] = NoJob]

\* aio_read, aio_write, aio_fsync: the checks of submit pass and the status becomes
\* EINPROGRESS.  When they do not pass the call returns and nothing changes.
SubmitCall(c, cb, op) ==
  /\ pc[c] = "idle" /\ Owned(cb)
  /\ err' = [err EXCEPT ![cb] = "inprogress"]
  /\ job' = [job EXCEPT ![c] = [NoJob EXCEPT !.cb = cb, !.op = op, !.call = "submit"]]
  /\ Goto(c, "insert")
  /\ UNCHANGED <<reqs, groups, sleeping, held>>

\* Mutant: the group is not held while the requests are submitted.
LioCallUnheld(c, cbs, mode) ==
  /\ pc[c] = "idle"
  /\ \A k \in 1..Len(cbs) : Owned(cbs[k])
  /\ \E g \in Groups \cup {0} :
       /\ IF mode = "lionowait"
            THEN /\ g # 0 /\ group[g] = "none" /\ \A h \in 1..(g - 1) : group[h] # "none"
                 /\ left' = [left EXCEPT ![g] = 0] /\ group' = [group EXCEPT ![g] = "live"]
            ELSE g = 0 /\ UNCHANGED <<left, group>>
       /\ job' = [job EXCEPT ![c] = [NoJob EXCEPT !.grp = g, !.todo = cbs, !.call = mode,
                    !.wait = IF mode = "liowait" THEN {cbs[k] : k \in 1..Len(cbs)} ELSE {}]]
  /\ Goto(c, "each")
  /\ UNCHANGED <<err, reqs, notified, sleeping, held>>

\* lio_listio: with LIO_NOWAIT and a notification a group is made, and held.
LioCall(c, cbs, mode) ==
  /\ pc[c] = "idle"
  /\ \A k \in 1..Len(cbs) : Owned(cbs[k])
  /\ \E g \in Groups \cup {0} :
       /\ IF mode = "lionowait"
            THEN /\ g # 0 /\ group[g] = "none" /\ \A h \in 1..(g - 1) : group[h] # "none"
                 /\ left' = [left EXCEPT ![g] = 1] /\ group' = [group EXCEPT ![g] = "live"]
            ELSE g = 0 /\ UNCHANGED <<left, group>>
       /\ job' = [job EXCEPT ![c] = [NoJob EXCEPT !.grp = g, !.todo = cbs, !.call = mode,
                    !.wait = IF mode = "liowait" THEN {cbs[k] : k \in 1..Len(cbs)} ELSE {}]]
  /\ Goto(c, "each")
  /\ UNCHANGED <<err, reqs, notified, sleeping, held>>

\* The next control block of the list: submitted, or refused by the checks.
LioEach(c) ==
  LET cb == Head(job[c].todo) j == [job[c] EXCEPT !.todo = Tail(@)] IN
  /\ pc[c] = "each"
  /\ \/ /\ err' = [err EXCEPT ![cb] = "inprogress"]
        /\ job' = [job EXCEPT ![c] = [j EXCEPT !.cb = cb]]
        /\ Goto(c, "insert")
     \/ /\ err' = [err EXCEPT ![cb] = "failed"]
        /\ AfterSubmit(c, j)
  /\ UNCHANGED <<reqs, groups, sleeping, held>>

\* Mutant: the request is not counted in its group.
InsertUncounted(c) ==
  /\ pc[c] = "insert" /\ ~held /\ next_seq <= MaxReqs
  /\ req' = [req EXCEPT ![next_seq] = [cb |-> job[c].cb, op |-> job[c].op, grp |-> job[c].grp]]
  /\ list' = list \cup {next_seq} /\ next_seq' = next_seq + 1
  /\ job' = [job EXCEPT ![c].seq = next_seq]
  /\ Goto(c, "create")
  /\ UNCHANGED <<err, wpc, groups, sleeping, held>>

\* The request goes on the list, with the next sequence number.
Insert(c) ==
  LET g == job[c].grp IN
  /\ pc[c] = "insert" /\ ~held /\ next_seq <= MaxReqs
  /\ req' = [req EXCEPT ![next_seq] = [cb |-> job[c].cb, op |-> job[c].op, grp |-> g]]
  /\ list' = list \cup {next_seq} /\ next_seq' = next_seq + 1
  /\ left' = IF g = 0 THEN left ELSE [left EXCEPT ![g] = @ + 1]
  /\ job' = [job EXCEPT ![c].seq = next_seq]
  /\ Goto(c, "create")
  /\ UNCHANGED <<err, wpc, group, notified, sleeping, held>>

\* pthread_create succeeds: the worker is on its way.
Create(c) ==
  LET s == job[c].seq IN
  /\ pc[c] = "create"
  /\ wpc' = [wpc EXCEPT ![s] = IF req[s].op = "fsync" THEN "fsync" ELSE "io"]
  /\ AfterSubmit(c, job[c])
  /\ UNCHANGED <<err, list, next_seq, req, groups, sleeping, held>>

\* pthread_create fails: the request is withdrawn, and then its status is set.
CreateFails(c) ==
  /\ pc[c] = "create" /\ Goto(c, "remove")
  /\ UNCHANGED <<err, reqs, groups, job, sleeping, held>>
\* Mutant: the fsyncs that wait for the withdrawn request are not told.
RemoveQuiet(c) ==
  LET g == job[c].grp IN
  /\ pc[c] = "remove" /\ ~held
  /\ list' = list \ {job[c].seq}
  /\ left' = IF g = 0 THEN left ELSE [left EXCEPT ![g] = @ - 1]
  /\ Goto(c, "fail")
  /\ UNCHANGED <<err, next_seq, req, wpc, group, notified, job, sleeping, held>>
Remove(c) ==
  LET g == job[c].grp IN
  /\ pc[c] = "remove" /\ ~held
  /\ list' = list \ {job[c].seq}
  /\ left' = IF g = 0 THEN left ELSE [left EXCEPT ![g] = @ - 1]
  /\ Broadcast
  /\ Goto(c, "fail")
  /\ UNCHANGED <<err, next_seq, req, wpc, group, notified, job, held>>
Fail(c) ==
  /\ pc[c] = "fail"
  /\ err' = [err EXCEPT ![job[c].cb] = "failed"]
  /\ AfterSubmit(c, job[c])
  /\ UNCHANGED <<reqs, groups, sleeping, held>>

\* The end of lio_listio with LIO_NOWAIT: the hold on the group is dropped.
LioDrop(c) ==
  LET g == job[c].grp IN
  /\ pc[c] = "drop" /\ ~held
  /\ left' = [left EXCEPT ![g] = @ - 1]
  /\ IF left[g] = 1
       THEN notified' = [notified EXCEPT ![g] = @ + 1] /\ group' = [group EXCEPT ![g] = "freed"]
       ELSE UNCHANGED <<notified, group>>
  /\ Goto(c, "idle") /\ job' = [job EXCEPT ![c] = NoJob]
  /\ UNCHANGED <<err, reqs, sleeping, held>>
-----------------------------------------------------------------------------
\* earlier_on_fd
earlier_on_fd(s) == \E p \in list : p < s /\ FdOf[req[p].cb] = FdOf[req[s].cb]

\* Mutant: an fsync looks only at the requests of its own control block.
FsyncCheckOwn(s) ==
  /\ wpc[s] = "fsync" /\ s \notin sleeping /\ ~held
  /\ IF \E p \in list : p < s /\ req[p].cb = req[s].cb
       THEN sleeping' = sleeping \cup {s} /\ UNCHANGED wpc
       ELSE wpc' = [wpc EXCEPT ![s] = "io"] /\ UNCHANGED sleeping
  /\ UNCHANGED <<err, list, next_seq, req, groups, pc, job, held>>
FsyncCheck(s) ==
  /\ wpc[s] = "fsync" /\ s \notin sleeping /\ ~held
  /\ IF earlier_on_fd(s)
       THEN sleeping' = sleeping \cup {s} /\ UNCHANGED wpc
       ELSE wpc' = [wpc EXCEPT ![s] = "io"] /\ UNCHANGED sleeping
  /\ UNCHANGED <<err, list, next_seq, req, groups, pc, job, held>>

\* The worker has done its I/O: the status, the list and the group.
Finish(s) ==
  LET g == req[s].grp IN
  /\ wpc[s] = "io" /\ ~held
  /\ err' = [err EXCEPT ![req[s].cb] = "done"]
  /\ list' = list \ {s}
  /\ left' = IF g = 0 THEN left ELSE [left EXCEPT ![g] = @ - 1]
  /\ wpc' = [wpc EXCEPT ![s] = IF g # 0 /\ left[g] = 1 THEN "gnotify" ELSE "notify"]
  /\ Broadcast
  /\ UNCHANGED <<next_seq, req, group, notified, pc, job, held>>

\* Mutant: the status is stored once more, after the notification.
NotifyStores(s) ==
  LET g == req[s].grp IN
  /\ wpc[s] \in {"notify", "gnotify"}
  /\ wpc' = [wpc EXCEPT ![s] = "gone"]
  /\ err' = [err EXCEPT ![req[s].cb] = "done"]
  /\ IF wpc[s] = "gnotify"
       THEN notified' = [notified EXCEPT ![g] = @ + 1] /\ group' = [group EXCEPT ![g] = "freed"]
       ELSE UNCHANGED <<notified, group>>
  /\ UNCHANGED <<list, next_seq, req, left, pc, job, sleeping, held>>

\* notify, for the request and for the group if it was the last, then free.
Notify(s) ==
  LET g == req[s].grp IN
  /\ wpc[s] \in {"notify", "gnotify"}
  /\ wpc' = [wpc EXCEPT ![s] = "gone"]
  /\ IF wpc[s] = "gnotify"
       THEN notified' = [notified EXCEPT ![g] = @ + 1] /\ group' = [group EXCEPT ![g] = "freed"]
       ELSE UNCHANGED <<notified, group>>
  /\ UNCHANGED <<err, list, next_seq, req, left, pc, job, sleeping, held>>
-----------------------------------------------------------------------------
\* aio_suspend, on control blocks whose submission has returned.
SuspendCall(c, cbs) ==
  /\ pc[c] = "idle"
  /\ \A cb \in cbs : err[cb] # "none" /\ ~Submitting(cb)
  /\ job' = [job EXCEPT ![c] = [NoJob EXCEPT !.wait = cbs, !.call = "suspend"]]
  /\ Goto(c, "suspend")
  /\ UNCHANGED <<err, reqs, groups, sleeping, held>>

any_done(cbs) == \E cb \in cbs : err[cb] # "inprogress"
Return(c) == Goto(c, "idle") /\ job' = [job EXCEPT ![c] = NoJob] /\ UNCHANGED sleeping
Sleep(c) == sleeping' = sleeping \cup {c} /\ UNCHANGED <<pc, job>>

SuspendCheck(c) ==
  /\ pc[c] = "suspend" /\ c \notin sleeping /\ ~held
  /\ IF any_done(job[c].wait) THEN Return(c) ELSE Sleep(c)
  /\ UNCHANGED <<err, reqs, groups, held>>

\* The timeout: the call returns whether or not a request is done.
SuspendTimeout(c) ==
  /\ pc[c] = "suspend" /\ c \in sleeping /\ ~held
  /\ sleeping' = sleeping \ {c}
  /\ Goto(c, "idle") /\ job' = [job EXCEPT ![c] = NoJob]
  /\ UNCHANGED <<err, reqs, groups, held>>

\* A cancelled thread leaves pthread_cond_wait with the mutex locked, and nothing
\* in aio_suspend or lio_listio unlocks it.
CancelledInWait(c) ==
  /\ c \in Cancellable /\ c \in sleeping /\ ~held
  /\ sleeping' = sleeping \ {c}
  /\ held' = TRUE
  /\ Goto(c, "dead") /\ job' = [job EXCEPT ![c] = NoJob]
  /\ UNCHANGED <<err, reqs, groups>>

\* lio_listio with LIO_WAIT
LioWait(c) ==
  /\ pc[c] = "wait" /\ c \notin sleeping /\ ~held
  /\ IF \A cb \in job[c].wait : err[cb] # "inprogress" THEN Return(c) ELSE Sleep(c)
  /\ UNCHANGED <<err, reqs, groups, held>>

\* pthread_cond_wait may return without a broadcast.
Spurious(w) ==
  /\ w \in sleeping /\ sleeping' = sleeping \ {w}
  /\ UNCHANGED <<err, reqs, groups, pc, job, held>>

\* Mutant: an fsync on the list does not count.
AllDoneButFsync(fd) == \A s \in list : req[s].op = "rw" => FdOf[req[s].cb] # fd
\* aio_cancel(fd, 0) returns AIO_ALLDONE.
AllDone(fd) == \A s \in list : FdOf[req[s].cb] # fd
-----------------------------------------------------------------------------
Client(c) == \/ LioEach(c) \/ Insert(c) \/ Create(c) \/ CreateFails(c) \/ Remove(c) \/ Fail(c)
             \/ LioDrop(c) \/ SuspendCheck(c) \/ LioWait(c)
Worker(s) == FsyncCheck(s) \/ Finish(s) \/ Notify(s)
Call(c) == \/ \E cb \in Cbs, op \in Ops : SubmitCall(c, cb, op)
           \/ \E cbs \in Lists, mode \in {"lionowait", "liowait"} : LioCall(c, cbs, mode)
           \/ \E cbs \in SUBSET Cbs \ {{}} : SuspendCall(c, cbs)
           \/ SuspendTimeout(c) \/ CancelledInWait(c) \/ Spurious(c)

Next == \/ \E c \in Clients : Client(c) \/ Call(c)
        \/ \E s \in Seqs : Worker(s) \/ Spurious(s)

Spec == Init /\ [][Next]_vars
\* Every thread that can run does; the program need not make calls.
FairSpec == /\ Spec
            /\ \A c \in Clients : WF_vars(Client(c))
            /\ \A s \in Seqs : WF_vars(Worker(s))
-----------------------------------------------------------------------------
\* grp->left counts without going below zero, and nothing else leaves its range.
TypeOK ==
  /\ err \in [Cbs -> {"none", "inprogress", "done", "failed"}]
  /\ list \subseteq Seqs /\ next_seq \in 1..(MaxReqs + 1)
  /\ wpc \in [Seqs -> {"none", "fsync", "io", "notify", "gnotify", "gone"}]
  /\ left \in [Groups -> Nat] /\ group \in [Groups -> {"none", "live", "freed"}]
  /\ notified \in [Groups -> Nat]
  /\ pc \in [Clients -> {"idle", "each", "insert", "create", "remove", "fail", "drop",
                         "wait", "suspend", "dead"}]
  /\ sleeping \subseteq Clients \cup Seqs /\ held \in BOOLEAN

\* A group is freed once, after the last of its requests and after the list was
\* submitted: while a request of the group is on the list, or lio_listio still
\* submits, the group is there (worker and lio_listio both decrement grp->left).
GroupLivesWhileUsed ==
  /\ \A s \in list : req[s].grp # 0 => group[req[s].grp] = "live"
  /\ \A c \in Clients : job[c].grp # 0 => group[job[c].grp] = "live"

\* The completion of a list is notified once at most, and only when every request
\* made for it is over.
NotifiedWhenAllDone ==
  \A g \in Groups : /\ notified[g] <= 1
                    /\ notified[g] = 1 => \A s \in Seqs : req[s].grp = g => s \notin list

\* "aio_fsync waits for the requests on the same descriptor that were submitted
\* before it": when its fsync is issued none is on the list.
FsyncAfterEarlier ==
  \A s \in Seqs : wpc[s] = "io" /\ req[s].op = "fsync" => ~earlier_on_fd(s)

\* The worker never touches a control block that is the caller's again: a status
\* changes from EINPROGRESS only, unless a call that submits the block sets it.
CallerOwnsFinished ==
  [][\A cb \in Cbs : err'[cb] # err[cb] /\ err[cb] # "inprogress" =>
       \E c \in Clients : job[c].cb = cb \/ job'[c].cb = cb
                          \/ (job[c].todo # <<>> /\ Head(job[c].todo) = cb)]_vars

\* aio_cancel reports AIO_ALLDONE for a descriptor only when no request on it whose
\* submission has returned is in progress.
AllDoneMeansDone ==
  \A cb \in Cbs : AllDone(FdOf[cb]) /\ err[cb] = "inprogress" =>
                    \E c \in Clients : job[c].cb = cb

\* A request that was given to a worker completes: "they are either running or
\* done" (aio_cancel).  A client that is cancelled in its wait dies with the lock
\* (pthread_cond_wait takes it again first), and then nothing does.
Completes ==
  \A s \in Seqs : wpc[s] \in {"fsync", "io"} ~> wpc[s] \notin {"fsync", "io"} \/ held
=============================================================================
