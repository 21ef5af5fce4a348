------------------------------- MODULE Spawn --------------------------------
(***************************************************************************)
(* Starting programs: spawn.c, popen.c and system and execvpe of           *)
(* process.c.  A process has a table of descriptors, each naming a file or *)
(* an end of a pipe and saying whether exec closes it, the dispositions of *)
(* its signals, a mask and a directory.  One thread of the program makes   *)
(* the calls; another may fork at any time, and that copy of the program   *)
(* holds copies of every descriptor until it runs a program or ends.       *)
(***************************************************************************)
EXTENDS Integers, Sequences, FiniteSets, SequencesExt

CONSTANTS
    MaxFd,       \* descriptors a process may have: 0..MaxFd - 1
    Tables,      \* the program's descriptors at the start: fd -> [f, cx]
    Actions,     \* file actions: [type, fd, newfd, ok]
    Jobs,        \* [flags, attr, tries, search]: attributes asked for, the error the first of them that
                 \* fails gives ("" if none does), and what execve says of the file in each directory of PATH
    Lists,       \* results of execve in each directory of PATH, for execvpe
    Modes,       \* popen's modes: [c |-> "r" or "w", e |-> BOOLEAN]
    Directories, \* files that are directories
    MaxProcs,    \* bound on the processes the program starts
    MaxCalls     \* bound on its calls

VARIABLES procs,   \* the processes; 0 is the program
          streams, \* streams that popen returned: [fd, pid, end], end the pipe's end they hold
          fa,      \* the posix_spawn_file_actions_t of the program
          k,       \* the thread's call
          c,       \* the child that posix_spawn is setting up
          last,    \* the call that just returned
          strayed, \* a handler of the program ran in a child of posix_spawn
          calls
vars == <<procs, streams, fa, k, c, last, strayed, calls>>

Signals == {"INT", "QUIT"}
AllSignals == Signals \cup {"CHLD"}
File(n) == <<"file", n>>
R(n) == <<"r", n>>
W(n) == <<"w", n>>
Nothing == [none |-> TRUE]

-----------------------------------------------------------------------------
(* The kernel's part: descriptors, processes, exec *)

Free(t) == (0..(MaxFd - 1)) \ DOMAIN t
Lowest(S) == CHOOSE d \in S : \A e \in S : d <= e
Put(t, d, f, cx) == [x \in DOMAIN t \cup {d} |-> IF x = d THEN [f |-> f, cx |-> cx] ELSE t[x]]
Drop(t, d) == [x \in DOMAIN t \ {d} |-> t[x]]
Kept(t) == [x \in {d \in DOMAIN t : ~t[d].cx} |-> t[x]]
Holds(p, f) == \E d \in DOMAIN procs[p].fds : procs[p].fds[d].f = f
Unused == Lowest({n \in 1..(2 * MaxFd) : \A p \in DOMAIN procs : ~Holds(p, R(n)) /\ ~Holds(p, W(n))})
Room == {p \in DOMAIN procs : procs[p].st = "none"}
NoProc == [st |-> "none", fds |-> <<>>, disp |-> [s \in Signals |-> "dfl"], mask |-> {}, cwd |-> 0, kind |-> "", born |-> Nothing, status |-> "", plan |-> Nothing]
\* A copy of the program, which is to do plan
Copy(kind, plan) == [procs[0] EXCEPT !.st = "setup", !.kind = kind, !.plan = plan]
Ended(p, status) == [procs[p] EXCEPT !.st = "zombie", !.fds = <<>>, !.status = status]
\* The process after a successful execve: handlers become defaults
Execd(p, prog) ==
    LET q == [p EXCEPT !.st = "run", !.fds = Kept(@), !.disp = [s \in Signals |-> IF @[s] = "handler" THEN "dfl" ELSE @[s]]]
    IN [q EXCEPT !.born = [fds |-> q.fds, disp |-> q.disp, mask |-> q.mask, cwd |-> q.cwd, prog |-> prog]]
\* pipe2(O_CLOEXEC) in the program: [t, r, w]
pipe2 == LET t == procs[0].fds
             r == Lowest(Free(t))
             u == Put(t, r, R(Unused), TRUE)
             w == Lowest(Free(u))
         IN [t |-> Put(u, w, W(Unused), TRUE), r |-> r, w |-> w]
PipeFits == Cardinality(Free(procs[0].fds)) >= 2

Idle == [pc |-> "idle"]
Init == /\ \E t \in Tables : procs = [p \in 0..MaxProcs |-> IF p > 0 THEN NoProc
                                       ELSE [NoProc EXCEPT !.st = "run", !.fds = t, !.kind = "self",
                                                           !.disp = [s \in Signals |-> IF s = "INT" THEN "handler" ELSE "ign"]]]
        /\ streams = {} /\ fa = <<>> /\ k = Idle /\ c = Nothing /\ last = Nothing /\ strayed = FALSE /\ calls = 0

Begins == k = Idle /\ calls < MaxCalls /\ calls' = calls + 1
Plain == Begins /\ fa = <<>>
Returns(r) == k' = Idle /\ last' = r

-----------------------------------------------------------------------------
(* posix_spawn *)

\* posix_spawn_file_actions_add*: a bad number, or no memory, leaves the list alone
AddAction(a) ==
    /\ Begins /\ last' = Nothing
    /\ a.fd >= 0 /\ a.newfd >= 0
    /\ fa' = Append(fa, a)
    /\ UNCHANGED <<procs, streams, k, c, strayed>>

spawn(j) ==
    /\ Begins /\ UNCHANGED <<streams, c, strayed>>
    /\ IF ~PipeFits THEN fa' = <<>> /\ Returns([op |-> "spawn", err |-> "EMFILE", pid |-> 0, born |-> Nothing, job |-> j, fa |-> fa, was |-> procs[0]]) /\ UNCHANGED procs
       ELSE /\ k' = [pc |-> "clone", job |-> j, r |-> pipe2.r, w |-> pipe2.w, n |-> Unused, msg |-> "", pid |-> 0, err |-> "", was |-> procs[0]]
            /\ procs' = [procs EXCEPT ![0].fds = pipe2.t] /\ last' = Nothing /\ UNCHANGED fa
Clone ==
    /\ k.pc = "clone" /\ UNCHANGED <<streams, fa, last, strayed, calls>>
    /\ \/ k' = [k EXCEPT !.pc = "close", !.err = "EAGAIN"] /\ UNCHANGED c
          /\ procs' = [procs EXCEPT ![0].fds = Drop(@, k.w), ![0].mask = AllSignals]
       \/ /\ Room # {} /\ k' = [k EXCEPT !.pc = "vfork", !.pid = Lowest(Room)]
          /\ procs' = [procs EXCEPT ![0].mask = AllSignals, ![Lowest(Room)] = [Copy("spawn", Nothing) EXCEPT !.mask = AllSignals]]
          /\ c' = [at |-> "reset", i |-> 1, pipe |-> k.w]

\* The child writes the error to the pipe, whatever number it has by now, and exits
fail(err) == /\ k' = IF c.pipe \in DOMAIN procs[k.pid].fds /\ procs[k.pid].fds[c.pipe].f = W(k.n) THEN [k EXCEPT !.msg = err] ELSE k
             /\ procs' = [procs EXCEPT ![k.pid] = Ended(k.pid, "127")] /\ c' = Nothing

\* Mutant: the error pipe stays where it is.
FileActionStays(t, pipe, cwd, a) ==
    LET target == IF a.type = "dup2" THEN a.newfd ELSE a.fd
        moved == FALSE
        u == IF moved THEN Put(t, Lowest(Free(t)), t[pipe].f, TRUE) ELSE t
        to == IF moved THEN Lowest(Free(t)) ELSE pipe
        ok(v, dir) == [err |-> "", t |-> v, pipe |-> to, cwd |-> dir]
        no(e) == [err |-> e, t |-> u, pipe |-> to, cwd |-> cwd]
    IN CASE moved /\ Free(t) = {} -> [err |-> "EMFILE", t |-> t, pipe |-> pipe, cwd |-> cwd]
         [] a.type = "close" -> ok(Drop(u, a.fd), cwd)
         [] a.type = "dup2" -> IF a.fd \notin DOMAIN u \/ a.newfd >= MaxFd THEN no("EBADF") ELSE ok(Put(u, a.newfd, u[a.fd].f, FALSE), cwd)
         [] a.type = "open" -> IF ~a.ok THEN no("ENOENT") ELSE IF Free(u) = {} THEN no("EMFILE")
                               ELSE IF a.fd >= MaxFd THEN no("EBADF") ELSE ok(Put(u, a.fd, File(a.newfd), FALSE), cwd)
         [] a.type = "chdir" -> IF a.ok THEN ok(u, a.newfd) ELSE no("ENOENT")
         [] OTHER -> IF a.fd \notin DOMAIN u THEN no("EBADF")
                     ELSE IF u[a.fd].f[2] \in Directories /\ u[a.fd].f[1] = "file" THEN ok(u, u[a.fd].f[2]) ELSE no("ENOTDIR")
\* One file action on a table whose descriptor pipe is the error pipe
FileAction(t, pipe, cwd, a) ==
    LET target == IF a.type = "dup2" THEN a.newfd ELSE a.fd
        moved == target = pipe /\ a.type # "chdir"
        u == IF moved THEN Put(t, Lowest(Free(t)), t[pipe].f, TRUE) ELSE t
        to == IF moved THEN Lowest(Free(t)) ELSE pipe
        ok(v, dir) == [err |-> "", t |-> v, pipe |-> to, cwd |-> dir]
        no(e) == [err |-> e, t |-> u, pipe |-> to, cwd |-> cwd]
    IN CASE moved /\ Free(t) = {} -> [err |-> "EMFILE", t |-> t, pipe |-> pipe, cwd |-> cwd]
         [] a.type = "close" -> ok(Drop(u, a.fd), cwd)
         [] a.type = "dup2" -> IF a.fd \notin DOMAIN u \/ a.newfd >= MaxFd THEN no("EBADF") ELSE ok(Put(u, a.newfd, u[a.fd].f, FALSE), cwd)
         [] a.type = "open" -> IF ~a.ok THEN no("ENOENT") ELSE IF Free(u) = {} THEN no("EMFILE")
                               ELSE IF a.fd >= MaxFd THEN no("EBADF") ELSE ok(Put(u, a.fd, File(a.newfd), FALSE), cwd)
         [] a.type = "chdir" -> IF a.ok THEN ok(u, a.newfd) ELSE no("ENOENT")
         [] OTHER -> IF a.fd \notin DOMAIN u THEN no("EBADF")
                     ELSE IF u[a.fd].f[2] \in Directories /\ u[a.fd].f[1] = "file" THEN ok(u, u[a.fd].f[2]) ELSE no("ENOTDIR")
\* What execve in each directory of PATH comes to: [err, at], at the directory whose file runs
Search(tries) ==
    LET final == {d \in DOMAIN tries : tries[d] \notin {"EACCES", "ENOENT", "ENOTDIR", "toolong"}}
        tried == {d \in DOMAIN tries : tries[d] # "toolong"}
    IN IF final # {} THEN LET d == Lowest(final) IN [err |-> IF tries[d] = "ok" THEN "" ELSE tries[d], at |-> d]
       ELSE [err |-> IF "EACCES" \in ToSet(tries) THEN "EACCES" ELSE IF tried = {} THEN "ENOENT"
                     ELSE tries[CHOOSE d \in tried : \A e \in tried : d >= e], at |-> 0]
child ==
    LET p == procs[k.pid]
        step(q, e) == procs' = [procs EXCEPT ![k.pid] = q] /\ c' = e /\ UNCHANGED k
        done == FileAction(p.fds, c.pipe, p.cwd, fa[c.i])
        found == IF k.job.search THEN Search(k.job.tries) ELSE [err |-> IF k.job.tries[1] = "ok" THEN "" ELSE k.job.tries[1], at |-> 1]
    IN /\ c # Nothing /\ UNCHANGED <<streams, fa, last, strayed, calls>>
       /\ \/ /\ c.at = "reset"
             /\ step([p EXCEPT !.disp = [s \in Signals |-> IF s \in k.job.flags \/ @[s] # "ign" THEN "dfl" ELSE "ign"]],
                     [c EXCEPT !.at = "attr"])
          \/ c.at = "attr" /\ IF k.job.attr # "" THEN fail(k.job.attr) ELSE step(p, [c EXCEPT !.at = "actions"])
          \/ /\ c.at = "actions" /\ c.i <= Len(fa)
             /\ IF done.err # "" THEN fail(done.err)
                ELSE step([p EXCEPT !.fds = done.t, !.cwd = done.cwd], [c EXCEPT !.i = @ + 1, !.pipe = done.pipe])
          \/ /\ c.at = "actions" /\ c.i > Len(fa)
             /\ step([p EXCEPT !.mask = IF "mask" \in k.job.flags THEN {"INT"} ELSE k.was.mask], [c EXCEPT !.at = "exec"])
          \/ c.at = "exec" /\ IF found.err # "" THEN fail(found.err) ELSE step(Execd(p, found.at), Nothing)
\* Mutant: the parent keeps the end it does not read.
ResumeHolds == /\ k.pc = "vfork" /\ c = Nothing /\ k' = [k EXCEPT !.pc = "read"]
          /\ procs' = procs /\ UNCHANGED <<streams, fa, c, last, strayed, calls>>
\* The child is out of the way: the parent goes on, and keeps only the end it reads
Resume == /\ k.pc = "vfork" /\ c = Nothing /\ k' = [k EXCEPT !.pc = "read"]
          /\ procs' = [procs EXCEPT ![0].fds = Drop(@, k.w)] /\ UNCHANGED <<streams, fa, c, last, strayed, calls>>
ReadError == /\ k.pc = "read" /\ UNCHANGED <<procs, streams, fa, c, last, strayed, calls>>
             /\ \/ k.msg # "" /\ k' = [k EXCEPT !.pc = "reap", !.err = k.msg]
                \/ k.msg = "" /\ (\A p \in DOMAIN procs : ~Holds(p, W(k.n))) /\ k' = [k EXCEPT !.pc = "close"]
Reap == /\ k.pc = "reap" /\ procs[k.pid].st = "zombie" /\ k' = [k EXCEPT !.pc = "close"]
        /\ procs' = [procs EXCEPT ![k.pid] = NoProc] /\ UNCHANGED <<streams, fa, c, last, strayed, calls>>
\* The caller gets the error or the process, and destroys the list of actions
Close == /\ k.pc = "close" /\ UNCHANGED <<streams, c, strayed, calls>> /\ fa' = <<>>
         /\ procs' = [procs EXCEPT ![0].fds = Drop(@, k.r), ![0].mask = k.was.mask, ![k.pid].born = Nothing]
         /\ Returns([op |-> "spawn", err |-> k.err, born |-> procs[k.pid].born, pid |-> IF k.err = "" THEN k.pid ELSE 0, job |-> k.job, fa |-> fa, was |-> k.was])

-----------------------------------------------------------------------------
(* popen, pclose, system and execvpe *)

popen(m) ==
    LET mine == IF m.c = "r" THEN pipe2.r ELSE pipe2.w
        theirs == IF m.c = "r" THEN pipe2.w ELSE pipe2.r
    IN /\ Plain /\ UNCHANGED <<streams, fa, c, strayed>>
       /\ \/ Returns([op |-> "popen", err |-> "no"]) /\ UNCHANGED procs      \* no pipe, or no process
          \/ /\ PipeFits /\ Room # {} /\ last' = Nothing
             /\ k' = [pc |-> "popen", mode |-> m, pid |-> Lowest(Room), mine |-> mine, theirs |-> theirs, end |-> pipe2.t[mine].f, was |-> procs[0]]
             /\ procs' = [procs EXCEPT ![0].fds = pipe2.t, ![Lowest(Room)] = [Copy("popen", [target |-> IF m.c = "r" THEN 1 ELSE 0, theirs |-> theirs]) EXCEPT !.fds = pipe2.t]]
\* The child of popen puts its end in place and runs the shell
PopenChild(p) ==
    LET t == procs[p].fds
        end == t[procs[p].plan.theirs].f
    IN /\ procs[p].kind = "popen" /\ procs[p].st = "setup" /\ UNCHANGED <<streams, fa, c, last, strayed, calls, k>>
       /\ \/ procs' = [procs EXCEPT ![p] = Execd([@ EXCEPT !.fds = Put(t, procs[p].plan.target, end, FALSE)], 1)]
          \/ procs' = [procs EXCEPT ![p] = Ended(p, "127")]
\* Mutant: the parent keeps the end of the child.
PopenParentHolds ==
    LET t == procs[0].fds
        u == IF k.mode.e THEN t ELSE Put(t, k.mine, k.end, FALSE)
    IN /\ k.pc = "popen" /\ UNCHANGED <<fa, c, strayed, calls>>
       /\ \/ /\ procs' = [procs EXCEPT ![0].fds = u] /\ streams' = streams \cup {[fd |-> k.mine, pid |-> k.pid, end |-> k.end]}
             /\ Returns([op |-> "popen", err |-> "", pid |-> k.pid, mode |-> k.mode])
          \/ /\ procs' = [procs EXCEPT ![0].fds = Drop(u, k.mine)] /\ UNCHANGED <<streams, last>>   \* no memory for the stream
             /\ k' = [pc |-> "wait", pid |-> k.pid, op |-> "popen"]
PopenParent ==
    LET t == Drop(procs[0].fds, k.theirs)
        u == IF k.mode.e THEN t ELSE Put(t, k.mine, k.end, FALSE)
    IN /\ k.pc = "popen" /\ UNCHANGED <<fa, c, strayed, calls>>
       /\ \/ /\ procs' = [procs EXCEPT ![0].fds = u] /\ streams' = streams \cup {[fd |-> k.mine, pid |-> k.pid, end |-> k.end]}
             /\ Returns([op |-> "popen", err |-> "", pid |-> k.pid, mode |-> k.mode])
          \/ /\ procs' = [procs EXCEPT ![0].fds = Drop(u, k.mine)] /\ UNCHANGED <<streams, last>>   \* no memory for the stream
             /\ k' = [pc |-> "wait", pid |-> k.pid, op |-> "popen"]
pclose(s) == /\ Plain /\ s \in streams /\ last' = Nothing /\ UNCHANGED <<fa, c, strayed>>
             /\ procs' = [procs EXCEPT ![0].fds = Drop(@, s.fd)] /\ streams' = streams \ {s}
             /\ k' = [pc |-> "wait", pid |-> s.pid, op |-> "pclose"]
Waited == /\ k.pc = "wait" /\ procs[k.pid].st = "zombie" /\ UNCHANGED <<streams, fa, c, strayed, calls>>
          /\ procs' = [procs EXCEPT ![k.pid] = NoProc]
          /\ Returns([op |-> k.op, err |-> "", status |-> procs[k.pid].status])

Ignore(p) == [p EXCEPT !.disp = [s \in Signals |-> "ign"], !.mask = @ \cup {"CHLD"}]
Restore(p, was) == [p EXCEPT !.disp = was.disp, !.mask = was.mask]
system ==
    /\ Plain /\ UNCHANGED <<streams, fa, c, strayed>>
    /\ \/ Returns([op |-> "system", status |-> "-1", was |-> procs[0]]) /\ UNCHANGED procs                   \* no process
       \/ /\ Room # {} /\ last' = Nothing
          /\ k' = [pc |-> "system", pid |-> Lowest(Room), was |-> procs[0]]
          /\ procs' = [procs EXCEPT ![0] = Ignore(@), ![Lowest(Room)] = Ignore(Copy("system", procs[0]))]
\* Mutant: the command starts with the signals of system ignored.
SystemChildIgnores(p) == /\ procs[p].kind = "system" /\ procs[p].st = "setup" /\ UNCHANGED <<streams, fa, k, c, last, strayed, calls>>
                  /\ \/ procs' = [procs EXCEPT ![p] = Execd(@, 1)]
                     \/ procs' = [procs EXCEPT ![p] = Ended(p, "127")]
SystemChild(p) == /\ procs[p].kind = "system" /\ procs[p].st = "setup" /\ UNCHANGED <<streams, fa, k, c, last, strayed, calls>>
                  /\ \/ procs' = [procs EXCEPT ![p] = Execd(Restore(@, procs[p].plan), 1)]
                     \/ procs' = [procs EXCEPT ![p] = Ended(p, "127")]
SystemReturns == /\ k.pc = "system" /\ procs[k.pid].st = "zombie" /\ UNCHANGED <<streams, fa, c, strayed, calls>>
                 /\ procs' = [procs EXCEPT ![0] = Restore(@, k.was), ![k.pid] = NoProc]
                 /\ Returns([op |-> "system", status |-> procs[k.pid].status, was |-> k.was])

\* execvpe: the program it becomes ("sh" for a script), or why it did not
execvpe(tries) ==
    LET goOn == {"EACCES", "ENOENT", "ENOTDIR", "ELOOP", "ENAMETOOLONG", "toolong"}
        final == {d \in DOMAIN tries : tries[d] \notin goOn}
        d == Lowest(final)
        tried == SelectSeq(tries, LAMBDA x : x # "toolong")
    IN IF final # {} THEN IF tries[d] = "ok" THEN [at |-> d, via |-> "file"] ELSE IF tries[d] = "ENOEXEC" THEN [at |-> d, via |-> "sh"]
                          ELSE [at |-> 0, via |-> tries[d]]
       ELSE [at |-> 0, via |-> IF "EACCES" \in ToSet(tries) THEN "EACCES" ELSE IF tried = <<>> THEN "unset" ELSE Last(tried)]
Execvpe(tries) == Plain /\ calls = 0 /\ Returns([op |-> "execvpe", tries |-> tries, r |-> execvpe(tries)]) /\ UNCHANGED <<procs, streams, fa, c, strayed>>

-----------------------------------------------------------------------------
(* The other thread, the programs and the signals *)

\* Another thread forks; its child runs a program or ends
OtherFork == /\ Room # {} /\ k.pc \in {"clone", "popen", "system"} /\ (\A p \in DOMAIN procs : procs[p].kind # "other")
             /\ procs' = [procs EXCEPT ![Lowest(Room)] = Copy("other", Nothing)] /\ UNCHANGED <<streams, fa, k, c, last, strayed, calls>>
OtherMoves(p) == /\ procs[p].kind = "other" /\ procs[p].st = "setup" /\ UNCHANGED <<streams, fa, k, c, last, strayed, calls>>
                 /\ procs' \in {[procs EXCEPT ![p] = Execd(@, 1)], [procs EXCEPT ![p] = NoProc]}
\* A program ends; one that popen writes to reads its input to the end first
Ends(p) == /\ procs[p].st = "run" /\ p > 0 /\ UNCHANGED <<streams, fa, k, c, last, strayed, calls>>
           /\ procs[p].kind = "popen" => \A d \in DOMAIN procs[p].fds : procs[p].fds[d].f[1] = "r" =>
                                             \A q \in DOMAIN procs : ~Holds(q, W(procs[p].fds[d].f[2]))
           /\ procs' = [procs EXCEPT ![p] = IF procs[p].kind = "other" THEN NoProc ELSE Ended(p, "done")]
\* SIGINT reaches a process
Interrupt(p) ==
    /\ procs[p].st \in {"setup", "run"} /\ procs[p].kind \in {"spawn", "popen", "system"} /\ "INT" \notin procs[p].mask
    /\ IF procs[p].disp["INT"] = "dfl"
       THEN /\ procs' = [procs EXCEPT ![p] = Ended(p, "killed")] /\ UNCHANGED strayed
            /\ c' = IF k.pc = "vfork" /\ k.pid = p THEN Nothing ELSE c
       ELSE /\ procs[p].disp["INT"] = "handler" /\ strayed' = (strayed \/ procs[p].kind = "spawn") /\ UNCHANGED <<procs, c>>
    /\ UNCHANGED <<streams, fa, k, last, calls>>

Next == \/ \E a \in Actions : AddAction(a)
        \/ \E j \in Jobs : spawn(j)
        \/ Clone \/ child \/ Resume \/ ReadError \/ Reap \/ Close
        \/ \E m \in Modes : popen(m)
        \/ PopenParent \/ \E s \in streams : pclose(s)
        \/ Waited \/ system \/ SystemReturns
        \/ \E l \in Lists : Execvpe(l)
        \/ OtherFork \/ \E p \in DOMAIN procs : PopenChild(p) \/ SystemChild(p) \/ OtherMoves(p) \/ Ends(p) \/ Interrupt(p)
Spec == Init /\ [][Next]_vars

-----------------------------------------------------------------------------
(* What the calls promise *)

\* The file actions on the program's own descriptors, as if nothing else were open: [err, t, cwd]
RECURSIVE Asked(_, _, _)
Asked(as, t, cwd) ==
    IF as = <<>> THEN [err |-> "", t |-> t, cwd |-> cwd]
    ELSE LET a == Head(as)
             next(u, dir) == Asked(Tail(as), u, dir)
             no(e) == [err |-> e, t |-> t, cwd |-> cwd]
         IN CASE a.type = "close" -> next(Drop(t, a.fd), cwd)
              [] a.type = "dup2" -> IF a.fd \in DOMAIN t THEN next(Put(t, a.newfd, t[a.fd].f, FALSE), cwd) ELSE no("EBADF")
              [] a.type = "open" -> IF a.ok THEN next(Put(t, a.fd, File(a.newfd), FALSE), cwd) ELSE no("ENOENT")
              [] a.type = "chdir" -> IF a.ok THEN next(t, a.newfd) ELSE no("ENOENT")
              [] OTHER -> IF a.fd \notin DOMAIN t THEN no("EBADF")
                          ELSE IF t[a.fd].f[2] \in Directories THEN next(t, t[a.fd].f[2]) ELSE no("ENOTDIR")
\* The first directory whose file runs or fails for a reason of its own, EACCES if one was refused
Runs(tries, on) ==
    LET stops == {d \in DOMAIN tries : tries[d] \notin on}
    IN IF stops = {} THEN [d |-> 0, r |-> IF \E d \in DOMAIN tries : tries[d] = "EACCES" THEN "EACCES" ELSE "none"]
       ELSE [d |-> Lowest(stops), r |-> tries[Lowest(stops)]]
\* posix_spawn reports the first thing that failed, the attributes before the file actions before exec,
\* and leaves no process behind; or it reports success and the program runs (or was killed before it
\* could) with the descriptors, the directory, the mask and the dispositions asked for.  The actions
\* never meet the library's own pipe, the caller's descriptors and mask come back, and no handler of
\* the program ever runs in the child.
SpawnTrue ==
    /\ ~strayed
    /\ last # Nothing /\ last.op = "spawn" /\ k = Idle =>
         LET was == last.was
             as == Asked(last.fa, was.fds, was.cwd)
             ran == Runs(last.job.tries, IF last.job.search THEN {"EACCES", "ENOENT", "ENOTDIR", "toolong"} ELSE {})
             tight == Cardinality(Free(was.fds)) < 4
         IN /\ procs[0].mask = was.mask
            /\ \A d \in DOMAIN was.fds : d \in DOMAIN procs[0].fds => procs[0].fds[d] = was.fds[d]
            /\ DOMAIN procs[0].fds = DOMAIN was.fds
            /\ IF last.err # ""
               THEN /\ ~\E q \in DOMAIN procs : procs[q].kind = "spawn" /\ procs[q].st = "setup"
                    /\ \/ last.err \in {"EAGAIN"} \cup (IF tight THEN {"EMFILE"} ELSE {})
                       \/ last.err = last.job.attr
                       \/ last.job.attr = "" /\ as.err # "" /\ last.err = as.err
                       \/ last.job.attr = "" /\ as.err = "" /\ ran.r # "ok" /\ (ran.r # "none" => last.err = ran.r)
               ELSE last.born # Nothing \/ procs[last.pid].status = "killed"
            /\ last.err = "" /\ last.born # Nothing =>
                  /\ last.job.attr = "" /\ as.err = "" /\ ran.r = "ok"
                  /\ last.born = [fds |-> Kept(as.t), cwd |-> as.cwd, prog |-> ran.d,
                                  mask |-> IF "mask" \in last.job.flags THEN {"INT"} ELSE was.mask,
                                  disp |-> [s \in Signals |-> IF was.disp[s] = "ign" /\ s \notin last.job.flags THEN "ign" ELSE "dfl"]]
\* The read that ends posix_spawn waits only for a process that has still to run its program or end: a
\* program that runs never holds the error pipe, and the parent does not wait for itself.
ErrorPipePrivate ==
    k.pc = "read" => /\ ~Holds(0, W(k.n))
                     /\ \A p \in DOMAIN procs : procs[p].st = "run" /\ p # 0 => ~Holds(p, W(k.n)) /\ ~Holds(p, R(k.n))
\* A program of popen has its end of the pipe where it expects it and no second copy; the stream has
\* the other end, which the program does not; and pclose reaps the very process of its stream.
PopenTrue ==
    /\ \A s \in streams :
         LET p == procs[s.pid]
             far == <<IF s.end[1] = "r" THEN "w" ELSE "r", s.end[2]>>
         IN /\ s.fd \in DOMAIN procs[0].fds /\ procs[0].fds[s.fd].f = s.end /\ ~Holds(0, far)
            /\ p.kind = "popen" /\ p.st # "none"
            /\ p.st = "run" => /\ {d \in DOMAIN p.fds : p.fds[d].f = far} = {IF s.end[1] = "r" THEN 1 ELSE 0}
                               /\ ~Holds(s.pid, s.end)
    /\ k.pc = "wait" => procs[k.pid].kind = "popen" /\ procs[k.pid].st # "none"
\* The program's signals are as before when system returns, the command has them as they were, and the
\* result is how the command ended.  execvpe runs the first file in PATH that can run, a script with the
\* shell, and reports a refusal rather than an absence.
CommandTrue ==
    /\ \A p \in DOMAIN procs : procs[p].kind = "system" /\ procs[p].born # Nothing =>
          procs[p].born.mask = k.was.mask /\ \A s \in Signals : procs[p].born.disp[s] = "ign" <=> k.was.disp[s] = "ign"
    /\ last # Nothing /\ last.op = "system" /\ k = Idle => procs[0].disp = last.was.disp /\ procs[0].mask = last.was.mask
    /\ last # Nothing /\ last.op = "execvpe" =>
         LET ran == Runs(last.tries, {"EACCES", "ENOENT", "ENOTDIR", "ELOOP", "ENAMETOOLONG", "toolong"})
         IN CASE ran.r = "ok" -> last.r = [at |-> ran.d, via |-> "file"]
              [] ran.r = "ENOEXEC" -> last.r = [at |-> ran.d, via |-> "sh"]
              [] ran.r = "none" -> last.r.at = 0 /\ last.r.via \notin {"file", "sh", "EACCES"}
              [] OTHER -> last.r = [at |-> 0, via |-> ran.r]
\* "other popen streams are never inherited": no command that popen runs holds an end of the pipe of
\* another stream of the program.
StreamsPrivate ==
    \A s \in streams, p \in DOMAIN procs : procs[p].kind = "popen" /\ procs[p].st = "run" /\ p # s.pid => ~Holds(p, s.end)
=============================================================================
