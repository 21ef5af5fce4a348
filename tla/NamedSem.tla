------------------------------ MODULE NamedSem ------------------------------
(***************************************************************************)
(* sem_open, sem_close and sem_unlink of semaphore.c on one name, by       *)
(* threads of several processes.  The file system and the kernel are seen  *)
(* through the calls made: a file lives while it has a name, an open       *)
(* descriptor or a mapping, and after that its inode number is reused.     *)
(*                                                                         *)
(* pc[a]:  idle, open (about to open the name), mktmp, write, link,        *)
(*         untmp (linked, about to unlink the temporary name), map         *)
(*         (map_fd), undo (about to unlink the temporary name and close),  *)
(*         dead                                                            *)
(***************************************************************************)
EXTENDS Integers, FiniteSets

CONSTANTS Procs,       \* processes
          Actors,      \* threads
          ProcOf,      \* the process of a thread
          Inodes,      \* inode numbers of the file system
          None,
          MaxHandles   \* bound of the handles of one process

VARIABLES name,    \* the file the name links to
          inited,  \* inited[i]: an initialised sem_t was written to the file
          tmp,     \* tmp[a]: the file a created under a temporary name
          fd,      \* fd[a]: the file of a's descriptor
          flags,   \* flags[a]: the oflag of the call
          refs,    \* refs[p][i]: the entry of named_list, 0 if there is none
          pc,
          handles  \* handles[p][i]: sem_open calls of p minus its sem_close calls

vars == <<name, inited, tmp, fd, flags, refs, pc, handles>>

\* neither O_CREAT; O_CREAT; O_CREAT | O_EXCL
Flags == {"none", "creat", "excl"}

Alive(i) == \/ name = i
            \/ \E a \in Actors : tmp[a] = i \/ fd[a] = i
            \/ \E p \in Procs : refs[p][i] > 0

Init == /\ name = None
        /\ inited = [i \in Inodes |-> FALSE]
        /\ tmp = [a \in Actors |-> None] /\ fd = [a \in Actors |-> None]
        /\ flags = [a \in Actors |-> "none"]
        /\ refs = [p \in Procs |-> [i \in Inodes |-> 0]]
        /\ pc = [a \in Actors |-> "idle"]
        /\ handles = [p \in Procs |-> [i \in Inodes |-> 0]]

\* The open handles of a process: the k-th to file i.
Handles(p) == {h \in Inodes \X (1..MaxHandles) : h[2] <= handles[p][h[1]]}

Goto(a, where) == pc' = [pc EXCEPT ![a] = where]

\* A call that is over; 0 and None stand for its dead locals.
Return(a) == /\ fd' = [fd EXCEPT ![a] = None]
             /\ flags' = [flags EXCEPT ![a] = "none"]
             /\ Goto(a, "idle")

OpenCall(a, f) ==
  /\ pc[a] = "idle"
  /\ flags' = [flags EXCEPT ![a] = f]
  /\ Goto(a, "open")
  /\ UNCHANGED <<name, inited, tmp, fd, refs, handles>>

\* open of the path: a file that exists is mapped, unless O_EXCL forbids it;
\* ENOENT without O_CREAT fails.
OpenName(a) ==
  /\ pc[a] = "open"
  /\ IF (name # None /\ flags[a] = "excl") \/ (name = None /\ flags[a] = "none")
       THEN Return(a)
       ELSE /\ fd' = [fd EXCEPT ![a] = name]
            /\ Goto(a, IF name = None THEN "mktmp" ELSE "map")
            /\ UNCHANGED flags
  /\ UNCHANGED <<name, inited, tmp, refs, handles>>

MakeTmp(a) ==
  /\ pc[a] = "mktmp"
  /\ \E i \in {j \in Inodes : ~Alive(j)} :
       /\ tmp' = [tmp EXCEPT ![a] = i]
       /\ fd' = [fd EXCEPT ![a] = i]
       /\ inited' = [inited EXCEPT ![i] = FALSE]
  /\ Goto(a, "write")
  /\ UNCHANGED <<name, flags, refs, handles>>

\* open of the temporary name fails.
MakeTmpFails(a) ==
  /\ pc[a] = "mktmp"
  /\ Return(a)
  /\ UNCHANGED <<name, inited, tmp, refs, handles>>

\* Mutant: a short write is not noticed.
WriteUnchecked(a, ok) ==
  /\ pc[a] = "write"
  /\ inited' = [inited EXCEPT ![fd[a]] = ok]
  /\ Goto(a, "link")
  /\ UNCHANGED <<name, tmp, fd, flags, refs, handles>>

Write(a, ok) ==
  /\ pc[a] = "write"
  /\ inited' = [inited EXCEPT ![fd[a]] = ok]
  /\ Goto(a, IF ok THEN "link" ELSE "undo")
  /\ flags' = [flags EXCEPT ![a] = IF ok THEN @ ELSE "excl"]   \* undo fails the call
  /\ UNCHANGED <<name, tmp, fd, refs, handles>>

\* Mutant: the temporary file replaces what the name links to (rename).
LinkReplaces(a) ==
  /\ pc[a] = "link"
  /\ name' = fd[a]
  /\ Goto(a, "untmp")
  /\ UNCHANGED <<inited, tmp, fd, flags, refs, handles>>

Link(a) ==
  /\ pc[a] = "link"
  /\ IF name = None THEN name' = fd[a] /\ Goto(a, "untmp")
                    ELSE Goto(a, "undo") /\ UNCHANGED name
  /\ UNCHANGED <<inited, tmp, fd, flags, refs, handles>>

UnlinkTmp(a) ==
  /\ pc[a] = "untmp"
  /\ tmp' = [tmp EXCEPT ![a] = None]
  /\ Goto(a, "map")
  /\ UNCHANGED <<name, inited, fd, flags, refs, handles>>

\* Mutant: the temporary name is left when the call fails.
UndoKeepsTmp(a) ==
  /\ pc[a] = "undo"
  /\ fd' = [fd EXCEPT ![a] = None]
  /\ IF flags[a] = "excl" THEN flags' = [flags EXCEPT ![a] = "none"] /\ Goto(a, "idle")
                          ELSE Goto(a, "open") /\ UNCHANGED flags
  /\ UNCHANGED <<name, inited, tmp, refs, handles>>

\* The failure path: with O_EXCL the call fails, else the other's file is opened.
Undo(a) ==
  /\ pc[a] = "undo"
  /\ tmp' = [tmp EXCEPT ![a] = None]
  /\ fd' = [fd EXCEPT ![a] = None]
  /\ IF flags[a] = "excl"
       THEN flags' = [flags EXCEPT ![a] = "none"] /\ Goto(a, "idle")
       ELSE Goto(a, "open") /\ UNCHANGED flags
  /\ UNCHANGED <<name, inited, refs, handles>>

\* Mutant: every sem_open counts as the first.
MapFdResets(a) ==
  LET p == ProcOf[a] i == fd[a] IN
  /\ pc[a] = "map" /\ Cardinality(Handles(p)) < MaxHandles
  /\ refs' = [refs EXCEPT ![p][i] = 1]
  /\ handles' = [handles EXCEPT ![p][i] = @ + 1]
  /\ Return(a)
  /\ UNCHANGED <<name, inited, tmp>>

\* map_fd, under named_lock: the entry with this inode, or a new mapping; then
\* the descriptor is closed and the address returned.
MapFd(a) ==
  LET p == ProcOf[a] i == fd[a] IN
  /\ pc[a] = "map" /\ Cardinality(Handles(p)) < MaxHandles
  /\ refs' = [refs EXCEPT ![p][i] = @ + 1]
  /\ handles' = [handles EXCEPT ![p][i] = @ + 1]
  /\ Return(a)
  /\ UNCHANGED <<name, inited, tmp>>

\* malloc or mmap fails.
MapFdFails(a) ==
  /\ pc[a] = "map" /\ refs[ProcOf[a]][fd[a]] = 0
  /\ Return(a)
  /\ UNCHANGED <<name, inited, tmp, refs, handles>>

\* Mutant: the mapping goes with the first handle.
CloseUnmaps(a, i) ==
  /\ pc[a] = "idle" /\ handles[ProcOf[a]][i] > 0
  /\ refs' = [refs EXCEPT ![ProcOf[a]][i] = 0]
  /\ handles' = [handles EXCEPT ![ProcOf[a]][i] = @ - 1]
  /\ UNCHANGED <<name, inited, tmp, fd, flags, pc>>

\* sem_close of a handle the process has: the last one unmaps.
Close(a, i) ==
  /\ pc[a] = "idle" /\ handles[ProcOf[a]][i] > 0
  /\ refs' = [refs EXCEPT ![ProcOf[a]][i] = @ - 1]
  /\ handles' = [handles EXCEPT ![ProcOf[a]][i] = @ - 1]
  /\ UNCHANGED <<name, inited, tmp, fd, flags, pc>>

Unlink(a) ==
  /\ pc[a] = "idle" /\ name # None
  /\ name' = None
  /\ UNCHANGED <<inited, tmp, fd, flags, refs, pc, handles>>

\* A process is killed: descriptors and mappings go, files stay.
Crash(p) ==
  /\ \E a \in Actors : ProcOf[a] = p /\ pc[a] # "dead"
  /\ pc' = [a \in Actors |-> IF ProcOf[a] = p THEN "dead" ELSE pc[a]]
  /\ fd' = [a \in Actors |-> IF ProcOf[a] = p THEN None ELSE fd[a]]
  /\ flags' = [a \in Actors |-> IF ProcOf[a] = p THEN "none" ELSE flags[a]]
  /\ refs' = [refs EXCEPT ![p] = [i \in Inodes |-> 0]]
  /\ handles' = [handles EXCEPT ![p] = [i \in Inodes |-> 0]]
  /\ UNCHANGED <<name, inited, tmp>>

Next == \/ \E a \in Actors : \/ \E f \in Flags : OpenCall(a, f)
                             \/ OpenName(a) \/ MakeTmp(a) \/ MakeTmpFails(a)
                             \/ \E ok \in BOOLEAN : Write(a, ok)
                             \/ Link(a) \/ UnlinkTmp(a) \/ Undo(a)
                             \/ MapFd(a) \/ MapFdFails(a)
                             \/ \E i \in Inodes : Close(a, i)
                             \/ Unlink(a)
        \/ \E p \in Procs : Crash(p)

Spec == Init /\ [][Next]_vars
-----------------------------------------------------------------------------
TypeOK == /\ name \in Inodes \cup {None}
          /\ inited \in [Inodes -> BOOLEAN]
          /\ tmp \in [Actors -> Inodes \cup {None}]
          /\ fd \in [Actors -> Inodes \cup {None}]
          /\ flags \in [Actors -> Flags]
          /\ refs \in [Procs -> [Inodes -> 0..MaxHandles]]
          /\ pc \in [Actors -> {"idle", "open", "mktmp", "write", "link", "untmp",
                                "map", "undo", "dead"}]
          /\ handles \in [Procs -> [Inodes -> 0..MaxHandles]]

\* "nobody sees an uninitialised semaphore" (sem_open): the name only ever links
\* to a file that was written, and so does every mapping, even if the creator is
\* killed between two of its calls.
NobodySeesUninitialised ==
  /\ name # None => inited[name]
  /\ \A p \in Procs, i \in Inodes : refs[p][i] > 0 => inited[i]

\* named_list counts the handles exactly: the mapping a handle points to is there
\* until the last sem_close, and then it is gone.
MappingsMatchHandles == refs = handles

\* No step gives the name to another file while it has one: of the processes that
\* race to create it one wins, and the others find the winner's.
NameNeverStolen == [][name # None => name' \in {name, None}]_vars

\* A call that is over has left no temporary file behind, whichever of its steps
\* failed; only a killed process does.
NoTemporaryLeft == \A a \in Actors : pc[a] = "idle" => tmp[a] = None
=============================================================================
