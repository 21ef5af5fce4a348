------------------------------- MODULE ExitFns -------------------------------
(***************************************************************************)
(* atexit, __cxa_atexit, the handlers of a library that dlclose unloads    *)
(* (__exit_fns_in_range), and exit (runtime.c).  The handlers are kept in  *)
(* blocks of 62; block 1 is exit_head and a full block gets a successor    *)
(* that points back to it.  An entry is not erased when it is popped.      *)
(* exit_lock is held by the two loops except while a handler runs.         *)
(*                                                                         *)
(* pc[t]:  idle; scan, sfn (in __exit_fns_in_range; running a handler);    *)
(*         pop, xfn (in exit; running a handler); fini (the handlers have  *)
(*         run); paused (a second exit)                                    *)
(***************************************************************************)
EXTENDS Integers, FiniteSets

CONSTANTS Threads, None,
          Cap,               \* 62, the handlers of a block
          MaxBlocks, MaxHandlers,
          NestedInLibrary,   \* the library's handlers register further ones of the library
          CloseDuringExit    \* a thread is in dlclose while another calls exit

VARIABLES exit_lock,       \* its holder, or None
          n, fns, older,   \* the blocks: b->n, b->fns, b->next
          cur,             \* exit_cur, 0 if null
          blocks,          \* blocks in existence
          exiting,
          pc, b, i,        \* the scan's position
          fn,              \* fn[t]: the handler t runs
          lib,             \* the library: "loaded", "closing", "unmapped"
          count, ran       \* handlers registered so far; how often each has run

vars == <<exit_lock, n, fns, older, cur, blocks, exiting, pc, b, i, fn, lib, count, ran>>
table == <<n, fns, older, cur, blocks>>

Blocks == 1..MaxBlocks
Ids == 1..MaxHandlers
NoFn == [id |-> 0, inlib |-> FALSE, done |-> TRUE]
Entries == [id : 0..MaxHandlers, inlib : BOOLEAN, done : BOOLEAN]

Init == /\ exit_lock = None
        /\ n = [k \in Blocks |-> 0]
        /\ fns = [k \in Blocks |-> [j \in 1..Cap |-> NoFn]]
        /\ older = [k \in Blocks |-> 0]
        /\ cur = 0 /\ blocks = 1
        /\ exiting = FALSE
        /\ pc = [t \in Threads |-> "idle"]
        /\ b = [t \in Threads |-> 0] /\ i = [t \in Threads |-> 0]
        /\ fn = [t \in Threads |-> 0]
        /\ lib = "loaded"
        /\ count = 0 /\ ran = [h \in Ids |-> 0]

Acquire(t) == exit_lock = None /\ exit_lock' = t
Release == exit_lock' = None

Goto(t, where) == pc' = [pc EXCEPT ![t] = where]

\* A handler of the library is registered by its code: before it is closed, or by
\* one of its handlers that dlclose runs.
MayRegister(t, inlib) ==
  /\ pc[t] \in {"idle", "sfn", "xfn"} /\ count < MaxHandlers /\ exit_lock = None
  /\ inlib => lib = "loaded" \/ (lib = "closing" /\ pc[t] = "sfn" /\ NestedInLibrary)

\* Mutant: a full block is not noticed.
RegisterOverfull(t, inlib) ==
  LET top == IF cur = 0 THEN 1 ELSE cur
  IN /\ MayRegister(t, inlib)
     /\ cur' = top
     /\ n' = [n EXCEPT ![top] = @ + 1]
     /\ count' = count + 1
     /\ UNCHANGED <<exit_lock, fns, older, blocks, exiting, pc, b, i, fn, lib, ran>>

\* add_exit
Register(t, inlib) ==
  LET top == IF cur = 0 THEN 1 ELSE cur
      full == n[top] = Cap
      k == IF full THEN blocks + 1 ELSE top
  IN /\ MayRegister(t, inlib)
     /\ full => blocks < MaxBlocks
     /\ older' = IF full THEN [older EXCEPT ![k] = top] ELSE older
     /\ blocks' = IF full THEN k ELSE blocks
     /\ cur' = k
     /\ n' = [n EXCEPT ![k] = @ + 1]
     /\ fns' = [fns EXCEPT ![k][n[k] + 1] = [id |-> count + 1, inlib |-> inlib, done |-> FALSE]]
     /\ count' = count + 1
     /\ UNCHANGED <<exit_lock, exiting, pc, b, i, fn, lib, ran>>

Run(t, id) == fn' = [fn EXCEPT ![t] = id] /\ ran' = [ran EXCEPT ![id] = @ + 1]
-----------------------------------------------------------------------------
\* dlclose of the library: the scan starts at the newest handler.
CloseCall(t) ==
  /\ pc[t] = "idle" /\ lib = "loaded" /\ (exiting => CloseDuringExit)
  /\ Acquire(t)
  /\ lib' = "closing"
  /\ b' = [b EXCEPT ![t] = cur]
  /\ i' = [i EXCEPT ![t] = IF cur = 0 THEN 0 ELSE n[cur]]
  /\ Goto(t, "scan")
  /\ UNCHANGED <<table, exiting, fn, count, ran>>

Matches(e) == ~e.done /\ e.inlib

\* Mutant: the scan ends with the newest block.
ScanOneBlock(t) ==
  /\ pc[t] = "scan"
  /\ IF b[t] = 0 \/ i[t] = 0
       THEN /\ lib' = "unmapped" /\ Goto(t, "idle") /\ Release
            /\ UNCHANGED i
       ELSE /\ ~Matches(fns[b[t]][i[t]])
            /\ i' = [i EXCEPT ![t] = @ - 1]
            /\ UNCHANGED <<exit_lock, pc, lib>>
  /\ UNCHANGED <<table, exiting, b, fn, count, ran>>

\* The next entry does not match, or the block is done; after the head, the end.
ScanOn(t) ==
  /\ pc[t] = "scan"
  /\ IF b[t] = 0
       THEN /\ lib' = "unmapped" /\ Goto(t, "idle") /\ Release
            /\ UNCHANGED <<b, i>>
       ELSE IF i[t] = 0
       THEN /\ b' = [b EXCEPT ![t] = IF @ = 1 THEN 0 ELSE older[@]]
            /\ i' = [i EXCEPT ![t] = IF b'[t] = 0 THEN 0 ELSE n[b'[t]]]
            /\ UNCHANGED <<exit_lock, pc, lib>>
       ELSE /\ ~Matches(fns[b[t]][i[t]])
            /\ i' = [i EXCEPT ![t] = @ - 1]
            /\ UNCHANGED <<exit_lock, pc, b, lib>>
  /\ UNCHANGED <<table, exiting, fn, count, ran>>

\* Mutant: the entry is not marked.
ScanRunUnmarked(t) ==
  /\ pc[t] = "scan" /\ b[t] # 0 /\ i[t] # 0 /\ Matches(fns[b[t]][i[t]])
  /\ Run(t, fns[b[t]][i[t]].id)
  /\ i' = [i EXCEPT ![t] = @ - 1]
  /\ Goto(t, "sfn") /\ Release
  /\ UNCHANGED <<table, exiting, b, lib, count>>

ScanRun(t) ==
  /\ pc[t] = "scan" /\ b[t] # 0 /\ i[t] # 0 /\ Matches(fns[b[t]][i[t]])
  /\ Run(t, fns[b[t]][i[t]].id)
  /\ fns' = [fns EXCEPT ![b[t]][i[t]].done = TRUE]
  /\ i' = [i EXCEPT ![t] = @ - 1]
  /\ Goto(t, "sfn") /\ Release
  /\ UNCHANGED <<n, older, cur, blocks, exiting, b, lib, count>>
-----------------------------------------------------------------------------
\* exit: the first caller runs the handlers, a second one waits for ever.
ExitCall(t) ==
  /\ pc[t] = "idle"
  /\ CloseDuringExit \/ lib # "closing"
  /\ exiting' = TRUE
  /\ IF exiting THEN Goto(t, "paused") /\ UNCHANGED exit_lock
                ELSE Goto(t, "pop") /\ Acquire(t)
  /\ UNCHANGED <<table, b, i, fn, lib, count, ran>>

\* Mutant: the oldest handler first.
PopOldest(t) ==
  /\ pc[t] = "pop" /\ cur # 0
  /\ IF n[cur] = 0
       THEN cur' = (IF cur = 1 THEN 0 ELSE older[cur]) /\ UNCHANGED <<exit_lock, n, fns, pc, fn, ran>>
       ELSE /\ n' = [n EXCEPT ![cur] = @ - 1]
            /\ fns' = [fns EXCEPT ![cur] = [j \in 1..Cap |-> IF j < Cap THEN @[j + 1] ELSE @[j]]]
            /\ IF fns[cur][1].done THEN UNCHANGED <<exit_lock, pc, fn, ran>>
                                   ELSE Run(t, fns[cur][1].id) /\ Goto(t, "xfn") /\ Release
            /\ UNCHANGED cur
  /\ UNCHANGED <<older, blocks, exiting, b, i, lib, count>>

\* Mutant: the handlers of the blocks before the last are forgotten.
PopLastBlock(t) ==
  /\ pc[t] = "pop" /\ cur # 0
  /\ IF n[cur] = 0
       THEN cur' = 0 /\ UNCHANGED <<exit_lock, n, pc, fn, ran>>
       ELSE /\ n' = [n EXCEPT ![cur] = @ - 1]
            /\ LET e == fns[cur][n[cur]] IN
                 IF e.done THEN UNCHANGED <<exit_lock, pc, fn, ran>>
                           ELSE Run(t, e.id) /\ Goto(t, "xfn") /\ Release
            /\ UNCHANGED cur
  /\ UNCHANGED <<fns, older, blocks, exiting, b, i, lib, count>>

\* run_exit_fns: the newest entry is popped and run unless it has been; a block
\* that is empty gives way to the one before it.
Pop(t) ==
  /\ pc[t] = "pop" /\ cur # 0
  /\ IF n[cur] = 0
       THEN cur' = (IF cur = 1 THEN 0 ELSE older[cur]) /\ UNCHANGED <<exit_lock, n, pc, fn, ran>>
       ELSE /\ n' = [n EXCEPT ![cur] = @ - 1]
            /\ LET e == fns[cur][n[cur]] IN
                 IF e.done THEN UNCHANGED <<exit_lock, pc, fn, ran>>
                           ELSE Run(t, e.id) /\ Goto(t, "xfn") /\ Release
            /\ UNCHANGED cur
  /\ UNCHANGED <<fns, older, blocks, exiting, b, i, lib, count>>

PopEnd(t) ==
  /\ pc[t] = "pop" /\ cur = 0
  /\ Goto(t, "fini") /\ Release
  /\ UNCHANGED <<table, exiting, b, i, fn, lib, count, ran>>

\* The handler returns and exit_lock is taken again.
HandlerReturns(t) ==
  /\ pc[t] \in {"sfn", "xfn"}
  /\ Acquire(t)
  /\ fn' = [fn EXCEPT ![t] = 0]
  /\ Goto(t, IF pc[t] = "sfn" THEN "scan" ELSE "pop")
  /\ UNCHANGED <<table, exiting, b, i, lib, count, ran>>

\* Nothing runs after the last step of exit.
Next == (\A t \in Threads : pc[t] # "fini") /\
        \E t \in Threads : \/ \E inlib \in BOOLEAN : Register(t, inlib)
                           \/ CloseCall(t) \/ ScanOn(t) \/ ScanRun(t)
                           \/ ExitCall(t) \/ Pop(t) \/ PopEnd(t) \/ HandlerReturns(t)

Spec == Init /\ [][Next]_vars
-----------------------------------------------------------------------------
\* The blocks stay within bounds: no block holds more than Cap entries.
TypeOK == /\ exit_lock \in Threads \cup {None}
          /\ n \in [Blocks -> 0..Cap]
          /\ fns \in [Blocks -> [1..Cap -> Entries]]
          /\ older \in [Blocks -> 0..MaxBlocks]
          /\ cur \in 0..MaxBlocks /\ blocks \in Blocks
          /\ exiting \in BOOLEAN
          /\ pc \in [Threads -> {"idle", "scan", "sfn", "pop", "xfn", "fini", "paused"}]
          /\ b \in [Threads -> 0..MaxBlocks] /\ i \in [Threads -> 0..Cap]
          /\ fn \in [Threads -> 0..MaxHandlers]
          /\ lib \in {"loaded", "closing", "unmapped"}
          /\ count \in 0..MaxHandlers /\ ran \in [Ids -> Nat]

\* No handler runs twice: the mark "cxa < 0: already run" and the pop keep dlclose
\* and exit apart.
RunsOnce == \A h \in Ids : ran[h] <= 1

\* When exit has emptied the blocks every handler has run, those registered by
\* handlers and those in blocks added on the way included.
ExitRunsAll == cur = 0 => \A h \in 1..count : ran[h] = 1

\* exit calls the handlers newest first: when it calls one, every handler that
\* was registered later has been called.
NewestFirst ==
  [][\A t \in Threads : pc[t] = "pop" /\ pc'[t] = "xfn" =>
       \A h \in Ids : h > fn'[t] /\ h <= count => ran[h] > 0]_vars

\* dlclose runs the handlers "of a library dlclose is about to unmap": once it is
\* unmapped none is left for exit to call.
UnmappedLibraryHasNoHandlers ==
  lib = "unmapped" =>
    \A k \in Blocks : \A j \in 1..n[k] : ~Matches(fns[k][j])
=============================================================================
