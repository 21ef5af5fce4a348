----------------------------- MODULE StdioLocks -----------------------------
(***************************************************************************)
(* The locks of stdio (stdio.c): the recursive lock of each stream, and    *)
(* ofl_lock, which guards the list of open streams and is held by          *)
(* fflush(NULL) and by exit while they take the stream locks one by one.   *)
(* The futex lock beneath both is module FutexLock; here it is its holder. *)
(* A standard stream is never on the list and never freed.                 *)
(*                                                                         *)
(* pc[t]:  idle; add (fopen, FILE allocated); remove, free (fclose);       *)
(*         std, each (fflush(NULL)); xlist, xeach (exit); over             *)
(***************************************************************************)
EXTENDS Integers, Sequences

CONSTANTS Threads, None, Files,
          StdSeq,         \* the standard streams, in the order they are flushed
          MaxDepth,       \* deepest flockfile
          MaxOpens

Std == {StdSeq[k] : k \in 1..Len(StdSeq)}
Streams == Std \cup Files

VARIABLES ofl, ofl_lock,     \* the list, head first; the holder of its lock
          owner, lock_count,
          state,             \* "none", "new", "open", "closed" (the descriptor is), "freed"
          data,              \* the stream has unwritten output
          final,             \* exit has flushed the stream
          pc, at,            \* at[t]: the streams t has still to visit, or its stream
          opens

vars == <<ofl, ofl_lock, owner, lock_count, state, data, final, pc, at, opens>>
locks == <<ofl_lock, owner, lock_count>>

Init == /\ ofl = <<>> /\ ofl_lock = None
        /\ owner = [f \in Streams |-> None] /\ lock_count = [f \in Streams |-> 0]
        /\ state = [f \in Streams |-> IF f \in Std THEN "open" ELSE "none"]
        /\ data = [f \in Streams |-> FALSE] /\ final = {}
        /\ pc = [t \in Threads |-> "idle"] /\ at = [t \in Threads |-> <<>>]
        /\ opens = 0

Goto(t, where) == pc' = [pc EXCEPT ![t] = where]
Listed(f) == \E k \in 1..Len(ofl) : ofl[k] = f
\* __flock succeeds for t.
Lockable(t, f) == owner[f] \in {None, t}
\* The streams t has locked with flockfile.  While it has one it uses no other, opens
\* and closes none, and does not exit: it could wait for a thread that waits for it.
Mine(t) == {f \in Streams : owner[f] = t}
MayUse(t, f) == pc[t] = "idle" /\ state[f] = "open" /\ Mine(t) \subseteq {f}
\* No thread is closing f: the program closes a stream nobody else uses.
Closing(f) == \E t \in Threads : pc[t] \in {"remove", "free"} /\ at[t] = <<f>>
-----------------------------------------------------------------------------
\* flockfile
Flockfile(t, f) ==
  /\ MayUse(t, f) /\ Lockable(t, f) /\ lock_count[f] < MaxDepth
  /\ owner' = [owner EXCEPT ![f] = t]
  /\ lock_count' = [lock_count EXCEPT ![f] = @ + 1]
  /\ UNCHANGED <<ofl, ofl_lock, state, data, final, pc, at, opens>>

\* Mutant: the owner stays.
FunlockKeepsOwner(t, f) ==
  /\ pc[t] = "idle" /\ owner[f] = t /\ lock_count[f] > 0
  /\ lock_count' = [lock_count EXCEPT ![f] = @ - 1]
  /\ UNCHANGED <<ofl, ofl_lock, owner, state, data, final, pc, at, opens>>

\* funlockfile, as often as the thread has locked it
Funlockfile(t, f) ==
  /\ pc[t] = "idle" /\ owner[f] = t
  /\ lock_count' = [lock_count EXCEPT ![f] = @ - 1]
  /\ owner' = IF lock_count[f] = 1 THEN [owner EXCEPT ![f] = None] ELSE owner
  /\ UNCHANGED <<ofl, ofl_lock, state, data, final, pc, at, opens>>

\* Any output function: the lock is held for the length of the call.
Write(t, f) ==
  /\ MayUse(t, f) /\ Lockable(t, f)
  /\ data' = [data EXCEPT ![f] = TRUE]
  /\ UNCHANGED <<ofl, locks, state, final, pc, at, opens>>
-----------------------------------------------------------------------------
\* fopen: a FILE is allocated, and then listed.
Fopen(t, f) ==
  /\ pc[t] = "idle" /\ Mine(t) = {} /\ opens < MaxOpens
  /\ f \in Files /\ state[f] \in {"none", "freed"}
  /\ state' = [state EXCEPT ![f] = "new"] /\ data' = [data EXCEPT ![f] = FALSE]
  /\ at' = [at EXCEPT ![t] = <<f>>] /\ opens' = opens + 1
  /\ Goto(t, "add")
  /\ UNCHANGED <<ofl, locks, final>>
OflAdd(t) ==
  /\ pc[t] = "add" /\ ofl_lock = None
  /\ ofl' = at[t] \o ofl
  /\ state' = [state EXCEPT ![at[t][1]] = "open"]
  /\ at' = [at EXCEPT ![t] = <<>>]
  /\ Goto(t, "idle")
  /\ UNCHANGED <<locks, data, final, opens>>

\* Mutant: the stream is unlisted under its lock.
FcloseHeld(t, f) ==
  /\ pc[t] = "idle" /\ Mine(t) = {} /\ f \in Files /\ Listed(f) /\ ~Closing(f)
  /\ state[f] = "open" /\ owner[f] = None
  /\ owner' = [owner EXCEPT ![f] = t] /\ lock_count' = [lock_count EXCEPT ![f] = 1]
  /\ data' = [data EXCEPT ![f] = FALSE] /\ state' = [state EXCEPT ![f] = "closed"]
  /\ at' = [at EXCEPT ![t] = <<f>>]
  /\ Goto(t, "remove")
  /\ UNCHANGED <<ofl, ofl_lock, final, opens>>
\* fclose: the stream is flushed and its descriptor closed under its lock, then it is
\* unlisted, then freed.
Fclose(t, f) ==
  /\ pc[t] = "idle" /\ Mine(t) = {} /\ f \in Files /\ Listed(f) /\ ~Closing(f)
  /\ state[f] = "open" /\ owner[f] = None
  /\ data' = [data EXCEPT ![f] = FALSE] /\ state' = [state EXCEPT ![f] = "closed"]
  /\ at' = [at EXCEPT ![t] = <<f>>]
  /\ Goto(t, "remove")
  /\ UNCHANGED <<ofl, locks, final, opens>>
\* The stream before f, or the head, comes to point at the one after it.
Unlinks(f) == \E k \in 1..Len(ofl) : ofl[k] = f /\ ofl' = SubSeq(ofl, 1, k - 1) \o SubSeq(ofl, k + 1, Len(ofl))
\* Mutant: the list is changed without its lock.
OflRemoveUnlocked(t) ==
  /\ pc[t] = "remove"
  /\ Unlinks(at[t][1])
  /\ Goto(t, "free")
  /\ UNCHANGED <<locks, state, data, final, at, opens>>
OflRemove(t) ==
  /\ pc[t] = "remove" /\ ofl_lock = None
  /\ Unlinks(at[t][1])
  /\ Goto(t, "free")
  /\ UNCHANGED <<locks, state, data, final, at, opens>>
Free(t) ==
  /\ pc[t] = "free"
  /\ state' = [state EXCEPT ![at[t][1]] = "freed"]
  /\ owner' = [owner EXCEPT ![at[t][1]] = None] /\ lock_count' = [lock_count EXCEPT ![at[t][1]] = 0]
  /\ at' = [at EXCEPT ![t] = <<>>]
  /\ Goto(t, "idle")
  /\ UNCHANGED <<ofl, ofl_lock, data, final, opens>>
-----------------------------------------------------------------------------
\* fflush(NULL): the standard streams, and then the list under ofl_lock.
FflushAll(t) ==
  /\ pc[t] = "idle" /\ Mine(t) = {}
  /\ at' = [at EXCEPT ![t] = StdSeq]
  /\ Goto(t, "std")
  /\ UNCHANGED <<ofl, locks, state, data, final, opens>>
FlushStd(t) ==
  /\ pc[t] = "std"
  /\ IF at[t] = <<>>
       THEN /\ ofl_lock = None /\ ofl_lock' = t
            /\ at' = [at EXCEPT ![t] = ofl] /\ Goto(t, "each")
            /\ UNCHANGED data
       ELSE /\ Lockable(t, Head(at[t]))
            /\ data' = [data EXCEPT ![Head(at[t])] = FALSE]
            /\ at' = [at EXCEPT ![t] = Tail(@)]
            /\ UNCHANGED <<ofl_lock, pc>>
  /\ UNCHANGED <<ofl, owner, lock_count, state, final, opens>>
\* Mutant: ofl_lock is not released.
FlushEachKeeps(t) ==
  /\ pc[t] = "each"
  /\ IF at[t] = <<>>
       THEN Goto(t, "idle") /\ UNCHANGED <<data, at>>
       ELSE /\ Lockable(t, Head(at[t]))
            /\ data' = [data EXCEPT ![Head(at[t])] = FALSE]
            /\ at' = [at EXCEPT ![t] = Tail(@)]
            /\ UNCHANGED pc
  /\ UNCHANGED <<ofl, locks, state, final, opens>>
FlushEach(t) ==
  /\ pc[t] = "each"
  /\ IF at[t] = <<>>
       THEN ofl_lock' = None /\ Goto(t, "idle") /\ UNCHANGED <<data, at>>
       ELSE /\ Lockable(t, Head(at[t]))
            /\ data' = [data EXCEPT ![Head(at[t])] = FALSE]
            /\ at' = [at EXCEPT ![t] = Tail(@)]
            /\ UNCHANGED <<ofl_lock, pc>>
  /\ UNCHANGED <<ofl, owner, lock_count, state, final, opens>>

\* __stdio_exit: ofl_lock and every stream lock are taken and kept.
Exit(t) ==
  /\ pc[t] = "idle" /\ Mine(t) = {}
  /\ \A u \in Threads : pc[u] \notin {"xlist", "xeach", "over"}
  /\ Goto(t, "xlist")
  /\ UNCHANGED <<ofl, locks, state, data, final, at, opens>>
\* Mutant: only the standard streams are flushed.
ExitListStd(t) ==
  /\ pc[t] = "xlist" /\ ofl_lock = None /\ ofl_lock' = t
  /\ at' = [at EXCEPT ![t] = StdSeq] /\ Goto(t, "xeach")
  /\ UNCHANGED <<ofl, owner, lock_count, state, data, final, opens>>
ExitList(t) ==
  /\ pc[t] = "xlist" /\ ofl_lock = None /\ ofl_lock' = t
  /\ at' = [at EXCEPT ![t] = ofl \o StdSeq] /\ Goto(t, "xeach")
  /\ UNCHANGED <<ofl, owner, lock_count, state, data, final, opens>>
\* Mutant: the stream is unlocked after the flush.
ExitFlushUnlocks(t) ==
  /\ pc[t] = "xeach" /\ at[t] # <<>> /\ Lockable(t, Head(at[t]))
  /\ data' = [data EXCEPT ![Head(at[t])] = FALSE]
  /\ final' = final \cup {Head(at[t])}
  /\ at' = [at EXCEPT ![t] = Tail(@)]
  /\ UNCHANGED <<ofl, locks, state, pc, opens>>
ExitFlush(t) ==
  /\ pc[t] = "xeach" /\ at[t] # <<>> /\ Lockable(t, Head(at[t]))
  /\ owner' = [owner EXCEPT ![Head(at[t])] = t]
  /\ lock_count' = [lock_count EXCEPT ![Head(at[t])] = @ + 1]
  /\ data' = [data EXCEPT ![Head(at[t])] = FALSE]
  /\ final' = final \cup {Head(at[t])}
  /\ at' = [at EXCEPT ![t] = Tail(@)]
  /\ UNCHANGED <<ofl, ofl_lock, state, pc, opens>>
ExitEnd(t) ==
  /\ pc[t] = "xeach" /\ at[t] = <<>> /\ Goto(t, "over")
  /\ UNCHANGED <<ofl, locks, state, data, final, at, opens>>
-----------------------------------------------------------------------------
Inside(t) == \/ OflAdd(t) \/ OflRemove(t) \/ Free(t) \/ FlushStd(t) \/ FlushEach(t)
             \/ ExitList(t) \/ ExitFlush(t) \/ ExitEnd(t)
Call(t) == \/ \E f \in Streams : Flockfile(t, f) \/ Write(t, f) \/ Fopen(t, f) \/ Fclose(t, f)
           \/ FflushAll(t) \/ Exit(t)
Unlock(t) == \E f \in Streams : Funlockfile(t, f)

\* Nothing runs after the last step of exit.
Over == \E t \in Threads : pc[t] = "over"
GoesOn(t) == ~Over /\ Inside(t)
Unlocks(t) == ~Over /\ Unlock(t)

Next == \E t \in Threads : GoesOn(t) \/ Unlocks(t) \/ (~Over /\ Call(t))

Spec == Init /\ [][Next]_vars
\* A thread in a call goes on as soon as it can, and gets a lock that is free again
\* and again; a stream that was locked is unlocked.
FairSpec == /\ Spec
            /\ \A t \in Threads : SF_vars(GoesOn(t))
            /\ \A t \in Threads : WF_vars(Unlocks(t))
-----------------------------------------------------------------------------
\* Types; a stream has an owner exactly when it is locked, at most MaxDepth deep and
\* once more by exit.
TypeOK ==
  /\ ofl \in Seq(Files) /\ ofl_lock \in Threads \cup {None}
  /\ owner \in [Streams -> Threads \cup {None}]
  /\ lock_count \in [Streams -> 0..(MaxDepth + 1)]
  /\ state \in [Streams -> {"none", "new", "open", "closed", "freed"}]
  /\ data \in [Streams -> BOOLEAN] /\ final \subseteq Streams
  /\ \A f \in Streams : owner[f] = None <=> lock_count[f] = 0

\* Nobody touches a FILE that is freed: what is on the list, or still to be visited
\* by a thread that walks it, is allocated.
NoFreedStream ==
  /\ \A k \in 1..Len(ofl) : state[ofl[k]] \in {"open", "closed"}
  /\ \A t \in Threads : \A k \in 1..Len(at[t]) : state[at[t][k]] \in {"new", "open", "closed"}

\* "Streams are left locked so no other thread can write into them after the final
\* flush": when the process ends no output is left in a stream exit has flushed.
FinalFlushIsFinal == \A f \in final : ~data[f]

\* When exit is done every stream that is open has been flushed.
AllFlushed == Over =>
                \A f \in Streams : state[f] = "open" /\ (f \in Std \/ Listed(f)) => f \in final /\ ~data[f]

\* fopen, fclose and fflush(NULL) return, unless the process exits: the order in which
\* they take ofl_lock and the stream locks cannot make them wait for each other.
CallsReturn == \A t \in Threads : pc[t] \in {"add", "remove", "free", "std", "each"} ~>
                                    pc[t] = "idle" \/ \E u \in Threads : pc[u] \in {"xeach", "over"}

\* exit gets every lock.
ExitEnds == \A t \in Threads : pc[t] \in {"xlist", "xeach"} ~> pc[t] = "over"
=============================================================================
