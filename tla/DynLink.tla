------------------------------- MODULE DynLink -------------------------------
(***************************************************************************)
(* dlopen, dlclose, the pinning of objects and exit's __dl_fini            *)
(* (ldso/dynlink.c).  dl_lock is recursive and held throughout each call,  *)
(* so the calls of different threads do not interleave; but constructors   *)
(* and destructors run inside it and may call dlopen and dlclose.  A       *)
(* behaviour is therefore one stack of calls: a frame is a dlopen that     *)
(* runs the constructors of todo, a dlclose that runs the destructors of   *)
(* the doomed objects, or exit.  frame.obj is the object whose constructor *)
(* or destructor runs, None between two of them.                           *)
(*                                                                         *)
(* The dependencies of an object (DT_NEEDED) and the objects it imports a  *)
(* symbol from when they are in scope are constants.                       *)
(***************************************************************************)
EXTENDS Integers, Sequences, FiniteSets, FiniteSetsExt

CONSTANTS Objs, None,
          Startup,      \* the program and what it was linked with: permanent
          Deps,         \* Deps[d]: d->deps
          Imports,      \* Imports[d]: what d's symbols bind to when it is in scope
          Tls,          \* the objects with a thread-local segment
          Pinnable,     \* the objects opened with RTLD_NODELETE, or whose code calls __dl_pin
          Nested,       \* the calls that constructors and destructors make, below
          MaxOpens,     \* bound of the handles that are open at once
          MaxDepth      \* bound of the calls inside each other

NestedCalls == {"ctor_open",          \* a constructor opens an object that is up
                "ctor_open_waiting",  \* one that needs an object with a constructor yet to run
                "ctor_close", "dtor_open", "dtor_close"}

ASSUME GraphAssumption ==
  /\ IsFiniteSet(Objs) /\ None \notin Objs
  /\ Startup \subseteq Objs /\ Tls \subseteq Objs /\ Pinnable \subseteq Objs
  /\ Deps \in [Objs -> SUBSET Objs] /\ Imports \in [Objs -> SUBSET Objs]
  /\ \A d \in Startup : Deps[d] \subseteq Startup
  /\ Nested \subseteq NestedCalls /\ MaxOpens \in Nat /\ MaxDepth \in Nat

VARIABLES loaded,          \* the object list
          global,          \* d->global
          nodelete,        \* d->nodelete
          opens, refcnt,   \* of the loaded objects; 0 for the others
          doomed,          \* d->doomed
          fini,            \* the destructor list, fini_head first
          stack,           \* the calls in progress, innermost last
          bound,           \* <<d, e>>: a relocation of d points into e
          over             \* exit has run the destructors

vars == <<loaded, global, nodelete, opens, refcnt, doomed, fini, stack, bound, over>>

Elems(s) == {s[k] : k \in DOMAIN s}

\* h->scope: the smallest set that holds h and the dependencies of its members.
scope == [h \in Objs |-> {e \in Objs : \A S \in SUBSET Objs :
                             h \in S /\ (\A d \in S : Deps[d] \subseteq S) => e \in S}]
Scope(h) == scope[h]

\* What the objects of R need, directly or not, and R itself.
Reach(R) == UNION {Scope(d) : d \in R}

\* d's constructor runs before e's: e needs d, and not the other way round.
Before(d, e) == d \in Scope(e) /\ e \notin Scope(d)

\* The orders in which order_init may put the objects of S: a depth-first post-order
\* follows Before, and the order of unrelated objects depends on that of DT_NEEDED.
Orders(S) == {o \in [1..Cardinality(S) -> S] :
                /\ Elems(o) = S
                /\ \A j, k \in DOMAIN o : Before(o[j], o[k]) => j < k}

Frame(kind, h, todo) == [kind |-> kind, handle |-> h, todo |-> todo, obj |-> None]
Top == IF stack = <<>> THEN Frame("program", None, <<>>) ELSE stack[Len(stack)]
Pop == SubSeq(stack, 1, Len(stack) - 1)
Running == {f.obj : f \in Elems(stack)} \ {None}

\* The program, or a constructor or destructor that makes this call, is running.
Calls(ctor, dtor) ==
  /\ ~over /\ Len(stack) < MaxDepth
  /\ \/ Top.kind = "program"
     \/ Top.kind = "open" /\ Top.obj # None /\ ctor \in Nested
     \/ Top.kind = "close" /\ Top.obj # None /\ dtor \in Nested

\* The dlopens of h that have not returned it yet.
Pending(h) == Cardinality({k \in DOMAIN stack : stack[k].kind = "open" /\ stack[k].handle = h})

\* The objects whose constructors a dlopen in progress has yet to run.
Waiting == UNION {Elems(f.todo) : f \in Elems(stack)}

Init == /\ loaded = Startup /\ global = Startup
        /\ nodelete = {} /\ doomed = {}
        /\ opens = [d \in Objs |-> 0] /\ refcnt = [d \in Objs |-> 0]
        /\ fini \in {[k \in DOMAIN o |-> o[Len(o) + 1 - k]] : o \in Orders(Startup)}
        /\ stack = <<>>
        /\ bound = {} /\ over = FALSE

\* What the relocations of the objects of New, opened through h, bind to.
Bindings(h, New) == {<<d, e>> \in New \X (loaded \cup New) :
                       e \in Imports[d] /\ e \in global \cup Scope(h) /\ e # d}

\* Mutant: the objects outside of h's closure are not considered.
PinsOfScope(h, B) == {p[2] : p \in {q \in B : q[2] \notin Scope(q[1]) /\ q[2] \in Scope(h)}} \ Startup

\* "bound to an object this one does not depend on: it must outlive this one"
Pins(h, B) == {p[2] : p \in {q \in B : q[2] \notin Scope(q[1])}} \ Startup

OpenHandles == MapThenSumSet(LAMBDA h : opens[h], Objs)

MayOpen(h) ==
  IF Scope(h) \cap Waiting = {} THEN Calls("ctor_open", "dtor_open")
                                ELSE Calls("ctor_open_waiting", "dtor_open")

\* Mutant: only the handle itself is counted.
CountHandle(h) == refcnt' = [refcnt EXCEPT ![h] = @ + 1]

Count(h) == refcnt' = [d \in Objs |-> IF d \in Scope(h) THEN refcnt[d] + 1 ELSE refcnt[d]]

\* dlopen
Dlopen(h, mode) ==
  LET New == Scope(h) \ loaded
      B == Bindings(h, New)
  IN /\ MayOpen(h) /\ OpenHandles < MaxOpens /\ h \notin Startup
     /\ "nodelete" \in mode => h \in Pinnable
     /\ loaded' = loaded \cup New
     /\ bound' = bound \cup B
     /\ opens' = [opens EXCEPT ![h] = @ + 1]
     /\ Count(h)
     /\ global' = IF "global" \in mode THEN global \cup Scope(h) ELSE global
     /\ nodelete' = nodelete \cup Pins(h, B) \cup (IF "nodelete" \in mode THEN {h} ELSE {})
     /\ \E o \in Orders(New) : stack' = IF New = {} THEN stack ELSE Append(stack, Frame("open", h, o))
     /\ UNCHANGED <<doomed, fini, over>>

\* dlopen fails after it has loaded and relocated some of the objects: rollback
\* drops these, what their relocations pinned remains pinned.
DlopenFails(h) ==
  LET New == Scope(h) \ loaded
  IN /\ MayOpen(h) /\ h \notin Startup /\ New # {}
     /\ \E P \in SUBSET New : nodelete' = nodelete \cup (Pins(h, Bindings(h, P)) \ New)
     /\ UNCHANGED <<loaded, global, opens, refcnt, doomed, fini, stack, bound, over>>

\* run_init: the constructor of the next object starts.
RunInit ==
  /\ Top.kind = "open" /\ Top.obj = None /\ Top.todo # <<>>
  /\ fini' = <<Head(Top.todo)>> \o fini
  /\ stack' = Append(Pop, [Top EXCEPT !.todo = Tail(@), !.obj = Head(Top.todo)])
  /\ UNCHANGED <<loaded, global, nodelete, opens, refcnt, doomed, bound, over>>

\* The constructor or destructor returns.
Return ==
  /\ Top.obj # None
  /\ stack' = Append(Pop, [Top EXCEPT !.obj = None])
  /\ UNCHANGED <<loaded, global, nodelete, opens, refcnt, doomed, fini, bound, over>>

\* dlopen returns.
OpenReturns ==
  /\ Top.kind = "open" /\ Top.obj = None /\ Top.todo = <<>>
  /\ stack' = Pop
  /\ UNCHANGED <<loaded, global, nodelete, opens, refcnt, doomed, fini, bound, over>>

\* Mutant: whatever the last dlclose of a handle finds in its scope goes.
UnusedAll(h) == {d \in Scope(h) : opens[h] = 1 /\ d \notin Startup \cup nodelete \cup Tls}

\* The objects of h's scope that nothing refers to once h is closed.
Unused(h) == {d \in Scope(h) : refcnt[d] = 1 /\ d \notin Startup \cup nodelete \cup Tls}

\* Mutant: what goes keeps its dependencies too.
KeepAllDeps(D) == D \ UNION {Deps[d] : d \in loaded}

\* "what stays keeps its dependencies": keep_deps
Keep(D) == D \ Reach(loaded \ D)

\* Mutant: h->opens is not checked.
CloseableIfLoaded(h) == h \in loaded

\* valid_handle, and an open the program knows of: a handle is used once dlopen has
\* returned it.
Closeable(h) == opens[h] > Pending(h)

\* dlclose up to the first destructor; doomed may still hold the objects of a
\* dlclose whose destructor makes this call.
Dlclose(h) ==
  /\ Calls("ctor_close", "dtor_close") /\ Closeable(h)
  /\ opens' = [opens EXCEPT ![h] = @ - 1]
  /\ refcnt' = [d \in Objs |-> IF d \in Scope(h) THEN refcnt[d] - 1 ELSE refcnt[d]]
  /\ doomed' = Keep((doomed \ Scope(h)) \cup Unused(h))
  /\ stack' = IF doomed' = {} THEN stack ELSE Append(stack, Frame("close", h, <<>>))
  /\ UNCHANGED <<loaded, global, nodelete, fini, bound, over>>

\* The indices on the destructor list of the objects that have to go.
Due(kind) == {k \in DOMAIN fini : kind = "exit" \/ fini[k] \in doomed}

\* Mutant: the destructor list is walked from its other end.
NextDueLast(kind) == CHOOSE k \in Due(kind) : \A j \in Due(kind) : j <= k

NextDue(kind) == CHOOSE k \in Due(kind) : \A j \in Due(kind) : k <= j

\* The first destructor due starts: the loops of dlclose and __dl_fini.
RunFini ==
  /\ Top.kind \in {"close", "exit"} /\ Top.obj = None
  /\ Due(Top.kind) # {}
  /\ LET k == NextDue(Top.kind)
     IN /\ fini' = SubSeq(fini, 1, k - 1) \o SubSeq(fini, k + 1, Len(fini))
        /\ stack' = Append(Pop, [Top EXCEPT !.obj = fini[k]])
  /\ UNCHANGED <<loaded, global, nodelete, opens, refcnt, doomed, bound, over>>

\* Mutant: the objects are unmapped as soon as one destructor has run.
NoneDueOnceOne == Cardinality(Due("close")) <= 1

\* No destructor is due any more.
NoneDue == Due("close") = {}

\* dlclose unmaps the doomed objects and returns.
Unmap ==
  /\ Top.kind = "close" /\ Top.obj = None /\ NoneDue
  /\ loaded' = loaded \ doomed /\ global' = global \ doomed /\ nodelete' = nodelete \ doomed
  /\ bound' = {p \in bound : p[1] \notin doomed}
  /\ opens' = [d \in Objs |-> IF d \in doomed THEN 0 ELSE opens[d]]
  /\ refcnt' = [d \in Objs |-> IF d \in doomed THEN 0 ELSE refcnt[d]]
  /\ doomed' = {}
  /\ stack' = Pop
  /\ UNCHANGED <<fini, over>>

\* __dl_pin, called by the code of the object: it registers the destructor of a
\* thread_local variable.
Pin(d) ==
  /\ ~over /\ d \in (Pinnable \cap loaded) \ (nodelete \cup doomed)
  /\ stack = <<>> \/ d \in Running
  /\ nodelete' = nodelete \cup {d}
  /\ UNCHANGED <<loaded, global, opens, refcnt, doomed, fini, stack, bound, over>>

\* exit, by the program or by a constructor; the calls it is made from never resume.
Exit ==
  /\ ~over
  /\ Top.kind = "program" \/ (Top.kind = "open" /\ Top.obj # None)
  /\ stack' = <<Frame("exit", None, <<>>)>>
  /\ UNCHANGED <<loaded, global, nodelete, opens, refcnt, doomed, fini, bound, over>>

\* The destructors have run; the process goes on to flush the streams and ends.
ExitEnds ==
  /\ Top.kind = "exit" /\ Top.obj = None /\ fini = <<>>
  /\ stack' = <<>> /\ over' = TRUE
  /\ UNCHANGED <<loaded, global, nodelete, opens, refcnt, doomed, fini, bound>>

Modes == SUBSET {"global", "nodelete"}

Next == \/ \E h \in Objs, mode \in Modes : Dlopen(h, mode)
        \/ \E h \in Objs : DlopenFails(h)
        \/ \E h \in Objs : Dlclose(h)
        \/ \E d \in Objs : Pin(d)
        \/ RunInit \/ Return \/ OpenReturns \/ RunFini \/ Unmap
        \/ Exit \/ ExitEnds

Spec == Init /\ [][Next]_vars

-----------------------------------------------------------------------------

\* The fields of the objects and the calls in progress have their types.
TypeOK == /\ loaded \subseteq Objs /\ Startup \subseteq loaded
          /\ global \subseteq loaded /\ nodelete \subseteq loaded /\ doomed \subseteq loaded
          /\ opens \in [Objs -> 0..MaxOpens] /\ refcnt \in [Objs -> Nat]
          /\ fini \in Seq(loaded)
          /\ bound \subseteq loaded \X Objs
          /\ over \in BOOLEAN
          /\ stack \in Seq([kind : {"open", "close", "exit"}, handle : Objs \cup {None},
                           todo : Seq(loaded), obj : Objs \cup {None}])

\* The reference count that dlopen and dlclose keep in each object is the number of
\* open handles whose closure holds the object.
RefcntTrue ==
  \A d \in loaded : refcnt[d] = MapThenSumSet(LAMBDA h : IF d \in Scope(h) THEN opens[h] ELSE 0, loaded)

\* No mapped object refers to an unmapped one, by a dependency or by a relocation:
\* keep_deps and the nodelete mark of a foreign binding see to that.
NothingDangles ==
  /\ \A d \in loaded : Deps[d] \subseteq loaded
  /\ \A p \in bound : p[2] \in loaded

\* A handle that was opened more often than closed has its whole scope mapped, and
\* no dlclose is about to unmap a part of it, so dlsym may search it.
HandleUsable == \A h \in Objs : opens[h] > 0 => Scope(h) \subseteq loaded \ doomed

\* The code of a constructor or destructor that runs is mapped, and so is that of
\* every object whose destructors are still to run.
CodeMapped == Running \cup Elems(fini) \cup Waiting \subseteq loaded

\* An object whose constructors have started and whose destructors have not finished
\* has its dependencies in that state too (those of a cycle aside): dependencies are
\* constructed first and destroyed last, in dlopen, dlclose and exit alike.
DependenciesUp ==
  LET Up == Elems(fini) \cup Running
  IN \A e \in Up, d \in Objs : Before(d, e) => d \in Up

\* dlclose unmaps all it can: outside of the calls, an object is mapped only if an
\* open handle, the program, or an object that cannot be unloaded needs it.
NoLeak ==
  stack = <<>> => loaded = Reach({d \in loaded : refcnt[d] > 0} \cup Startup \cup nodelete \cup (Tls \cap loaded))
=============================================================================
