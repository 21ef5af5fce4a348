--------------------------------- MODULE Fork ---------------------------------
(***************************************************************************)
(* fork and pthread_atfork (process.c), with the locks that fork takes so  *)
(* that the child gets whole data structures: atfork_lock, the recursive   *)
(* lock of the dynamic linker, the locks of malloc's pools and the thread  *)
(* list's lock.  Other threads are in pthread_atfork, dlopen, malloc and   *)
(* the thread functions, which hold these locks.                           *)
(*                                                                         *)
(* held[t] is the sequence of locks t holds, latest last; "dl" is in it    *)
(* once for each level.  pc[t] is "run", or where t is in fork: atfork,    *)
(* prepare, dl, pools, list, clone, then unlist (releasing), parent.       *)
(***************************************************************************)
EXTENDS Integers, Sequences, FiniteSets

CONSTANTS Threads, None,
          NPools,          \* _MALLOC_MUTEXES
          MaxHandlers,     \* pthread_atfork calls
          MaxForks,
          MaxLevel         \* locks held by a thread that is not in fork

VARIABLES held, pc,
          want,            \* the lock a call waits for, or None
          tab,             \* atfork_n
          n,               \* fork's copy of it
          k,               \* the loop's index: a pool or a handler
          ran,             \* the prepare and parent handlers fork has run
          child,           \* the child of the last fork, None before it
          forks

vars == <<want, held, pc, tab, n, k, ran, child, forks>>

Pools == 1..NPools
Locks == Pools \X {"pool"} \cup {<<0, "atfork">>, <<0, "dl">>, <<0, "list">>}
Pool(i) == <<i, "pool">>
Lk(name) == <<0, name>>

Elems(s) == {s[j] : j \in DOMAIN s}
Free(l) == \A u \in Threads : l \notin Elems(held[u])
Goto(t, where) == pc' = [pc EXCEPT ![t] = where]
Take(t, l) == held' = [held EXCEPT ![t] = Append(@, l)]
Drop(t) == held' = [held EXCEPT ![t] = SubSeq(@, 1, Len(@) - 1)]
Last(t) == IF held[t] = <<>> THEN None ELSE held[t][Len(held[t])]

Init == /\ held = [t \in Threads |-> <<>>] /\ pc = [t \in Threads |-> "run"]
        /\ want = [t \in Threads |-> None]
        /\ tab = 0 /\ n = 0 /\ k = 0
        /\ ran = <<>> /\ child = None /\ forks = 0

\* Mutant: constructors call pthread_atfork.
TakenInsideDlAtfork(l) == IF l = Lk("dl") THEN {Lk("atfork")} ELSE {}

\* The locks that the library takes while it holds the latest one: pthread_atfork and
\* the prepare handlers allocate; dlopen allocates, walks the thread list, and its
\* constructors call dlopen.  (Constructors that call pthread_atfork are left out: they
\* take the two locks in the opposite order of fork.)
TakenInside(l) ==
  CASE l = Lk("atfork") -> {Pool(i) : i \in Pools}
    [] l = Lk("dl") -> {Pool(i) : i \in Pools} \cup {Lk("list"), Lk("dl")}
    [] OTHER -> {}

\* A call of pthread_atfork, dlopen, malloc, pthread_create... that needs a lock.
Call(t, l) ==
  /\ \/ pc[t] = "run" /\ (held[t] = <<>> \/ l \in TakenInside(Last(t)))
     \/ pc[t] = "prepare" /\ Last(t) = Lk("atfork") /\ l \in {Pool(i) : i \in Pools}
  /\ want[t] = None /\ Len(held[t]) < MaxLevel
  /\ want' = [want EXCEPT ![t] = l]
  /\ UNCHANGED <<held, pc, tab, n, k, ran, child, forks>>

\* __lock; dl_lock by its owner goes one level deeper.
Acquire(t) ==
  /\ want[t] # None
  /\ Free(want[t]) \/ (want[t] = Lk("dl") /\ want[t] \in Elems(held[t]))
  /\ Take(t, want[t])
  /\ want' = [want EXCEPT ![t] = None]
  /\ UNCHANGED <<pc, tab, n, k, ran, child, forks>>

\* The call releases the lock; pthread_atfork has added a handler or failed.
Leave(t) ==
  /\ pc[t] = "run" \/ (pc[t] = "prepare" /\ Last(t) # Lk("atfork"))
  /\ held[t] # <<>> /\ want[t] = None
  /\ Drop(t)
  /\ tab' \in IF Last(t) = Lk("atfork") /\ tab < MaxHandlers THEN {tab, tab + 1} ELSE {tab}
  /\ UNCHANGED <<want, pc, n, k, ran, child, forks>>

\* fork
ForkCall(t) ==
  /\ pc[t] = "run" /\ held[t] = <<>> /\ want[t] = None /\ forks < MaxForks
  /\ forks' = forks + 1
  /\ Goto(t, "atfork")
  /\ UNCHANGED <<want, held, tab, n, k, ran, child>>

TakeAtfork(t) ==
  /\ pc[t] = "atfork" /\ Free(Lk("atfork")) /\ Take(t, Lk("atfork"))
  /\ n' = tab /\ k' = tab /\ ran' = <<>>
  /\ Goto(t, "prepare")
  /\ UNCHANGED <<want, tab, child, forks>>

\* Mutant: the loop also runs entry -1.
PreparesDoneLate == k < 0

PreparesDone == k = 0

\* "prepare handlers run in reverse registration order"
Prepare(t) ==
  /\ pc[t] = "prepare" /\ Last(t) = Lk("atfork") /\ want[t] = None
  /\ IF PreparesDone THEN /\ Goto(t, "dl") /\ UNCHANGED <<k, ran>>
                     ELSE /\ ran' = Append(ran, k) /\ k' = k - 1 /\ UNCHANGED pc
  /\ UNCHANGED <<want, held, tab, n, child, forks>>

\* __dl_atfork(-1)
TakeDl(t) ==
  /\ pc[t] = "dl" /\ Free(Lk("dl")) /\ Take(t, Lk("dl"))
  /\ k' = 1 /\ Goto(t, "pools")
  /\ UNCHANGED <<want, tab, n, ran, child, forks>>

\* Mutant: the last pool's lock is not taken.
PoolsDoneEarly == k >= NPools

\* All the pools' locks are taken.
PoolsDone == k > NPools

\* __malloc_atfork(-1)
TakePools(t) ==
  /\ pc[t] = "pools"
  /\ IF PoolsDone THEN /\ Goto(t, "list") /\ UNCHANGED <<held, k>>
                  ELSE /\ Free(Pool(k)) /\ Take(t, Pool(k)) /\ k' = k + 1 /\ UNCHANGED pc
  /\ UNCHANGED <<want, tab, n, ran, child, forks>>

\* __thread_list_lock
TakeList(t) ==
  /\ pc[t] = "list" /\ Free(Lk("list")) /\ Take(t, Lk("list"))
  /\ Goto(t, "clone")
  /\ UNCHANGED <<want, tab, n, k, ran, child, forks>>

\* Mutant: the child's list lock is not reset.
ResetInChildNoList == {Lk("atfork"), Lk("dl")} \cup {Pool(i) : i \in Pools}

\* What the child resets: atfork_lock, __thread_list_fork_child, __malloc_atfork(1) and
\* __dl_atfork(1), which gives the lock to the child's thread and leaves its one level.
ResetInChild == {Lk("atfork"), Lk("list"), Lk("dl")} \cup {Pool(i) : i \in Pools}

\* The clone, and the child's way to its handlers: it is alone.  stuck: locks that look
\* held; torn: those whose data a thread that is not in the child was changing.
Clone(t) ==
  LET marked == UNION {Elems(held[u]) : u \in Threads}
      others == UNION {Elems(held[u]) : u \in Threads \ {t}}
  IN /\ pc[t] = "clone"
     /\ child' = [stuck |-> marked \ ResetInChild, torn |-> others, ran |-> [j \in 1..n |-> j]]
     /\ Goto(t, "unlist")
     /\ UNCHANGED <<want, held, tab, n, k, ran, forks>>

\* fork fails: no child, and the rest as in the parent.
CloneFails(t) ==
  /\ pc[t] = "clone" /\ Goto(t, "unlist")
  /\ UNCHANGED <<want, held, tab, n, k, ran, child, forks>>

\* The parent: __thread_list_unlock, __malloc_atfork(0), __dl_atfork(0).
Unwind(t) ==
  /\ pc[t] = "unlist"
  /\ IF Last(t) = Lk("atfork") THEN /\ Goto(t, "parent") /\ k' = 1 /\ UNCHANGED held
                               ELSE Drop(t) /\ UNCHANGED <<pc, k>>
  /\ UNCHANGED <<want, tab, n, ran, child, forks>>

\* Mutant: the last handler is forgotten.
ParentsDoneEarly == k >= n

ParentsDone == k > n

\* The parent handlers, in registration order; then atfork_lock is released.
Parent(t) ==
  /\ pc[t] = "parent"
  /\ IF ParentsDone THEN /\ Drop(t) /\ Goto(t, "run") /\ n' = 0 /\ k' = 0 /\ UNCHANGED ran
                    ELSE /\ ran' = Append(ran, k) /\ k' = k + 1 /\ UNCHANGED <<held, pc, n>>
  /\ UNCHANGED <<want, tab, child, forks>>

Locking(t) == TakeAtfork(t) \/ Prepare(t) \/ TakeDl(t) \/ TakePools(t) \/ TakeList(t)
Locked(t) == Clone(t) \/ CloneFails(t) \/ Unwind(t) \/ Parent(t)

Next == \E t \in Threads : \/ \E l \in Locks : Call(t, l)
                           \/ Acquire(t) \/ Leave(t)
                           \/ ForkCall(t) \/ Locking(t) \/ Locked(t)

Spec == Init /\ [][Next]_vars

-----------------------------------------------------------------------------

\* The locks are held by threads of the process and fork's counters are in range.
TypeOK == /\ held \in [Threads -> Seq(Locks)]
          /\ want \in [Threads -> Locks \cup {None}]
          /\ pc \in [Threads -> {"run", "atfork", "prepare", "dl", "pools", "list", "clone", "unlist", "parent"}]
          /\ tab \in 0..MaxHandlers /\ n \in 0..MaxHandlers /\ forks \in 0..MaxForks
          /\ k \in 0..(NPools + MaxHandlers + 1)
          /\ ran \in Seq(1..MaxHandlers)

\* The heap, the object list and the thread list that the child inherits are not
\* caught half-updated: no other thread was inside one of them at the clone.
ChildIsWhole == child # None => child.torn = {}

\* The child starts unlocked: each lock that fork takes is free when its handlers run.
ChildUnlocked == child # None => child.stuck = {}

\* When fork returns in the parent, the parent handlers that ran are those whose
\* prepare handlers ran, in the opposite order; the child's are the same.
HandlersPaired ==
  [][\A t \in Threads :
       pc[t] = "parent" /\ pc'[t] = "run" =>
         ran = [j \in 1..(2 * n) |-> IF j <= n THEN n + 1 - j ELSE j - n]]_vars

\* The lock that t is waiting for, in fork or in another call; None if it is not.
WaitsFor(t) == CASE pc[t] \in {"atfork", "dl", "list"} -> Lk(pc[t])
                 [] pc[t] = "pools" -> Pool(k)
                 [] OTHER -> want[t]

\* No two threads wait for each other: the locks of fork, of pthread_atfork, of dlopen
\* and its constructors, and of malloc are taken in one order.
NoWaitCycle == \A t, u \in Threads :
                 t # u => ~(WaitsFor(t) \in Elems(held[u]) /\ WaitsFor(u) \in Elems(held[t]))
=============================================================================
