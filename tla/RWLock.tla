------------------------------- MODULE RWLock -------------------------------
(***************************************************************************)
(* pthread_rwlock_* of pthread_sync.c.  __lock counts the readers or is -1 *)
(* for a writer; waiters of both kinds sleep on __seq, which every release *)
(* to 0 increments; __wwait counts the waiters so that an unlock without   *)
(* any makes no system call.                                               *)
(*                                                                         *)
(* pc[t]:  idle, load (about to load __seq), try (rw_try), own (about to   *)
(*         write __writer), inc (__wwait++), fwait, sleep, dec (__wwait--),*)
(*         store (about to store 0 in __lock), bump (__seq++), chk (about  *)
(*         to load __wwait), wake                                          *)
(***************************************************************************)
EXTENDS SyncBase

VARIABLES lock, writer, seq, wwait,   \* the fields of the lock
          pc, mode,                   \* mode[t]: "read" or "write", what t asked for
          snap,                       \* snap[t]: the __seq that t loaded
          held                        \* held[t]: read locks of t, or -1

vars == <<lock, writer, seq, wwait, pc, mode, snap, held>>

Sleepers == {t \in Threads : pc[t] = "sleep"}

Init == /\ lock = 0 /\ writer = NoOwner /\ seq = 0 /\ wwait = 0
        /\ pc = [t \in Threads |-> "idle"]
        /\ mode = [t \in Threads |-> "read"]
        /\ snap = [t \in Threads |-> 0]
        /\ held = [t \in Threads |-> 0]

Goto(t, where) == pc' = [pc EXCEPT ![t] = where]

\* A caller asks for what it may wait for: a reader does not ask to write, and a
\* writer only to write again, which fails with EDEADLK and changes nothing.
MayAsk(t, m) == held[t] = 0 \/ (m = "read" /\ held[t] > 0)

\* rdlock and wrlock, to the first load of __seq
LockCall(t, m) ==
  /\ pc[t] = "idle" /\ MayAsk(t, m)
  /\ mode' = [mode EXCEPT ![t] = m]
  /\ snap' = [snap EXCEPT ![t] = seq]
  /\ Goto(t, "try")
  /\ UNCHANGED <<lock, writer, seq, wwait, held>>

\* the load of __seq in the next round of rw_lock's loop
LoadSeq(t) ==
  /\ pc[t] = "load"
  /\ snap' = [snap EXCEPT ![t] = seq]
  /\ Goto(t, "try")
  /\ UNCHANGED <<lock, writer, seq, wwait, mode, held>>

\* Mutant: a reader gives way to the waiters.
BusyWhenWaited(m) == IF m = "write" THEN lock # 0 ELSE lock < 0 \/ lock = MaxReaders \/ wwait > 0

\* Mutant: the limit is not a reason to refuse.
BusyNoLimit(m) == IF m = "write" THEN lock # 0 ELSE lock < 0

\* Mutant: a writer only looks for another writer.
BusyWriterOnly(m) == IF m = "write" THEN lock < 0 ELSE lock < 0 \/ lock = MaxReaders

\* rw_try gives up with EBUSY, or EAGAIN when the count is at its limit.
Busy(m) == IF m = "write" THEN lock # 0 ELSE lock < 0 \/ lock = MaxReaders

\* The compare-and-swap of rw_try that succeeds.
Enter(t, m) ==
  /\ lock' = IF m = "write" THEN -1 ELSE lock + 1
  /\ held' = [held EXCEPT ![t] = IF m = "write" THEN -1 ELSE @ + 1]
  /\ Goto(t, IF m = "write" THEN "own" ELSE "idle")

\* tryrdlock and trywrlock
TryLock(t, m) ==
  /\ pc[t] = "idle" /\ MayAsk(t, m) /\ ~Busy(m)
  /\ Enter(t, m)
  /\ UNCHANGED <<writer, seq, wwait, mode, snap>>

\* rw_try inside rw_lock: EBUSY makes the caller wait, EAGAIN is returned.  The
\* locals of a call that is over are dead.
Try(t) ==
  /\ pc[t] = "try"
  /\ IF ~Busy(mode[t])
       THEN Enter(t, mode[t])
       ELSE /\ Goto(t, IF lock = MaxReaders THEN "idle" ELSE "inc")
            /\ UNCHANGED <<lock, held>>
  /\ IF ~Busy(mode[t]) \/ lock = MaxReaders
       THEN /\ mode' = [mode EXCEPT ![t] = "read"]
            /\ snap' = [snap EXCEPT ![t] = 0]
       ELSE UNCHANGED <<mode, snap>>
  /\ UNCHANGED <<writer, seq, wwait>>

SetWriter(t) ==
  /\ pc[t] = "own"
  /\ writer' = t
  /\ Goto(t, "idle")
  /\ UNCHANGED <<lock, seq, wwait, mode, snap, held>>

IncWaiters(t) ==
  /\ pc[t] = "inc"
  /\ wwait' = wwait + 1
  /\ Goto(t, "fwait")
  /\ UNCHANGED <<lock, writer, seq, mode, snap, held>>

FutexWait(t) ==
  /\ pc[t] = "fwait"
  /\ Goto(t, IF seq = snap[t] THEN "sleep" ELSE "dec")
  /\ snap' = [snap EXCEPT ![t] = 0]     \* dead from here on
  /\ UNCHANGED <<lock, writer, seq, wwait, mode, held>>

Interrupted(t) ==
  /\ pc[t] = "sleep"
  /\ Goto(t, "dec")
  /\ UNCHANGED <<lock, writer, seq, wwait, mode, snap, held>>

DecWaiters(t) ==
  /\ pc[t] = "dec"
  /\ wwait' = wwait - 1
  /\ Goto(t, "load")
  /\ UNCHANGED <<lock, writer, seq, mode, snap, held>>

\* unlock by the writer, up to the store of 0; by others it is EPERM
UnlockWriter(t) ==
  /\ pc[t] = "idle" /\ lock < 0 /\ writer = t
  /\ writer' = NoOwner
  /\ Goto(t, "store")
  /\ UNCHANGED <<lock, seq, wwait, mode, snap, held>>

StoreFree(t) ==
  /\ pc[t] = "store"
  /\ lock' = 0
  /\ held' = [held EXCEPT ![t] = 0]
  /\ Goto(t, "bump")
  /\ UNCHANGED <<writer, seq, wwait, mode, snap>>

UnlockReader(t) ==
  /\ pc[t] = "idle" /\ held[t] > 0
  /\ lock' = lock - 1
  /\ held' = [held EXCEPT ![t] = @ - 1]
  /\ Goto(t, IF lock = 1 THEN "bump" ELSE "idle")
  /\ UNCHANGED <<writer, seq, wwait, mode, snap>>

\* Assumed of the program: fewer than 2^32 releases while one thread is between
\* its load of __seq and its futex wait.
NoWrap == \A t \in Threads :
            pc[t] \in {"try", "inc", "fwait"} => snap[t] # (seq + 1) % SeqMod

\* Mutant: the number is only incremented for waiters that are counted.
BumpIfWaited(t) ==
  /\ pc[t] = "bump" /\ NoWrap
  /\ seq' = IF wwait = 0 THEN seq ELSE (seq + 1) % SeqMod
  /\ Goto(t, "chk")
  /\ UNCHANGED <<lock, writer, wwait, mode, snap, held>>

BumpSeq(t) ==
  /\ pc[t] = "bump" /\ NoWrap
  /\ seq' = (seq + 1) % SeqMod
  /\ Goto(t, "chk")
  /\ UNCHANGED <<lock, writer, wwait, mode, snap, held>>

CheckWaiters(t) ==
  /\ pc[t] = "chk"
  /\ Goto(t, IF wwait = 0 THEN "idle" ELSE "wake")
  /\ UNCHANGED <<lock, writer, seq, wwait, mode, snap, held>>

\* Mutant: one waiter is woken, as by a mutex.
FutexWakeOne(t) ==
  /\ pc[t] = "wake"
  /\ IF Sleepers = {}
       THEN Goto(t, "idle")
       ELSE \E s \in Sleepers : pc' = [pc EXCEPT ![t] = "idle", ![s] = "dec"]
  /\ UNCHANGED <<lock, writer, seq, wwait, mode, snap, held>>

FutexWake(t) ==
  /\ pc[t] = "wake"
  /\ pc' = [u \in Threads |-> IF u = t THEN "idle"
                              ELSE IF u \in Sleepers THEN "dec" ELSE pc[u]]
  /\ UNCHANGED <<lock, writer, seq, wwait, mode, snap, held>>

Running(t) == \/ LoadSeq(t) \/ Try(t) \/ SetWriter(t) \/ IncWaiters(t)
              \/ FutexWait(t) \/ DecWaiters(t)
              \/ StoreFree(t) \/ BumpSeq(t) \/ CheckWaiters(t) \/ FutexWake(t)

Next == \E t \in Threads :
          \/ \E m \in {"read", "write"} : LockCall(t, m) \/ TryLock(t, m)
          \/ UnlockWriter(t) \/ UnlockReader(t) \/ Interrupted(t)
          \/ Running(t)

Spec == Init /\ [][Next]_vars

\* A thread inside the functions and not asleep keeps running.
FairSpec == Spec /\ \A t \in Threads : WF_vars(Running(t))
-----------------------------------------------------------------------------
Readers == {t \in Threads : held[t] > 0}
Writers == {t \in Threads : held[t] < 0}
Waiters == {t \in Threads : pc[t] \in {"load", "try", "inc", "fwait", "sleep", "dec"}}

TypeOK == /\ lock \in -1..MaxReaders
          /\ writer \in Threads \cup {NoOwner}
          /\ seq \in 0..(SeqMod - 1)
          /\ wwait \in 0..Cardinality(Threads)
          /\ pc \in [Threads -> {"idle", "load", "try", "own", "inc", "fwait", "sleep",
                                 "dec", "store", "bump", "chk", "wake"}]
          /\ mode \in [Threads -> {"read", "write"}]
          /\ snap \in [Threads -> 0..(SeqMod - 1)]
          /\ held \in [Threads -> -1..MaxReaders]

\* A writer is alone, and the word says who is inside: -1 for it, 0 for nobody,
\* a positive number when there are readers.
WriterAlone ==
  /\ \A w \in Writers : \A t \in Threads : t # w => held[t] = 0
  /\ (lock < 0) <=> (Writers # {})
  /\ (lock > 0) <=> (Readers # {})

\* "Readers are preferred, so recursive read locks cannot deadlock": a thread
\* that has a read lock never waits for another one, writers waiting or not.
RecursiveReadNeverWaits ==
  \A t \in Threads : held[t] > 0 => pc[t] \notin {"inc", "fwait", "sleep"}

\* Whatever a sleeper could have, somebody is on the way to wake it: the check
\* of __wwait before the wake is never too early.
Available(t) == IF mode[t] = "write" THEN lock = 0 ELSE lock >= 0
NoLostWakeup ==
  \A t \in Sleepers :
    Available(t) => \E u \in Threads : pc[u] \in {"bump", "wake"} \/ (pc[u] = "chk" /\ wwait > 0)

\* What makes the three inductive.  __wwait is the number of threads between its
\* increment and its decrement; __lock is the number of read locks held, each a
\* pair of a thread and a number up to its own count.
Counted == {t \in Threads : pc[t] \in {"fwait", "sleep", "dec"}}
WaitersCounted == wwait = Cardinality(Counted)
Pairs == {<<t, k>> : t \in Threads, k \in 1..MaxReaders}
ReadLocks == {r \in Pairs : r[2] <= held[r[1]]}
ReadersCounted == lock >= 0 => lock = Cardinality(ReadLocks)

\* The writer is the thread __writer names, or one about to write or that has
\* erased that name; who waits to write holds nothing.
WriterKnown ==
  /\ \A t \in Threads : held[t] < 0 <=> (writer = t \/ pc[t] \in {"own", "store"})
  /\ \A t \in Threads : writer = t => pc[t] = "idle"
  /\ \A t \in Threads : pc[t] \in {"own", "store"} => writer = NoOwner
  /\ \A t \in Waiters : mode[t] = "write" => held[t] = 0

\* A thread on its way to the futex wait that loaded the current __seq could have
\* the lock only after a release whose increment is still to come.
BumpPending ==
  \A t \in Threads :
    pc[t] \in {"inc", "fwait"} /\ snap[t] = seq /\ Available(t) => \E u \in Threads : pc[u] = "bump"

IInv == /\ TypeOK /\ WriterAlone /\ RecursiveReadNeverWaits /\ NoLostWakeup
        /\ WaitersCounted /\ ReadersCounted /\ WriterKnown /\ BumpPending

\* A lock that is free and that somebody waits for is taken.
FreeLockIsTaken == (lock = 0 /\ Waiters # {}) ~> (lock # 0 \/ Waiters = {})
=============================================================================
