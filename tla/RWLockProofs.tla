---------------------------- MODULE RWLockProofs ----------------------------
(***************************************************************************)
(* The read-write lock of pthread_sync.c, for any finite set of threads,   *)
(* any limit of readers and any width of __seq: IInv is an invariant, so a *)
(* writer is alone and no release forgets a sleeper.  The argument is two  *)
(* counts, of the read locks held (pairs of a thread and a number, so that *)
(* recursion counts) and of the waiters between __wwait++ and __wwait--,   *)
(* and that a waiter whose copy of __seq is current has a bump ahead of it *)
(* (BumpPending).                                                          *)
(***************************************************************************)
EXTENDS RWLock, FiniteSetTheorems, TLAPS

\* The pairs that stand for read locks are finitely many.
LEMMA PairsFinite == Pairs = Threads \X (1..MaxReaders) /\ IsFiniteSet(Pairs)
<1>1. IsFiniteSet(1..MaxReaders)
  BY LimitAssumption, FS_Interval
<1>2. Pairs = Threads \X (1..MaxReaders)
  BY DEF Pairs
<1> QED BY <1>1, <1>2, ThreadsAssumption, FS_Product

\* A lock as pthread_rwlock_init leaves it.
LEMMA InitIInv == Init => IInv
<1> SUFFICES ASSUME Init PROVE IInv
  OBVIOUS
<1> USE DEF Init
<1>1. TypeOK
  BY LimitAssumption, ThreadsAssumption, FS_CardinalityType DEF TypeOK
<1>2. WaitersCounted
  BY FS_EmptySet DEF WaitersCounted, Counted
<1>3. ReadersCounted
  <2>1. ReadLocks = {}
    BY PairsFinite DEF ReadLocks
  <2> QED BY <2>1, FS_EmptySet DEF ReadersCounted
<1>4. WriterAlone
  BY DEF WriterAlone, Writers, Readers
<1>5. WriterKnown
  BY NoOwnerAssumption DEF WriterKnown, Waiters
<1> QED
  BY <1>1, <1>2, <1>3, <1>4, <1>5
     DEF IInv, RecursiveReadNeverWaits, NoLostWakeup, BumpPending, Sleepers

\* The set of read locks of a lock is finite, and a thread has no more of them
\* than there are.
LEMMA ReadLocksFinite ==
  ASSUME TypeOK
  PROVE  /\ IsFiniteSet(ReadLocks) /\ Cardinality(ReadLocks) \in Nat
         /\ \A t \in Threads : held[t] > 0 => held[t] <= Cardinality(ReadLocks)
<1>1. Pairs = Threads \X (1..MaxReaders) /\ IsFiniteSet(Pairs)
  BY PairsFinite
<1>2. IsFiniteSet(ReadLocks) /\ Cardinality(ReadLocks) \in Nat
  BY <1>1, FS_Subset, FS_CardinalityType DEF ReadLocks
<1>3. ASSUME NEW t \in Threads, held[t] > 0
      PROVE  held[t] <= Cardinality(ReadLocks)
  <2>1. held[t] \in 1..MaxReaders
    BY <1>3, LimitAssumption DEF TypeOK
  <2> DEFINE Own == {t} \X (1..held[t])
  <2>2. Own \subseteq ReadLocks
    BY <1>1, <2>1, LimitAssumption DEF ReadLocks
  <2>3. Cardinality(Own) = held[t]
    <3>1. IsFiniteSet(1..held[t]) /\ Cardinality(1..held[t]) = held[t]
      BY <2>1, FS_Interval
    <3>2. IsFiniteSet({t}) /\ Cardinality({t}) = 1
      BY FS_Singleton
    <3>3. Cardinality(Own) = Cardinality({t}) * Cardinality(1..held[t])
      BY <3>1, <3>2, FS_Product
    <3> HIDE DEF Own
    <3> QED BY <2>1, <3>1, <3>2, <3>3
  <2> HIDE DEF Own
  <2> QED BY <1>2, <2>2, <2>3, FS_Subset
<1> QED BY <1>2, <1>3

\* The word is 0 exactly when nobody reads.
LEMMA NoReadLocks ==
  ASSUME NEW h \in [Threads -> -1..MaxReaders]
  PROVE  Cardinality({r \in Pairs : r[2] <= h[r[1]]}) = 0
           <=> \A t \in Threads : h[t] <= 0
<1> DEFINE R == {r \in Pairs : r[2] <= h[r[1]]}
<1>1. Pairs = Threads \X (1..MaxReaders) /\ IsFiniteSet(Pairs)
  BY PairsFinite
<1>2. IsFiniteSet(R)
  BY <1>1, FS_Subset
<1>3. R = {} <=> \A t \in Threads : h[t] <= 0
  <2>1. ASSUME NEW t \in Threads, ~(h[t] <= 0) PROVE <<t, 1>> \in R
    BY <1>1, <2>1, LimitAssumption
  <2>2. ASSUME NEW r \in R PROVE r[1] \in Threads /\ ~(h[r[1]] <= 0)
    BY <1>1, <2>2, LimitAssumption
  <2> HIDE DEF R
  <2> QED BY <2>1, <2>2
<1> HIDE DEF R
<1>4. Cardinality(R) = 0 <=> R = {}
  BY <1>2, FS_EmptySet
<1> QED BY <1>3, <1>4 DEF R

\* A read lock taken is one pair more.
LEMMA ReadLockAdded ==
  ASSUME TypeOK, NEW t \in Threads, held[t] >= 0, held[t] < MaxReaders,
         held' = [held EXCEPT ![t] = @ + 1]
  PROVE  Cardinality(ReadLocks') = Cardinality(ReadLocks) + 1
<1> DEFINE r == <<t, held[t] + 1>>
<1>1. ReadLocks' = ReadLocks \cup {r} /\ r \notin ReadLocks
  BY PairsFinite, LimitAssumption DEF ReadLocks, TypeOK
<1> HIDE DEF r
<1> QED BY <1>1, ReadLocksFinite, FS_AddElement

\* A read lock given back is one pair fewer.
LEMMA ReadLockRemoved ==
  ASSUME TypeOK, NEW t \in Threads, held[t] > 0,
         held' = [held EXCEPT ![t] = @ - 1]
  PROVE  Cardinality(ReadLocks') = Cardinality(ReadLocks) - 1
<1> DEFINE r == <<t, held[t]>>
<1>1. ReadLocks' = ReadLocks \ {r} /\ r \in ReadLocks
  BY PairsFinite, LimitAssumption DEF ReadLocks, TypeOK
<1> HIDE DEF r
<1> QED BY <1>1, ReadLocksFinite, FS_RemoveElement

\* Sets of threads are finite, and so are their sizes.
LEMMA ThreadSets ==
  ASSUME NEW S \in SUBSET Threads
  PROVE  IsFiniteSet(S) /\ Cardinality(S) \in 0..Cardinality(Threads)
  BY ThreadsAssumption, FS_Subset, FS_CardinalityType

\* __wwait counts the waiters on the way to, in and from the futex wait, and is positive
\* while somebody sleeps.
LEMMA StepCounted ==
  ASSUME TypeOK, WaitersCounted, Next
  PROVE  /\ WaitersCounted' /\ wwait' \in 0..Cardinality(Threads)
         /\ Sleepers' # {} => wwait' > 0
<1> USE DEF TypeOK, Goto
<1>0. /\ IsFiniteSet(Counted)
      /\ Cardinality(Counted') \in 0..Cardinality(Threads)
  BY ThreadSets DEF Counted
<1>1. WaitersCounted'
  <2>1. PICK t \in Threads : \/ \E m \in {"read", "write"} : LockCall(t, m) \/ TryLock(t, m)
                            \/ UnlockWriter(t) \/ UnlockReader(t) \/ Interrupted(t)
                            \/ Running(t)
    BY DEF Next
  <2>2. CASE IncWaiters(t)
    <3>1. Counted' = Counted \cup {t} /\ t \notin Counted
      BY <2>2 DEF IncWaiters, Counted
    <3> QED BY <1>0, <2>2, <3>1, FS_AddElement DEF IncWaiters, WaitersCounted
  <2>3. CASE DecWaiters(t)
    <3>1. Counted' = Counted \ {t} /\ t \in Counted
      BY <2>3 DEF DecWaiters, Counted
    <3> QED BY <1>0, <2>3, <3>1, FS_RemoveElement DEF DecWaiters, WaitersCounted
  <2>4. CASE ~IncWaiters(t) /\ ~DecWaiters(t)
    <3>1. Counted' = Counted /\ wwait' = wwait
      BY <2>1, <2>4
         DEF LockCall, TryLock, Try, Enter, UnlockWriter, UnlockReader, Interrupted, Running,
             LoadSeq, SetWriter, FutexWait, StoreFree, BumpSeq, CheckWaiters, FutexWake,
             Sleepers, Counted
    <3> QED BY <3>1 DEF WaitersCounted
  <2> QED BY <2>2, <2>3, <2>4
<1>2. Sleepers' # {} => Counted' # {}
  BY DEF Sleepers, Counted
<1>3. IsFiniteSet(Counted')
  BY ThreadSets DEF Counted
<1> QED BY <1>0, <1>1, <1>2, <1>3, FS_EmptySet DEF WaitersCounted

\* rw_try's exchange by a thread that may ask, whether inside rw_lock or not.
LEMMA EnterKeeps ==
  ASSUME IInv, NEW t \in Threads, NEW m \in {"read", "write"},
         pc[t] \in {"idle", "try"}, MayAsk(t, m), ~Busy(m), Enter(t, m), writer' = writer
  PROVE  /\ lock' \in -1..MaxReaders /\ held' \in [Threads -> -1..MaxReaders]
         /\ WriterAlone' /\ ReadersCounted'
<1> USE LimitAssumption DEF IInv, TypeOK, Goto, Busy, Enter, MayAsk
<1>1. CASE m = "write"
  <2>1. lock' = -1 /\ held' = [held EXCEPT ![t] = -1] /\ Readers = {} /\ Writers = {}
    BY <1>1 DEF WriterAlone
  <2>2. \A u \in Threads : held[u] = 0
    BY <2>1 DEF Readers, Writers
  <2>3. WriterAlone'
    BY <2>1, <2>2 DEF WriterAlone, Readers, Writers
  <2>4. ReadersCounted'
    BY <2>1 DEF ReadersCounted
  <2>5. held' \in [Threads -> -1..MaxReaders]
    BY <2>1
  <2> QED BY <2>1, <2>3, <2>4, <2>5
<1>2. CASE m = "read"
  <2>1. lock' = lock + 1 /\ held' = [held EXCEPT ![t] = @ + 1] /\ lock >= 0 /\ lock < MaxReaders
    BY <1>2
  <2>2. held[t] >= 0 /\ held[t] <= lock
    <3>1. lock = Cardinality(ReadLocks) /\ Writers = {}
      BY <2>1 DEF ReadersCounted, WriterAlone
    <3> QED BY <2>1, <3>1, ReadLocksFinite DEF Writers
  <2>3. held' \in [Threads -> -1..MaxReaders]
    BY <2>1, <2>2
  <2>4. ReadersCounted'
    <3>1. held[t] < MaxReaders
      BY <2>1, <2>2
    <3>2. Cardinality(ReadLocks') = Cardinality(ReadLocks) + 1
      BY <2>1, <2>2, <3>1, ReadLockAdded
    <3> QED BY <2>1, <3>2 DEF ReadersCounted
  <2>5. WriterAlone'
    BY <2>1, <2>2 DEF WriterAlone, Readers, Writers
  <2> QED BY <2>1, <2>3, <2>4, <2>5
<1> QED BY <1>1, <1>2

\* A step of thread t keeps the invariant.  StepCounted gives the part about __wwait.
LEMMA StepIInv ==
  ASSUME IInv, NEW t \in Threads,
         WaitersCounted', wwait' \in 0..Cardinality(Threads), Sleepers' # {} => wwait' > 0,
         \/ \E m \in {"read", "write"} : LockCall(t, m) \/ TryLock(t, m)
         \/ UnlockWriter(t) \/ UnlockReader(t) \/ Interrupted(t) \/ Running(t)
  PROVE  IInv'
<1> USE LimitAssumption, NoOwnerAssumption DEF IInv, TypeOK, Goto
<1>1. ASSUME NEW m \in {"read", "write"}, LockCall(t, m)
      PROVE  IInv'
  <2>1. TypeOK' /\ WriterAlone' /\ ReadersCounted'
    BY <1>1 DEF LockCall, WriterAlone, Readers, Writers, ReadersCounted, ReadLocks, MayAsk
  <2>2. RecursiveReadNeverWaits' /\ WriterKnown'
    BY <1>1 DEF LockCall, RecursiveReadNeverWaits, WriterKnown, Waiters, MayAsk
  <2>3. NoLostWakeup' /\ BumpPending'
    BY <1>1 DEF LockCall, NoLostWakeup, BumpPending, Available, Sleepers, MayAsk
  <2> QED BY <2>1, <2>2, <2>3
<1>2. ASSUME LoadSeq(t)
      PROVE  IInv'
  <2>1. TypeOK' /\ WriterAlone' /\ ReadersCounted'
    BY <1>2 DEF LoadSeq, WriterAlone, Readers, Writers, ReadersCounted, ReadLocks
  <2>2. RecursiveReadNeverWaits' /\ WriterKnown'
    BY <1>2 DEF LoadSeq, RecursiveReadNeverWaits, WriterKnown, Waiters
  <2>3. NoLostWakeup' /\ BumpPending'
    BY <1>2 DEF LoadSeq, NoLostWakeup, BumpPending, Available, Sleepers
  <2> QED BY <2>1, <2>2, <2>3
<1>3. ASSUME IncWaiters(t)
      PROVE  IInv'
  <2>1. TypeOK' /\ WriterAlone' /\ ReadersCounted'
    BY <1>3 DEF IncWaiters, WriterAlone, Readers, Writers, ReadersCounted, ReadLocks
  <2>2. RecursiveReadNeverWaits' /\ WriterKnown'
    BY <1>3 DEF IncWaiters, RecursiveReadNeverWaits, WriterKnown, Waiters
  <2>3. NoLostWakeup' /\ BumpPending'
    BY <1>3 DEF IncWaiters, NoLostWakeup, BumpPending, Available, Sleepers
  <2> QED BY <2>1, <2>2, <2>3
<1>4. ASSUME FutexWait(t)
      PROVE  IInv'
  <2>1. TypeOK' /\ WriterAlone' /\ ReadersCounted'
    BY <1>4 DEF FutexWait, WriterAlone, Readers, Writers, ReadersCounted, ReadLocks
  <2>2. RecursiveReadNeverWaits' /\ WriterKnown'
    BY <1>4 DEF FutexWait, RecursiveReadNeverWaits, WriterKnown, Waiters
  <2>3. NoLostWakeup' /\ BumpPending'
    BY <1>4 DEF FutexWait, NoLostWakeup, BumpPending, Available, Sleepers
  <2> QED BY <2>1, <2>2, <2>3
<1>5. ASSUME Interrupted(t)
      PROVE  IInv'
  <2>1. TypeOK' /\ WriterAlone' /\ ReadersCounted'
    BY <1>5 DEF Interrupted, WriterAlone, Readers, Writers, ReadersCounted, ReadLocks
  <2>2. RecursiveReadNeverWaits' /\ WriterKnown'
    BY <1>5 DEF Interrupted, RecursiveReadNeverWaits, WriterKnown, Waiters
  <2>3. NoLostWakeup' /\ BumpPending'
    BY <1>5 DEF Interrupted, NoLostWakeup, BumpPending, Available, Sleepers
  <2> QED BY <2>1, <2>2, <2>3
<1>6. ASSUME DecWaiters(t)
      PROVE  IInv'
  <2>1. TypeOK' /\ WriterAlone' /\ ReadersCounted'
    BY <1>6 DEF DecWaiters, WriterAlone, Readers, Writers, ReadersCounted, ReadLocks
  <2>2. RecursiveReadNeverWaits' /\ WriterKnown'
    BY <1>6 DEF DecWaiters, RecursiveReadNeverWaits, WriterKnown, Waiters
  <2>3. NoLostWakeup' /\ BumpPending'
    BY <1>6 DEF DecWaiters, NoLostWakeup, BumpPending, Available, Sleepers
  <2> QED BY <2>1, <2>2, <2>3
<1>7. ASSUME BumpSeq(t)
      PROVE  IInv'
  <2>1. TypeOK' /\ WriterAlone' /\ ReadersCounted'
    BY <1>7 DEF BumpSeq, WriterAlone, Readers, Writers, ReadersCounted, ReadLocks, NoWrap
  <2>2. RecursiveReadNeverWaits' /\ WriterKnown'
    BY <1>7 DEF BumpSeq, RecursiveReadNeverWaits, WriterKnown, Waiters, NoWrap
  <2>3. NoLostWakeup' /\ BumpPending'
    BY <1>7 DEF BumpSeq, NoLostWakeup, BumpPending, Available, Sleepers, NoWrap
  <2> QED BY <2>1, <2>2, <2>3
<1>8. ASSUME CheckWaiters(t)
      PROVE  IInv'
  <2>1. TypeOK' /\ WriterAlone' /\ ReadersCounted'
    BY <1>8 DEF CheckWaiters, WriterAlone, Readers, Writers, ReadersCounted, ReadLocks
  <2>2. RecursiveReadNeverWaits' /\ WriterKnown'
    BY <1>8 DEF CheckWaiters, RecursiveReadNeverWaits, WriterKnown, Waiters
  <2>3. NoLostWakeup' /\ BumpPending'
    BY <1>8 DEF CheckWaiters, NoLostWakeup, BumpPending, Available, Sleepers
  <2> QED BY <2>1, <2>2, <2>3
<1>9. ASSUME FutexWake(t)
      PROVE  IInv'
  <2>1. TypeOK' /\ WriterAlone' /\ ReadersCounted'
    BY <1>9 DEF FutexWake, WriterAlone, Readers, Writers, ReadersCounted, ReadLocks, Sleepers
  <2>2. RecursiveReadNeverWaits' /\ WriterKnown'
    BY <1>9 DEF FutexWake, RecursiveReadNeverWaits, WriterKnown, Waiters, Sleepers
  <2>3. NoLostWakeup' /\ BumpPending'
    BY <1>9 DEF FutexWake, NoLostWakeup, BumpPending, Available, Sleepers, Sleepers
  <2> QED BY <2>1, <2>2, <2>3
<1>10. ASSUME NEW m \in {"read", "write"}, TryLock(t, m)
      PROVE  IInv'
  <2>0. pc[t] \in {"idle", "try"} /\ MayAsk(t, m) /\ ~Busy(m) /\ Enter(t, m) /\ writer' = writer
    BY <1>10 DEF TryLock
  <2>1. TypeOK' /\ WriterAlone' /\ ReadersCounted'
    <3>1. /\ lock' \in -1..MaxReaders /\ held' \in [Threads -> -1..MaxReaders]
          /\ WriterAlone' /\ ReadersCounted'
      BY <2>0, EnterKeeps
    <3> QED BY <1>10, <3>1 DEF TryLock, Enter
  <2>2. WriterKnown'
    BY <1>10 DEF TryLock, Busy, Enter, MayAsk, WriterAlone, Readers, Writers, WriterKnown, Waiters
  <2>3. RecursiveReadNeverWaits'
    BY <1>10 DEF TryLock, Busy, Enter, MayAsk, WriterAlone, Readers, Writers, RecursiveReadNeverWaits
  <2>4. NoLostWakeup' /\ BumpPending'
    BY <1>10 DEF TryLock, Busy, Enter, NoLostWakeup, BumpPending, Available, Sleepers
  <2> QED BY <2>1, <2>2, <2>3, <2>4
<1>11. ASSUME Try(t)
      PROVE  IInv'
  <2>1. TypeOK' /\ WriterAlone' /\ ReadersCounted'
    <3>1. CASE Busy(mode[t])
      BY <1>11, <3>1 DEF Try, WriterAlone, Readers, Writers, ReadersCounted, ReadLocks
    <3>2. CASE ~Busy(mode[t])
      <4>1. MayAsk(t, mode[t])
        BY <1>11 DEF Try, MayAsk, WriterKnown, Waiters
      <4>2. /\ lock' \in -1..MaxReaders /\ held' \in [Threads -> -1..MaxReaders]
            /\ WriterAlone' /\ ReadersCounted'
        BY <1>11, <3>2, <4>1, EnterKeeps DEF Try
      <4> QED BY <1>11, <3>2, <4>2 DEF Try, Enter
    <3> QED BY <3>1, <3>2
  <2>2. WriterKnown'
    BY <1>11 DEF Try, Busy, Enter, MayAsk, WriterAlone, Readers, Writers, WriterKnown, Waiters
  <2>3. RecursiveReadNeverWaits'
    <3>1. held[t] > 0 /\ Busy(mode[t]) => lock = MaxReaders
      BY <1>11 DEF Try, Busy, WriterAlone, Readers, WriterKnown, Waiters
    <3> QED BY <1>11, <3>1 DEF Try, Busy, Enter, RecursiveReadNeverWaits
  <2>4. NoLostWakeup' /\ BumpPending'
    BY <1>11 DEF Try, Busy, Enter, NoLostWakeup, BumpPending, Available, Sleepers
  <2> QED BY <2>1, <2>2, <2>3, <2>4
<1>12. ASSUME SetWriter(t)
      PROVE  IInv'
  <2>1. TypeOK' /\ WriterAlone' /\ ReadersCounted'
    BY <1>12 DEF SetWriter, WriterAlone, Readers, Writers, ReadersCounted, ReadLocks
  <2>2. RecursiveReadNeverWaits' /\ WriterKnown'
    BY <1>12 DEF SetWriter, RecursiveReadNeverWaits, WriterKnown, Waiters, WriterAlone, Readers, Writers
  <2>3. NoLostWakeup' /\ BumpPending'
    BY <1>12 DEF SetWriter, NoLostWakeup, BumpPending, Available, Sleepers
  <2> QED BY <2>1, <2>2, <2>3
<1>13. ASSUME UnlockWriter(t)
      PROVE  IInv'
  <2>1. TypeOK' /\ WriterAlone' /\ ReadersCounted'
    BY <1>13 DEF UnlockWriter, WriterAlone, Readers, Writers, ReadersCounted, ReadLocks
  <2>2. RecursiveReadNeverWaits' /\ WriterKnown'
    BY <1>13 DEF UnlockWriter, RecursiveReadNeverWaits, WriterKnown, Waiters
  <2>3. NoLostWakeup' /\ BumpPending'
    BY <1>13 DEF UnlockWriter, NoLostWakeup, BumpPending, Available, Sleepers
  <2> QED BY <2>1, <2>2, <2>3
<1>14. ASSUME StoreFree(t)
      PROVE  IInv'
  <2>1. \A u \in Threads : held'[u] = 0
    BY <1>14 DEF StoreFree, WriterAlone, Readers, Writers, WriterKnown, Waiters
  <2>2. TypeOK' /\ WriterAlone'
    BY <1>14, <2>1 DEF StoreFree, WriterAlone, Readers, Writers
  <2>3. ReadersCounted'
    <3>1. held' \in [Threads -> -1..MaxReaders] /\ \A u \in Threads : held'[u] <= 0
      BY <2>1, <2>2
    <3>2. Cardinality(ReadLocks') = 0
      BY <3>1, NoReadLocks DEF ReadLocks
    <3> QED BY <1>14, <3>2 DEF StoreFree, ReadersCounted
  <2>4. RecursiveReadNeverWaits' /\ WriterKnown'
    BY <1>14, <2>1 DEF StoreFree, RecursiveReadNeverWaits, WriterKnown, Waiters
  <2>5. NoLostWakeup' /\ BumpPending'
    BY <1>14 DEF StoreFree, NoLostWakeup, BumpPending, Available, Sleepers
  <2> QED BY <2>1, <2>2, <2>3, <2>4, <2>5
<1>15. ASSUME UnlockReader(t)
      PROVE  IInv'
  <2>1. lock > 0 /\ lock' >= 0 /\ ReadersCounted'
    <3>1. lock > 0 /\ lock' = lock - 1
      BY <1>15 DEF UnlockReader, WriterAlone, Readers
    <3>2. Cardinality(ReadLocks') = Cardinality(ReadLocks) - 1
      BY <1>15, ReadLockRemoved DEF UnlockReader
    <3> QED BY <3>1, <3>2 DEF ReadersCounted
  <2>2. TypeOK'
    BY <1>15, <2>1 DEF UnlockReader
  <2>3. WriterAlone'
    <3>1. lock' = 0 <=> Readers' = {}
      BY <2>1, <2>2, NoReadLocks DEF ReadersCounted, ReadLocks, Readers
    <3> QED BY <1>15, <2>1, <2>2, <3>1 DEF UnlockReader, WriterAlone, Readers, Writers
  <2>4. RecursiveReadNeverWaits' /\ WriterKnown'
    BY <1>15, <2>1 DEF UnlockReader, RecursiveReadNeverWaits, WriterKnown, Waiters
  <2>5. NoLostWakeup' /\ BumpPending'
    BY <1>15 DEF UnlockReader, NoLostWakeup, BumpPending, Available, Sleepers
  <2> QED BY <2>1, <2>2, <2>3, <2>4, <2>5
<1> QED BY <1>1, <1>2, <1>3, <1>4, <1>5, <1>6, <1>7, <1>8, <1>9, <1>10, <1>11, <1>12, <1>13, <1>14, <1>15 DEF Running

\* The inductive invariant of the read-write lock, for any finite set of threads, any
\* MAX_READERS and any width of __seq: what rw_lock, rw_try and unlock do keeps it.
THEOREM Invariance == Spec => []IInv
<1>1. IInv /\ [Next]_vars => IInv'
  <2> SUFFICES ASSUME IInv, [Next]_vars PROVE IInv'
    OBVIOUS
  <2>1. CASE Next
    <3>1. PICK t \in Threads : \/ \E m \in {"read", "write"} : LockCall(t, m) \/ TryLock(t, m)
                              \/ UnlockWriter(t) \/ UnlockReader(t) \/ Interrupted(t)
                              \/ Running(t)
      BY <2>1 DEF Next
    <3>2. /\ WaitersCounted' /\ wwait' \in 0..Cardinality(Threads)
          /\ Sleepers' # {} => wwait' > 0
      BY <2>1, StepCounted DEF IInv
    <3> QED BY <3>1, <3>2, StepIInv
  <2>2. CASE UNCHANGED vars
    BY <2>2 DEF vars, IInv, TypeOK, WriterAlone, Readers, Writers, RecursiveReadNeverWaits, NoLostWakeup, Available,
                Sleepers, WaitersCounted, Counted, ReadersCounted, ReadLocks, WriterKnown, Waiters, BumpPending
  <2> QED BY <2>1, <2>2
<1> QED BY InitIInv, <1>1, PTL DEF Spec
=============================================================================
