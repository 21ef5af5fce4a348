----------------------------- MODULE LocksProofs -----------------------------
(***************************************************************************)
(* Proofs about the mutex, for any set of threads, any limit of the count  *)
(* and every mutex type, and about the internal lock for any set of        *)
(* threads: their inductive invariants, and that both implement the safety *)
(* part of the abstract lock.                                              *)
(***************************************************************************)
EXTENDS MCLocks, TLAPS

-----------------------------------------------------------------------------
(* pthread_mutex_* *)

\* A mutex as pthread_mutex_init leaves it.
LEMMA InitIInv == Init => IInv
  BY NoOwnerAssumption, MaxCountAssumption
     DEF Init, IInv, TypeOK, MutualExclusion, WordTellsHolder, OwnerMatchesHolder,
         NoLostWakeup, NoSelfDeadlock, Holders, Sleepers, Types, Calls, Locations

\* The thread whose unlock succeeds is the holder, its depth is the count, and
\* it is the last level unless the mutex is recursive.
LEMMA UnlockByHolder ==
  ASSUME IInv, NEW t \in Threads, Unlock(t)
  PROVE  /\ owner = t /\ depth[t] = count /\ count > 0 /\ lock # 0
         /\ Holders = {t}
         /\ ~UnlockKeeps(t) => depth[t] = 1
<1> USE DEF IInv, TypeOK
<1>1. lock # 0 /\ owner = t
  BY DEF Unlock, MayUnlock, UnlockFails, OwnerMatchesHolder
<1>2. depth[t] = count
  BY <1>1 DEF OwnerMatchesHolder
<1>3. t \in Holders
  <2>1. Holders # {}
    BY <1>1, NoOwnerAssumption DEF OwnerMatchesHolder
  <2>2. PICK s \in Threads : s \in Holders
    BY <2>1 DEF Holders
  <2>3. CASE depth[s] > 0
    BY <1>1, <2>2, <2>3 DEF OwnerMatchesHolder
  <2>4. CASE pc[s] \in {"own", "free"}
    BY <1>1, <2>4, NoOwnerAssumption DEF OwnerMatchesHolder
  <2>5. QED BY <2>2, <2>3, <2>4 DEF Holders
<1>4. Holders = {t}
  BY <1>3 DEF MutualExclusion
<1>5. pc[t] = "idle"
  BY DEF Unlock
<1>6. depth[t] > 0
  BY <1>3, <1>5 DEF Holders
<1>7. ~UnlockKeeps(t) => depth[t] = 1
  BY <1>2, <1>6 DEF UnlockKeeps, OwnerMatchesHolder
<1>8. QED BY <1>1, <1>2, <1>4, <1>6, <1>7

\* How each step changes the set of holders and the word.
LEMMA StepEffect ==
  ASSUME IInv, NEW t \in Threads, LockStep(t) \/ UnlockStep(t)
  PROVE  \/ Holders' = Holders /\ (lock' = lock \/ (lock # 0 /\ lock' # 0))
         \/ Holders = {} /\ Holders' = {t} /\ lock' # 0
         \/ t \in Holders /\ Holders' = Holders \ {t} /\ lock' = 0
<1> USE DEF IInv, TypeOK, Goto, Holders
<1>1. ASSUME NEW c \in Calls, LockOwned(t, c)
      PROVE  Holders' = Holders /\ lock' = lock
  <2>1. depth[t] = count /\ count \in Nat
    BY <1>1 DEF LockOwned, Relocks, OwnerMatchesHolder
  <2>2. t \in Holders
    <3>1. Holders # {} /\ owner = t
      BY <1>1, NoOwnerAssumption DEF LockOwned, Relocks, OwnerMatchesHolder
    <3>2. PICK s \in Threads : s \in Holders
      BY <3>1
    <3>3. QED BY <3>1, <3>2, NoOwnerAssumption DEF OwnerMatchesHolder
  <2>3. QED BY <1>1, <2>1, <2>2 DEF LockOwned
<1>2. ASSUME NEW c \in Calls, LockFirst(t, c)
      PROVE  \/ Holders' = Holders /\ lock' = lock
             \/ Holders = {} /\ Holders' = {t} /\ lock' # 0
  BY <1>2 DEF LockFirst, WordTellsHolder
<1>3. ASSUME Exchange(t)
      PROVE  \/ Holders' = Holders /\ lock # 0 /\ lock' # 0
             \/ Holders = {} /\ Holders' = {t} /\ lock' # 0
  BY <1>3 DEF Exchange, WordTellsHolder
<1>4. ASSUME FutexWait(t) \/ Interrupted(t) \/ TimedOut(t) \/ TakeOwnership(t)
      PROVE  Holders' = Holders /\ lock' = lock
  BY <1>4 DEF FutexWait, Interrupted, TimedOut, TakeOwnership
<1>5. ASSUME Unlock(t) PROVE Holders' = Holders /\ lock' = lock
  <2>1. /\ depth[t] = count /\ count > 0
        /\ ~UnlockKeeps(t) => depth[t] = 1
    BY <1>5, UnlockByHolder
  <2>2. CASE UnlockKeeps(t)
    BY <1>5, <2>1, <2>2 DEF Unlock, UnlockKeeps
  <2>3. CASE ~UnlockKeeps(t)
    BY <1>5, <2>1, <2>3 DEF Unlock
  <2>4. QED BY <2>2, <2>3
<1>6. ASSUME ReleaseWord(t)
      PROVE  t \in Holders /\ Holders' = Holders \ {t} /\ lock' = 0
  BY <1>6 DEF ReleaseWord, OwnerMatchesHolder
<1>7. ASSUME FutexWake(t) PROVE Holders' = Holders /\ lock' = lock
  BY <1>7 DEF FutexWake, Sleepers
<1>8. QED
  BY <1>1, <1>2, <1>3, <1>4, <1>5, <1>6, <1>7 DEF LockStep, UnlockStep

\* Every step keeps the word, the owner, the count and the program counters in range.
LEMMA NextTypeOK == IInv /\ [Next]_vars => TypeOK'
<1> SUFFICES ASSUME IInv, [Next]_vars PROVE TypeOK'
  OBVIOUS
<1> USE MaxCountAssumption DEF IInv, TypeOK, Goto, Locations, Types
<1>1. ASSUME NEW t \in Threads, NEW c \in Calls, LockOwned(t, c) \/ LockFirst(t, c)
      PROVE  TypeOK'
  BY <1>1 DEF LockOwned, LockFirst
<1>2. ASSUME NEW t \in Threads,
             Exchange(t) \/ FutexWait(t) \/ Interrupted(t) \/ TimedOut(t)
      PROVE  TypeOK'
  BY <1>2 DEF Exchange, FutexWait, Interrupted, TimedOut
<1>3. ASSUME NEW t \in Threads, TakeOwnership(t) PROVE TypeOK'
  BY <1>3 DEF TakeOwnership
<1>4. ASSUME NEW t \in Threads, Unlock(t) PROVE TypeOK'
  <2>1. depth[t] = count /\ count > 0
    BY <1>4, UnlockByHolder
  <2>2. QED BY <1>4, <2>1 DEF Unlock
<1>5. ASSUME NEW t \in Threads, ReleaseWord(t) \/ FutexWake(t) PROVE TypeOK'
  BY <1>5 DEF ReleaseWord, FutexWake, Sleepers
<1>6. CASE UNCHANGED vars
  BY <1>6 DEF vars
<1>7. QED BY <1>1, <1>2, <1>3, <1>4, <1>5, <1>6 DEF Next, LockStep, UnlockStep

\* One holder at most, and a word that tells whether there is one.
LEMMA NextExclusion == IInv /\ [Next]_vars => (MutualExclusion /\ WordTellsHolder)'
<1> SUFFICES ASSUME IInv, [Next]_vars PROVE (MutualExclusion /\ WordTellsHolder)'
  OBVIOUS
<1>1. ASSUME NEW t \in Threads, LockStep(t) \/ UnlockStep(t)
      PROVE  (MutualExclusion /\ WordTellsHolder)'
  <2>1. MutualExclusion /\ WordTellsHolder
    BY DEF IInv
  <2>2. QED BY <1>1, <2>1, StepEffect DEF MutualExclusion, WordTellsHolder
<1>2. CASE UNCHANGED vars
  BY <1>2 DEF vars, IInv, MutualExclusion, WordTellsHolder, Holders
<1>3. QED BY <1>1, <1>2 DEF Next

\* A thread that holds the word alone writes owner and count alone.
LEMMA NextOwner == IInv /\ [Next]_vars => OwnerMatchesHolder'
<1> SUFFICES ASSUME IInv, [Next]_vars PROVE OwnerMatchesHolder'
  OBVIOUS
<1> USE NoOwnerAssumption DEF IInv, TypeOK, Goto, OwnerMatchesHolder
<1>1. ASSUME NEW t \in Threads, NEW c \in Calls, LockOwned(t, c)
      PROVE  OwnerMatchesHolder'
  <2>1. owner = t /\ depth[t] = count /\ pc[t] = "idle"
    BY <1>1 DEF LockOwned, Relocks
  <2>2. \A s \in Threads : s # t => depth[s] = 0
    BY <2>1
  <2>3. Holders' # {} \/ owner' = NoOwner
    BY <1>1, <2>1 DEF LockOwned, Holders
  <2>4. QED BY <1>1, <2>1, <2>2, <2>3 DEF LockOwned
<1>2. ASSUME NEW t \in Threads, NEW c \in Calls, LockFirst(t, c)
      PROVE  OwnerMatchesHolder'
  <2>1. lock = 0 => Holders = {} /\ owner = NoOwner
    BY DEF WordTellsHolder
  <2>2. QED BY <1>2, <2>1 DEF LockFirst, Holders
<1>3. ASSUME NEW t \in Threads, Exchange(t) PROVE OwnerMatchesHolder'
  <2>1. lock = 0 => Holders = {} /\ owner = NoOwner
    BY DEF WordTellsHolder
  <2>2. QED BY <1>3, <2>1 DEF Exchange, Holders
<1>4. ASSUME NEW t \in Threads, FutexWait(t) \/ Interrupted(t) \/ TimedOut(t)
      PROVE  OwnerMatchesHolder'
  BY <1>4 DEF FutexWait, Interrupted, TimedOut, Holders
<1>5. ASSUME NEW t \in Threads, TakeOwnership(t) PROVE OwnerMatchesHolder'
  <2>1. depth[t] = 0 /\ t \in Holders
    BY <1>5 DEF TakeOwnership, Holders
  <2>2. \A s \in Threads : s # t => depth[s] = 0 /\ pc[s] \notin {"own", "free"}
    BY <2>1 DEF MutualExclusion, Holders
  <2>3. QED BY <1>5, <2>1, <2>2 DEF TakeOwnership, Holders
<1>6. ASSUME NEW t \in Threads, Unlock(t) PROVE OwnerMatchesHolder'
  <2>1. /\ owner = t /\ depth[t] = count /\ count > 0 /\ Holders = {t}
        /\ ~UnlockKeeps(t) => depth[t] = 1
    BY <1>6, UnlockByHolder
  <2>2. \A s \in Threads : s # t => depth[s] = 0 /\ pc[s] \notin {"own", "free"}
    BY <2>1 DEF Holders
  <2>3. CASE UnlockKeeps(t)
    BY <1>6, <2>1, <2>2, <2>3 DEF Unlock, UnlockKeeps, Holders
  <2>4. CASE ~UnlockKeeps(t)
    BY <1>6, <2>1, <2>2, <2>4 DEF Unlock
  <2>5. QED BY <2>3, <2>4
<1>7. ASSUME NEW t \in Threads, ReleaseWord(t) \/ FutexWake(t)
      PROVE  OwnerMatchesHolder'
  BY <1>7 DEF ReleaseWord, FutexWake, Sleepers, Holders
<1>8. CASE UNCHANGED vars
  BY <1>8 DEF vars, Holders
<1>9. QED
  BY <1>1, <1>2, <1>3, <1>4, <1>5, <1>6, <1>7, <1>8 DEF Next, LockStep, UnlockStep

\* The exchange with 2 marks the word again for every sleeper left behind.
LEMMA NextNoLostWakeup == IInv /\ [Next]_vars => NoLostWakeup'
<1> SUFFICES ASSUME IInv, [Next]_vars PROVE NoLostWakeup'
  OBVIOUS
<1> USE DEF IInv, TypeOK, Goto, NoLostWakeup, Sleepers
<1>1. ASSUME NEW t \in Threads, NEW c \in Calls, LockOwned(t, c) \/ LockFirst(t, c)
      PROVE  NoLostWakeup'
  BY <1>1 DEF LockOwned, LockFirst
<1>2. ASSUME NEW t \in Threads,
             Exchange(t) \/ FutexWait(t) \/ Interrupted(t) \/ TimedOut(t)
      PROVE  NoLostWakeup'
  BY <1>2 DEF Exchange, FutexWait, Interrupted, TimedOut
<1>3. ASSUME NEW t \in Threads, TakeOwnership(t) \/ Unlock(t) PROVE NoLostWakeup'
  BY <1>3 DEF TakeOwnership, Unlock
<1>4. ASSUME NEW t \in Threads, ReleaseWord(t) \/ FutexWake(t) PROVE NoLostWakeup'
  BY <1>4 DEF ReleaseWord, FutexWake
<1>5. CASE UNCHANGED vars
  BY <1>5 DEF vars
<1>6. QED BY <1>1, <1>2, <1>3, <1>4, <1>5 DEF Next, LockStep, UnlockStep

\* Only a thread that does not own the mutex enters acquire.
LEMMA NextNoSelfDeadlock == IInv /\ [Next]_vars => NoSelfDeadlock'
<1> SUFFICES ASSUME IInv, [Next]_vars PROVE NoSelfDeadlock'
  OBVIOUS
<1> USE DEF IInv, TypeOK, Goto, NoSelfDeadlock
<1>1. ASSUME NEW t \in Threads, NEW c \in Calls, LockOwned(t, c) PROVE NoSelfDeadlock'
  BY <1>1 DEF LockOwned
<1>2. ASSUME NEW t \in Threads, NEW c \in Calls, LockFirst(t, c) PROVE NoSelfDeadlock'
  BY <1>2 DEF LockFirst, Relocks, OwnerMatchesHolder
<1>3. ASSUME NEW t \in Threads,
             Exchange(t) \/ FutexWait(t) \/ Interrupted(t) \/ TimedOut(t)
      PROVE  NoSelfDeadlock'
  BY <1>3 DEF Exchange, FutexWait, Interrupted, TimedOut
<1>4. ASSUME NEW t \in Threads, TakeOwnership(t) \/ Unlock(t) PROVE NoSelfDeadlock'
  BY <1>4 DEF TakeOwnership, Unlock
<1>5. ASSUME NEW t \in Threads, ReleaseWord(t) \/ FutexWake(t) PROVE NoSelfDeadlock'
  BY <1>5 DEF ReleaseWord, FutexWake, Sleepers
<1>6. CASE UNCHANGED vars
  BY <1>6 DEF vars
<1>7. QED BY <1>1, <1>2, <1>3, <1>4, <1>5, <1>6 DEF Next, LockStep, UnlockStep

\* The invariant of the mutex, for any threads, any limit of the count and every
\* type: all the parts of IInv hold in every reachable state.
THEOREM MutexInvariant == Spec => []IInv
<1>1. IInv /\ [Next]_vars => IInv'
  BY NextTypeOK, NextExclusion, NextOwner, NextNoLostWakeup, NextNoSelfDeadlock DEF IInv
<1>2. QED BY InitIInv, <1>1, PTL DEF Spec

\* One thread at a time holds a pthread mutex of any type.
THEOREM MutexExclusion == Spec => []MutualExclusion
  BY MutexInvariant, PTL DEF IInv

\* __owner and __count always agree with who holds the mutex and how often.
THEOREM MutexOwner == Spec => []OwnerMatchesHolder
  BY MutexInvariant, PTL DEF IInv

\* Every step of the mutex functions is a step or a stutter of the abstract lock;
\* a time-out is the withdrawal of a request.
THEOREM MutexRefinement == Spec => AbstractSafety
<1> DEFINE want == {t \in Threads : pc[t] \in {"xchg", "fwait", "sleep"} /\ depth[t] = 0}
<1>1. Init => Abstract!LockInit
  BY DEF Init, Abstract!LockInit, Holders
<1>2. IInv /\ [Next]_vars => [Abstract!LockNext]_(Abstract!lockVars)
  <2> SUFFICES ASSUME IInv, [Next]_vars
               PROVE  Abstract!LockNext \/ UNCHANGED Abstract!lockVars
    OBVIOUS
  <2> USE DEF IInv, TypeOK, Goto, Abstract!lockVars
  <2>2. ASSUME NEW t \in Threads, Holders = {}, Holders' = {t}, want' = want \ {t}
        PROVE  Abstract!LockNext
    BY <2>2 DEF Abstract!LockNext, Abstract!Acquire
  <2>3. ASSUME NEW t \in Threads, NEW c \in Calls, LockOwned(t, c)
        PROVE  UNCHANGED Abstract!lockVars
    <3>1. owner = t /\ depth[t] = count /\ pc[t] = "idle"
      BY <2>3 DEF LockOwned, Relocks, OwnerMatchesHolder
    <3>2. Holders' = Holders
      <4>1. t \in Holders
        <5>1. PICK s \in Threads : s \in Holders
          BY <3>1, NoOwnerAssumption DEF OwnerMatchesHolder, Holders
        <5>2. QED BY <3>1, <5>1, NoOwnerAssumption DEF OwnerMatchesHolder, Holders
      <4>2. QED BY <2>3, <3>1, <4>1 DEF LockOwned, Holders
    <3>3. want' = want
      BY <2>3, <3>1 DEF LockOwned
    <3>4. QED BY <3>2, <3>3
  <2>4. ASSUME NEW t \in Threads, NEW c \in Calls, LockFirst(t, c)
        PROVE  Abstract!LockNext \/ UNCHANGED Abstract!lockVars
    <3>1. CASE lock = 0
      <4>1. Holders = {} /\ Holders' = {t} /\ want' = want \ {t}
        BY <2>4, <3>1 DEF LockFirst, WordTellsHolder, Holders
      <4>2. QED BY <2>2, <4>1
    <3>2. CASE lock # 0
      <4>1. Holders' = Holders
        BY <2>4, <3>2 DEF LockFirst, Holders
      <4>2. t \notin want
        BY <2>4 DEF LockFirst
      <4>3. want' = want \/ (want' = want \cup {t} /\ depth[t] = 0)
        BY <2>4, <3>2 DEF LockFirst
      <4>4. depth[t] = 0 => t \notin Holders
        BY <2>4 DEF LockFirst, Holders
      <4>5. QED BY <4>1, <4>2, <4>3, <4>4 DEF Abstract!LockNext, Abstract!Request
    <3>3. QED BY <3>1, <3>2
  <2>5. ASSUME NEW t \in Threads, Exchange(t)
        PROVE  Abstract!LockNext \/ UNCHANGED Abstract!lockVars
    <3>1. CASE lock = 0
      <4>1. Holders = {} /\ Holders' = {t} /\ want' = want \ {t}
        BY <2>5, <3>1 DEF Exchange, WordTellsHolder, Holders
      <4>2. QED BY <2>2, <4>1
    <3>2. CASE lock # 0
      <4>1. Holders' = Holders /\ want' = want
        BY <2>5, <3>2 DEF Exchange, Holders
      <4>2. QED BY <4>1
    <3>3. QED BY <3>1, <3>2
  <2>6. ASSUME NEW t \in Threads, FutexWait(t) \/ Interrupted(t) \/ TakeOwnership(t)
        PROVE  UNCHANGED Abstract!lockVars
    <3>1. Holders' = Holders /\ want' = want
      BY <2>6 DEF FutexWait, Interrupted, TakeOwnership, Holders
    <3>2. QED BY <3>1
  <2>7. ASSUME NEW t \in Threads, TimedOut(t)
        PROVE  Abstract!LockNext \/ UNCHANGED Abstract!lockVars
    <3>1. Holders' = Holders /\ want' = want \ {t}
      BY <2>7 DEF TimedOut, Holders
    <3>2. QED BY <3>1 DEF Abstract!LockNext, Abstract!Withdraw
  <2>8. ASSUME NEW t \in Threads, Unlock(t) PROVE UNCHANGED Abstract!lockVars
    <3>1. Holders' = Holders
      <4>1. /\ depth[t] = count /\ count > 0
            /\ ~UnlockKeeps(t) => depth[t] = 1
        BY <2>8, UnlockByHolder
      <4>2. CASE UnlockKeeps(t)
        BY <2>8, <4>1, <4>2 DEF Unlock, UnlockKeeps, Holders
      <4>3. CASE ~UnlockKeeps(t)
        BY <2>8, <4>1, <4>3 DEF Unlock, Holders
      <4>4. QED BY <4>2, <4>3
    <3>2. want' = want
      BY <2>8 DEF Unlock
    <3>3. QED BY <3>1, <3>2
  <2>9. ASSUME NEW t \in Threads, ReleaseWord(t) PROVE Abstract!LockNext
    <3>1. t \in Holders /\ Holders' = Holders \ {t}
      BY <2>9 DEF ReleaseWord, Holders, OwnerMatchesHolder
    <3>2. Holders' = {}
      BY <3>1 DEF MutualExclusion
    <3>3. want' = want
      BY <2>9 DEF ReleaseWord
    <3>4. QED BY <3>1, <3>2, <3>3 DEF Abstract!LockNext, Abstract!Release
  <2>10. ASSUME NEW t \in Threads, FutexWake(t) PROVE UNCHANGED Abstract!lockVars
    <3>1. Holders' = Holders /\ want' = want
      BY <2>10 DEF FutexWake, Sleepers, Holders
    <3>2. QED BY <3>1
  <2>11. CASE UNCHANGED vars
    BY <2>11 DEF vars, Holders
  <2>12. QED
    BY <2>3, <2>4, <2>5, <2>6, <2>7, <2>8, <2>9, <2>10, <2>11
       DEF Next, LockStep, UnlockStep
<1>3. QED
  BY <1>1, <1>2, MutexInvariant, PTL DEF Spec, AbstractSafety, Abstract!LockSafety
-----------------------------------------------------------------------------
(* __lock and __unlock *)

\* The lock word starts free, so every part of the invariant holds.
LEMMA FutexInit == Fut!Init => Fut!IInv
  BY DEF Fut!Init, Fut!IInv, Fut!TypeOK, Fut!MutualExclusion, Fut!WordTellsHolder, Fut!NoLostWakeup,
         Fut!Holders, Fut!Sleepers, Fut!Locations

\* Every step of __lock and __unlock keeps the word in 0..2 and pc in place;
\* fetch_and_sub never takes the word below 0, because its caller holds it.
LEMMA FutexTypeOK == Fut!IInv /\ [Fut!Next]_(Fut!vars) => Fut!TypeOK'
<1> SUFFICES ASSUME Fut!IInv, [Fut!Next]_(Fut!vars) PROVE Fut!TypeOK'
  OBVIOUS
<1> USE DEF Fut!IInv, Fut!TypeOK, Fut!Goto, Fut!Locations
<1>1. ASSUME NEW t \in Threads, Fut!LockStep(t) PROVE Fut!TypeOK'
  BY <1>1 DEF Fut!LockStep, Fut!LockFast, Fut!MarkContended, Fut!FutexWait, Fut!LockRetry, Fut!AfterFailedCAS
<1>2. ASSUME NEW t \in Threads, Fut!Interrupted(t) PROVE Fut!TypeOK'
  BY <1>2 DEF Fut!Interrupted
<1>3. ASSUME NEW t \in Threads, Fut!UnlockFetchSub(t) PROVE Fut!TypeOK'
  <2>1. f_l # 0
    BY <1>3 DEF Fut!UnlockFetchSub, Fut!WordTellsHolder, Fut!Holders
  <2>2. QED BY <1>3, <2>1 DEF Fut!UnlockFetchSub
<1>4. ASSUME NEW t \in Threads, Fut!UnlockStore(t) PROVE Fut!TypeOK'
  BY <1>4 DEF Fut!UnlockStore
<1>5. ASSUME NEW t \in Threads, Fut!FutexWake(t) PROVE Fut!TypeOK'
  BY <1>5 DEF Fut!FutexWake, Fut!Sleepers
<1>6. CASE UNCHANGED Fut!vars
  BY <1>6 DEF Fut!vars
<1>7. QED BY <1>1, <1>2, <1>3, <1>4, <1>5, <1>6 DEF Fut!Next, Fut!UnlockStep

\* How each step changes the holder set and the word: nothing, an acquisition
\* of a free lock, a release, or the 2 -> 1 and 1 -> 2 moves under a holder.
LEMMA FutexEffect ==
  ASSUME Fut!IInv, NEW t \in Threads, Fut!LockStep(t) \/ Fut!Interrupted(t) \/ Fut!UnlockStep(t)
  PROVE  \/ Fut!Holders' = Fut!Holders /\ (f_l' = f_l \/ (f_l # 0 /\ f_l' # 0))
         \/ Fut!Holders = {} /\ Fut!Holders' = {t} /\ f_l' # 0
         \/ t \in Fut!Holders /\ Fut!Holders' = Fut!Holders \ {t} /\ f_l' = 0
<1> USE DEF Fut!IInv, Fut!TypeOK, Fut!Goto, Fut!Holders
<1>1. CASE Fut!LockFast(t)
  BY <1>1 DEF Fut!LockFast, Fut!AfterFailedCAS, Fut!WordTellsHolder
<1>2. CASE Fut!MarkContended(t)
  BY <1>2 DEF Fut!MarkContended
<1>3. CASE Fut!FutexWait(t)
  BY <1>3 DEF Fut!FutexWait
<1>4. CASE Fut!LockRetry(t)
  BY <1>4 DEF Fut!LockRetry, Fut!AfterFailedCAS, Fut!WordTellsHolder
<1>5. CASE Fut!Interrupted(t)
  BY <1>5 DEF Fut!Interrupted
<1>6. CASE Fut!UnlockFetchSub(t)
  <2>1. f_l # 0
    BY <1>6 DEF Fut!UnlockFetchSub, Fut!WordTellsHolder
  <2>2. QED BY <1>6, <2>1 DEF Fut!UnlockFetchSub
<1>7. CASE Fut!UnlockStore(t)
  BY <1>7 DEF Fut!UnlockStore
<1>8. CASE Fut!FutexWake(t)
  BY <1>8 DEF Fut!FutexWake, Fut!Sleepers
<1>9. QED BY <1>1, <1>2, <1>3, <1>4, <1>5, <1>6, <1>7, <1>8 DEF Fut!LockStep, Fut!UnlockStep

\* One holder, and a word that tells whether there is one, survive every step.
LEMMA FutexExclusion == Fut!IInv /\ [Fut!Next]_(Fut!vars) => (Fut!MutualExclusion /\ Fut!WordTellsHolder)'
<1> SUFFICES ASSUME Fut!IInv, [Fut!Next]_(Fut!vars) PROVE (Fut!MutualExclusion /\ Fut!WordTellsHolder)'
  OBVIOUS
<1>1. ASSUME NEW t \in Threads, Fut!LockStep(t) \/ Fut!Interrupted(t) \/ Fut!UnlockStep(t)
      PROVE  (Fut!MutualExclusion /\ Fut!WordTellsHolder)'
  <2>1. Fut!MutualExclusion /\ Fut!WordTellsHolder
    BY DEF Fut!IInv
  <2>2. CASE Fut!Holders' = Fut!Holders /\ (f_l' = f_l \/ (f_l # 0 /\ f_l' # 0))
    BY <2>1, <2>2 DEF Fut!MutualExclusion, Fut!WordTellsHolder
  <2>3. CASE Fut!Holders = {} /\ Fut!Holders' = {t} /\ f_l' # 0
    BY <2>3 DEF Fut!MutualExclusion, Fut!WordTellsHolder
  <2>4. CASE t \in Fut!Holders /\ Fut!Holders' = Fut!Holders \ {t} /\ f_l' = 0
    BY <2>1, <2>4 DEF Fut!MutualExclusion, Fut!WordTellsHolder
  <2>5. QED BY <1>1, <2>2, <2>3, <2>4, FutexEffect
<1>2. CASE UNCHANGED Fut!vars
  BY <1>2 DEF Fut!vars, Fut!IInv, Fut!MutualExclusion, Fut!WordTellsHolder, Fut!Holders
<1>3. QED BY <1>1, <1>2 DEF Fut!Next

\* No step forgets the sleepers: the step that could end the obligation of one
\* thread to wake somebody leaves the word at 2 under a holder, or has just
\* woken a thread that will retry.
LEMMA FutexWakeup == Fut!IInv /\ [Fut!Next]_(Fut!vars) => Fut!NoLostWakeup'
<1> SUFFICES ASSUME Fut!IInv, [Fut!Next]_(Fut!vars) PROVE Fut!NoLostWakeup'
  OBVIOUS
<1> USE DEF Fut!IInv, Fut!TypeOK, Fut!Goto, Fut!NoLostWakeup, Fut!Sleepers
<1>1. ASSUME NEW t \in Threads, Fut!LockFast(t) PROVE Fut!NoLostWakeup'
  BY <1>1 DEF Fut!LockFast, Fut!AfterFailedCAS
<1>2. ASSUME NEW t \in Threads, Fut!MarkContended(t) PROVE Fut!NoLostWakeup'
  BY <1>2 DEF Fut!MarkContended
<1>3. ASSUME NEW t \in Threads, Fut!FutexWait(t) PROVE Fut!NoLostWakeup'
  BY <1>3 DEF Fut!FutexWait
<1>4. ASSUME NEW t \in Threads, Fut!LockRetry(t) PROVE Fut!NoLostWakeup'
  BY <1>4 DEF Fut!LockRetry, Fut!AfterFailedCAS
<1>5. ASSUME NEW t \in Threads, Fut!Interrupted(t) PROVE Fut!NoLostWakeup'
  BY <1>5 DEF Fut!Interrupted
<1>6. ASSUME NEW t \in Threads, Fut!UnlockFetchSub(t) PROVE Fut!NoLostWakeup'
  BY <1>6 DEF Fut!UnlockFetchSub
<1>7. ASSUME NEW t \in Threads, Fut!UnlockStore(t) PROVE Fut!NoLostWakeup'
  BY <1>7 DEF Fut!UnlockStore
<1>8. ASSUME NEW t \in Threads, Fut!FutexWake(t) PROVE Fut!NoLostWakeup'
  BY <1>8 DEF Fut!FutexWake
<1>9. CASE UNCHANGED Fut!vars
  BY <1>9 DEF Fut!vars
<1>10. QED
  BY <1>1, <1>2, <1>3, <1>4, <1>5, <1>6, <1>7, <1>8, <1>9 DEF Fut!Next, Fut!LockStep, Fut!UnlockStep

\* For any set of threads, the word is 0, 1 or 2, one thread at most holds the
\* lock, and no sleeper of __lock is ever forgotten by __unlock.
THEOREM LockInvariant == Fut!Spec => []Fut!IInv
<1>1. Fut!IInv /\ [Fut!Next]_(Fut!vars) => Fut!IInv'
  BY FutexTypeOK, FutexExclusion, FutexWakeup DEF Fut!IInv
<1>2. QED BY FutexInit, <1>1, PTL DEF Fut!Spec

\* For any set of threads, __lock lets one thread in at a time.
THEOREM LockExclusion == Fut!Spec => []Fut!MutualExclusion
  BY LockInvariant, PTL DEF Fut!IInv

\* For any set of threads, __unlock never leaves a sleeper of __lock behind.
THEOREM LockNoLostWakeup == Fut!Spec => []Fut!NoLostWakeup
  BY LockInvariant, PTL DEF Fut!IInv

\* For any set of threads, every step of __lock and __unlock is a request, an
\* acquisition, a release or a stutter of the abstract lock.
THEOREM LockRefinement == Fut!Spec => Fut!AbstractSafety
<1> DEFINE want == {t \in Threads : f_pc[t] \in {"mark", "wait", "sleep", "retry"}}
<1>1. Fut!Init => Fut!Abstract!LockInit
  BY DEF Fut!Init, Fut!Abstract!LockInit, Fut!Holders
<1>2. Fut!IInv /\ [Fut!Next]_(Fut!vars) => [Fut!Abstract!LockNext]_(Fut!Abstract!lockVars)
  <2> SUFFICES ASSUME Fut!IInv, [Fut!Next]_(Fut!vars)
               PROVE  Fut!Abstract!LockNext \/ UNCHANGED Fut!Abstract!lockVars
    OBVIOUS
  <2> USE DEF Fut!IInv, Fut!TypeOK, Fut!Goto, Fut!Holders, Fut!Abstract!lockVars
  <2>1. ASSUME NEW t \in Threads, Fut!LockFast(t) PROVE Fut!Abstract!LockNext
    <3>1. CASE f_l = 0
      <4>1. Fut!Holders = {} /\ Fut!Holders' = {t} /\ want' = want \ {t}
        BY <2>1, <3>1 DEF Fut!LockFast, Fut!WordTellsHolder
      <4>2. QED BY <4>1 DEF Fut!Abstract!LockNext, Fut!Abstract!Acquire
    <3>2. CASE f_l # 0
      <4>1. t \notin Fut!Holders \cup want /\ Fut!Holders' = Fut!Holders /\ want' = want \cup {t}
        BY <2>1, <3>2 DEF Fut!LockFast, Fut!AfterFailedCAS
      <4>2. QED BY <4>1 DEF Fut!Abstract!LockNext, Fut!Abstract!Request
    <3>3. QED BY <3>1, <3>2
  <2>2. ASSUME NEW t \in Threads, Fut!MarkContended(t) \/ Fut!FutexWait(t) \/ Fut!Interrupted(t)
        PROVE  UNCHANGED Fut!Abstract!lockVars
    <3>1. Fut!Holders' = Fut!Holders /\ want' = want
      BY <2>2 DEF Fut!MarkContended, Fut!FutexWait, Fut!Interrupted
    <3>2. QED BY <3>1
  <2>3. ASSUME NEW t \in Threads, Fut!LockRetry(t)
        PROVE  Fut!Abstract!LockNext \/ UNCHANGED Fut!Abstract!lockVars
    <3>1. CASE f_l = 0
      <4>1. Fut!Holders = {} /\ Fut!Holders' = {t} /\ want' = want \ {t}
        BY <2>3, <3>1 DEF Fut!LockRetry, Fut!WordTellsHolder
      <4>2. QED BY <4>1 DEF Fut!Abstract!LockNext, Fut!Abstract!Acquire
    <3>2. CASE f_l # 0
      <4>1. Fut!Holders' = Fut!Holders /\ want' = want
        BY <2>3, <3>2 DEF Fut!LockRetry, Fut!AfterFailedCAS
      <4>2. QED BY <4>1
    <3>3. QED BY <3>1, <3>2
  <2>4. ASSUME NEW t \in Threads, Fut!UnlockFetchSub(t) \/ Fut!UnlockStore(t)
        PROVE  Fut!Abstract!LockNext \/ UNCHANGED Fut!Abstract!lockVars
    <3>1. want' = want /\ t \in Fut!Holders /\ Fut!Holders' \in {Fut!Holders, Fut!Holders \ {t}}
      BY <2>4 DEF Fut!UnlockFetchSub, Fut!UnlockStore
    <3>2. Fut!Holders \ {t} = {}
      BY <3>1 DEF Fut!MutualExclusion
    <3>3. CASE Fut!Holders' = Fut!Holders
      BY <3>1, <3>3
    <3>4. CASE Fut!Holders' = Fut!Holders \ {t}
      BY <3>1, <3>2, <3>4 DEF Fut!Abstract!LockNext, Fut!Abstract!Release
    <3>5. QED BY <3>1, <3>3, <3>4
  <2>5. ASSUME NEW t \in Threads, Fut!FutexWake(t) PROVE UNCHANGED Fut!Abstract!lockVars
    <3>1. Fut!Holders' = Fut!Holders /\ want' = want
      BY <2>5 DEF Fut!FutexWake, Fut!Sleepers
    <3>2. QED BY <3>1
  <2>6. CASE UNCHANGED Fut!vars
    BY <2>6 DEF Fut!vars
  <2>7. QED
    BY <2>1, <2>2, <2>3, <2>4, <2>5, <2>6 DEF Fut!Next, Fut!LockStep, Fut!UnlockStep
<1>3. QED
  BY <1>1, <1>2, LockInvariant, PTL DEF Fut!Spec, Fut!AbstractSafety, Fut!Abstract!LockSafety
=============================================================================
