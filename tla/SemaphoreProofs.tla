-------------------------- MODULE SemaphoreProofs --------------------------
(***************************************************************************)
(* sem_wait, its timed form, sem_trywait and sem_post of semaphore.c, for  *)
(* any finite set of threads, any of which may be cancelled, and any       *)
(* limit of the value: IInv is an invariant, so no sleeper is forgotten    *)
(* while the value is positive.  The argument is the number of threads     *)
(* that will still look at the value, Attentive: a post adds the poster,   *)
(* whose wake puts a sleeper in its place.                                 *)
(***************************************************************************)
EXTENDS Semaphore, FiniteSetTheorems, TLAPS

\* Sets of threads are finite, and so are their sizes.
LEMMA ThreadSets ==
  ASSUME NEW S \in SUBSET Threads
  PROVE  IsFiniteSet(S) /\ Cardinality(S) \in 0..Cardinality(Threads)
  BY ThreadsAssumption, FS_Subset, FS_CardinalityType

\* What inclusion says of the sizes of two sets of threads: B may lack one element of
\* A, have one more, or have another in its place.
LEMMA Sizes ==
  ASSUME NEW A \in SUBSET Threads, NEW B \in SUBSET Threads, NEW t \in Threads
  PROVE  /\ A \subseteq B => Cardinality(A) <= Cardinality(B)
         /\ A \ {t} \subseteq B => Cardinality(A) - 1 <= Cardinality(B)
         /\ A \cup {t} \subseteq B /\ t \notin A => Cardinality(A) + 1 <= Cardinality(B)
         /\ \A s \in Threads \ A :
              (A \ {t}) \cup {s} \subseteq B => Cardinality(A) <= Cardinality(B)
<1>1. /\ IsFiniteSet(A) /\ Cardinality(A) \in Nat
      /\ IsFiniteSet(B) /\ Cardinality(B) \in Nat
  BY ThreadSets
<1>2. A \subseteq B => Cardinality(A) <= Cardinality(B)
  BY <1>1, FS_Subset
<1>3. /\ IsFiniteSet(A \ {t}) /\ Cardinality(A \ {t}) \in Nat
      /\ Cardinality(A \ {t}) >= Cardinality(A) - 1
  <2>1. /\ IsFiniteSet(A \ {t})
        /\ Cardinality(A \ {t}) = IF t \in A THEN Cardinality(A) - 1 ELSE Cardinality(A)
    BY <1>1, FS_RemoveElement
  <2> QED BY <1>1, <2>1, FS_CardinalityType
<1>4. A \ {t} \subseteq B => Cardinality(A) - 1 <= Cardinality(B)
  <2>1. A \ {t} \subseteq B => Cardinality(A \ {t}) <= Cardinality(B)
    BY <1>1, FS_Subset
  <2> QED BY <1>1, <1>3, <2>1
<1>5. A \cup {t} \subseteq B /\ t \notin A => Cardinality(A) + 1 <= Cardinality(B)
  <2>1. A \cup {t} \subseteq B => Cardinality(A \cup {t}) <= Cardinality(B)
    BY <1>1, FS_Subset
  <2>2. t \notin A => Cardinality(A \cup {t}) = Cardinality(A) + 1
    BY <1>1, FS_AddElement
  <2> QED BY <2>1, <2>2
<1>6. ASSUME NEW s \in Threads \ A, (A \ {t}) \cup {s} \subseteq B
      PROVE  Cardinality(A) <= Cardinality(B)
  <2>1. Cardinality((A \ {t}) \cup {s}) <= Cardinality(B)
    BY <1>1, <1>6, FS_Subset
  <2>2. Cardinality((A \ {t}) \cup {s}) = Cardinality(A \ {t}) + 1
    BY <1>3, FS_AddElement
  <2> QED BY <1>1, <1>3, <2>1, <2>2
<1> QED BY <1>2, <1>4, <1>5, <1>6

\* A semaphore as sem_init leaves it.
LEMMA InitIInv == Init => IInv
<1> SUFFICES ASSUME Init PROVE IInv
  OBVIOUS
<1>1. TypeOK
  BY LimitAssumption, ThreadSets DEF Init, TypeOK, Limits
<1>2. WaitersCounted /\ Sleepers = {}
  BY FS_EmptySet DEF Init, WaitersCounted, Counted, Sleepers
<1> QED BY <1>1, <1>2 DEF Init, IInv, NoForgottenWaiter

\* __val[1] counts the waiters, and is positive while somebody sleeps.
LEMMA StepCounted ==
  ASSUME TypeOK, WaitersCounted, NEW t \in Threads,
         \/ \E limited \in Limits : WaitCall(t, limited)
         \/ \E why \in {"EINTR", "ETIMEDOUT"} : SleepFails(t, why)
         \/ TryWait(t) \/ Post(t) \/ Running(t) \/ Cancel(t) \/ DeliverCancel(t)
  PROVE  /\ WaitersCounted' /\ waiters' \in 0..Cardinality(Threads)
         /\ Sleepers # {} => waiters > 0
         /\ Sleepers' # {} => waiters' > 0
<1> USE DEF TypeOK, Goto
<1>1. /\ IsFiniteSet(Counted) /\ IsFiniteSet(Counted')
      /\ Cardinality(Counted') \in 0..Cardinality(Threads)
  BY ThreadSets DEF Counted
<1>2. WaitersCounted'
  <2>1. CASE IncWaiters(t)
    <3>1. Counted' = Counted \cup {t} /\ t \notin Counted
      BY <2>1 DEF IncWaiters, Counted
    <3> QED BY <1>1, <2>1, <3>1, FS_AddElement DEF IncWaiters, WaitersCounted
  <2>2. CASE DecWaiters(t)
    <3>1. Counted' = Counted \ {t} /\ t \in Counted
      BY <2>2 DEF DecWaiters, Counted
    <3> QED BY <1>1, <2>2, <3>1, FS_RemoveElement DEF DecWaiters, WaitersCounted
  <2>3. CASE ~IncWaiters(t) /\ ~DecWaiters(t)
    <3>1. Counted' = Counted /\ waiters' = waiters
      BY <2>3 DEF WaitCall, SleepFails, TryWait, Post, Running, WaitTry, FutexWait, CheckWaiters,
                  FutexWake, Cancel, DeliverCancel, Sleepers, Counted
    <3> QED BY <3>1 DEF WaitersCounted
  <2> QED BY <2>1, <2>2, <2>3
<1>3. (Sleepers # {} => Counted # {}) /\ (Sleepers' # {} => Counted' # {})
  BY DEF Sleepers, Counted
<1> QED BY <1>1, <1>2, <1>3, FS_EmptySet DEF WaitersCounted

\* A step of thread t keeps the invariant; StepCounted gives the part about __val[1].
LEMMA StepIInv ==
  ASSUME IInv, NEW t \in Threads,
         WaitersCounted', waiters' \in 0..Cardinality(Threads),
         Sleepers # {} => waiters > 0, Sleepers' # {} => waiters' > 0,
         \/ \E limited \in Limits : WaitCall(t, limited)
         \/ \E why \in {"EINTR", "ETIMEDOUT"} : SleepFails(t, why)
         \/ TryWait(t) \/ Post(t) \/ Running(t) \/ Cancel(t) \/ DeliverCancel(t)
  PROVE  IInv'
<1> USE LimitAssumption DEF IInv, TypeOK, Goto
<1>0. /\ Attentive \in SUBSET Threads /\ Attentive' \in SUBSET Threads
      /\ Cardinality(Attentive) \in Nat /\ Cardinality(Attentive') \in Nat
  <2>1. Attentive \in SUBSET Threads /\ Attentive' \in SUBSET Threads
    BY DEF Attentive
  <2> QED BY <2>1, ThreadSets
<1>1. ASSUME NEW limited \in Limits, WaitCall(t, limited)
      PROVE  IInv'
  <2>1. TypeOK' /\ \A u \in Threads : res'[u] # "0" => pc'[u] = "dec"
    BY <1>1 DEF WaitCall, Limits
  <2>2. NoForgottenWaiter'
    <3>1. Sleepers' # {} => Attentive \subseteq Attentive'
      BY <1>1 DEF WaitCall, Attentive, Sleepers
    <3>2. Sleepers' # {} => Cardinality(Attentive) <= Cardinality(Attentive')
      BY <1>0, <3>1, Sizes
    <3> QED BY <1>0, <1>1, <3>2 DEF WaitCall, NoForgottenWaiter, Sleepers
  <2> QED BY <2>1, <2>2
<1>2. ASSUME TryWait(t)
      PROVE  IInv'
  <2>1. TypeOK' /\ \A u \in Threads : res'[u] # "0" => pc'[u] = "dec"
    BY <1>2 DEF TryWait, Limits
  <2>2. NoForgottenWaiter'
    <3>1. Sleepers' # {} => Attentive \subseteq Attentive'
      BY <1>2 DEF TryWait, Attentive, Sleepers
    <3>2. Sleepers' # {} => Cardinality(Attentive) <= Cardinality(Attentive')
      BY <1>0, <3>1, Sizes
    <3> QED BY <1>0, <1>2, <3>2 DEF TryWait, NoForgottenWaiter, Sleepers
  <2> QED BY <2>1, <2>2
<1>3. ASSUME WaitTry(t)
      PROVE  IInv'
  <2>1. TypeOK' /\ \A u \in Threads : res'[u] # "0" => pc'[u] = "dec"
    BY <1>3 DEF WaitTry, Limits
  <2>2. NoForgottenWaiter'
    <3>1. Sleepers' # {} => Attentive \ {t} \subseteq Attentive'
      BY <1>3 DEF WaitTry, Attentive, Sleepers
    <3>2. Sleepers' # {} => Cardinality(Attentive) - 1 <= Cardinality(Attentive')
      BY <1>0, <3>1, Sizes
    <3> QED BY <1>0, <1>3, <3>2 DEF WaitTry, NoForgottenWaiter, Sleepers
  <2> QED BY <2>1, <2>2
<1>4. ASSUME IncWaiters(t)
      PROVE  IInv'
  <2>1. TypeOK' /\ \A u \in Threads : res'[u] # "0" => pc'[u] = "dec"
    BY <1>4 DEF IncWaiters, Limits
  <2>2. NoForgottenWaiter'
    <3>1. Sleepers' # {} => Attentive \subseteq Attentive'
      BY <1>4 DEF IncWaiters, Attentive, Sleepers
    <3>2. Sleepers' # {} => Cardinality(Attentive) <= Cardinality(Attentive')
      BY <1>0, <3>1, Sizes
    <3> QED BY <1>0, <1>4, <3>2 DEF IncWaiters, NoForgottenWaiter, Sleepers
  <2> QED BY <2>1, <2>2
<1>5. ASSUME FutexWait(t)
      PROVE  IInv'
  <2>1. TypeOK' /\ \A u \in Threads : res'[u] # "0" => pc'[u] = "dec"
    BY <1>5 DEF FutexWait, Limits
  <2>2. NoForgottenWaiter'
    <3>1. val # 0 => Attentive \subseteq Attentive'
      BY <1>5 DEF FutexWait, Attentive, Sleepers
    <3>2. val # 0 => Cardinality(Attentive) <= Cardinality(Attentive')
      BY <1>0, <3>1, Sizes
    <3> QED BY <1>0, <1>5, <3>2 DEF FutexWait, NoForgottenWaiter, Sleepers
  <2> QED BY <2>1, <2>2
<1>6. ASSUME NEW why \in {"EINTR", "ETIMEDOUT"}, SleepFails(t, why)
      PROVE  IInv'
  <2>1. TypeOK' /\ \A u \in Threads : res'[u] # "0" => pc'[u] = "dec"
    BY <1>6 DEF SleepFails, Limits
  <2>2. NoForgottenWaiter'
    <3>1. Sleepers' # {} => Attentive \subseteq Attentive'
      BY <1>6 DEF SleepFails, Attentive, Sleepers
    <3>2. Sleepers' # {} => Cardinality(Attentive) <= Cardinality(Attentive')
      BY <1>0, <3>1, Sizes
    <3> QED BY <1>0, <1>6, <3>2 DEF SleepFails, NoForgottenWaiter, Sleepers
  <2> QED BY <2>1, <2>2
<1>7. ASSUME DecWaiters(t)
      PROVE  IInv'
  <2>1. TypeOK' /\ \A u \in Threads : res'[u] # "0" => pc'[u] = "dec"
    BY <1>7 DEF DecWaiters, Limits
  <2>2. NoForgottenWaiter'
    <3>1. Sleepers' # {} => Attentive \subseteq Attentive'
      BY <1>7 DEF DecWaiters, Attentive, Sleepers
    <3>2. Sleepers' # {} => Cardinality(Attentive) <= Cardinality(Attentive')
      BY <1>0, <3>1, Sizes
    <3> QED BY <1>0, <1>7, <3>2 DEF DecWaiters, NoForgottenWaiter, Sleepers
  <2> QED BY <2>1, <2>2
<1>8. ASSUME Post(t)
      PROVE  IInv'
  <2>1. TypeOK' /\ \A u \in Threads : res'[u] # "0" => pc'[u] = "dec"
    BY <1>8 DEF Post, Limits
  <2>2. NoForgottenWaiter'
    <3>1. Sleepers' # {} => Attentive \cup {t} \subseteq Attentive' /\ t \notin Attentive
      BY <1>8 DEF Post, Attentive, Sleepers
    <3>2. Sleepers' # {} => Cardinality(Attentive) + 1 <= Cardinality(Attentive')
      BY <1>0, <3>1, Sizes
    <3> QED BY <1>0, <1>8, <3>2 DEF Post, NoForgottenWaiter, Sleepers
  <2> QED BY <2>1, <2>2
<1>9. ASSUME CheckWaiters(t)
      PROVE  IInv'
  <2>1. TypeOK' /\ \A u \in Threads : res'[u] # "0" => pc'[u] = "dec"
    BY <1>9 DEF CheckWaiters, Limits
  <2>2. NoForgottenWaiter'
    <3>1. Sleepers' # {} => Attentive \subseteq Attentive'
      BY <1>9 DEF CheckWaiters, Attentive, Sleepers
    <3>2. Sleepers' # {} => Cardinality(Attentive) <= Cardinality(Attentive')
      BY <1>0, <3>1, Sizes
    <3> QED BY <1>0, <1>9, <3>2 DEF CheckWaiters, NoForgottenWaiter, Sleepers
  <2> QED BY <2>1, <2>2
<1>10. ASSUME FutexWake(t)
      PROVE  IInv'
  <2>1. TypeOK' /\ \A u \in Threads : res'[u] # "0" => pc'[u] = "dec"
    BY <1>10 DEF FutexWake, Limits, Sleepers
  <2>2. NoForgottenWaiter'
    <3>1. Sleepers' # {} => \E s \in Threads \ Attentive : (Attentive \ {t}) \cup {s} \subseteq Attentive'
      BY <1>10 DEF FutexWake, Attentive, Sleepers
    <3>2. Sleepers' # {} => Cardinality(Attentive) <= Cardinality(Attentive')
      BY <1>0, <3>1, Sizes
    <3> QED BY <1>0, <1>10, <3>2 DEF FutexWake, NoForgottenWaiter, Sleepers
  <2> QED BY <2>1, <2>2
<1>11. ASSUME Cancel(t)
      PROVE  IInv'
  <2>1. TypeOK' /\ \A u \in Threads : res'[u] # "0" => pc'[u] = "dec"
    BY <1>11 DEF Cancel, Limits
  <2>2. NoForgottenWaiter'
    <3>1. Sleepers' # {} => Attentive \subseteq Attentive'
      BY <1>11 DEF Cancel, Attentive, Sleepers
    <3>2. Sleepers' # {} => Cardinality(Attentive) <= Cardinality(Attentive')
      BY <1>0, <3>1, Sizes
    <3> QED BY <1>0, <1>11, <3>2 DEF Cancel, NoForgottenWaiter, Sleepers
  <2> QED BY <2>1, <2>2
<1>12. ASSUME DeliverCancel(t)
      PROVE  IInv'
  <2>1. TypeOK' /\ \A u \in Threads : res'[u] # "0" => pc'[u] = "dec"
    BY <1>12 DEF DeliverCancel, Limits
  <2>2. NoForgottenWaiter'
    <3>1. Sleepers' # {} => Attentive \subseteq Attentive'
      BY <1>12 DEF DeliverCancel, Attentive, Sleepers
    <3>2. Sleepers' # {} => Cardinality(Attentive) <= Cardinality(Attentive')
      BY <1>0, <3>1, Sizes
    <3> QED BY <1>0, <1>12, <3>2 DEF DeliverCancel, NoForgottenWaiter, Sleepers
  <2> QED BY <2>1, <2>2
<1> QED BY <1>1, <1>2, <1>3, <1>4, <1>5, <1>6, <1>7, <1>8, <1>9, <1>10, <1>11, <1>12 DEF Running

\* sem_wait and sem_post, with cancellation and time-outs, keep the invariant.
THEOREM Invariance == Spec => []IInv
<1>1. IInv /\ [Next]_vars => IInv'
  <2> SUFFICES ASSUME IInv, [Next]_vars PROVE IInv'
    OBVIOUS
  <2>1. CASE Next
    BY <2>1, StepCounted, StepIInv DEF Next, IInv
  <2>2. CASE UNCHANGED vars
    BY <2>2 DEF vars, IInv, TypeOK, WaitersCounted, Counted, NoForgottenWaiter, Attentive, Sleepers
  <2> QED BY <2>1, <2>2
<1> QED BY InitIInv, <1>1, PTL DEF Spec
=============================================================================
