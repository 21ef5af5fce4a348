--------------------------- MODULE CondVarProofs ---------------------------
(***************************************************************************)
(* The condition wait of pthread_sync.c, for any finite set of threads, any *)
(* of which may be cancelled, any width of __seq and any bounds of the      *)
(* program: IInv is an invariant, so no signal is lost and a wait gives the *)
(* mutex back at the depth it had.  The argument is about the number of     *)
(* threads that will look at the items, Sure: a signal adds one before the  *)
(* wake takes the signaller away, and a thread can only fall asleep while   *)
(* the signals to come are as many as the items (SignalsToCome).            *)
(***************************************************************************)
EXTENDS CondVar, FiniteSetTheorems, TLAPS

\* Sets of threads are finite, and so are their sizes.
LEMMA ThreadSets ==
  ASSUME NEW S \in SUBSET Threads
  PROVE  IsFiniteSet(S) /\ Cardinality(S) \in 0..Cardinality(Threads)
  BY ThreadsAssumption, FS_Subset, FS_CardinalityType

\* What inclusion says of the sizes of two sets of threads: B may lack one element of
\* A, have one more, or have another in its place.
LEMMA Sizes ==
  ASSUME NEW A \in SUBSET Threads, NEW B \in SUBSET Threads, NEW t \in Threads
  PROVE  /\ A \subseteq B => Cardinality(A) <= Cardinality(B)
         /\ A \ {t} \subseteq B => Cardinality(A) - 1 <= Cardinality(B)
         /\ A \cup {t} \subseteq B /\ t \notin A => Cardinality(A) + 1 <= Cardinality(B)
         /\ \A s \in Threads \ A :
              (A \ {t}) \cup {s} \subseteq B => Cardinality(A) <= Cardinality(B)
<1>1. /\ IsFiniteSet(A) /\ Cardinality(A) \in Nat
      /\ IsFiniteSet(B) /\ Cardinality(B) \in Nat
  BY ThreadSets
<1>2. A \subseteq B => Cardinality(A) <= Cardinality(B)
  BY <1>1, FS_Subset
<1>3. /\ IsFiniteSet(A \ {t}) /\ Cardinality(A \ {t}) \in Nat
      /\ Cardinality(A \ {t}) >= Cardinality(A) - 1
  <2>1. /\ IsFiniteSet(A \ {t})
        /\ Cardinality(A \ {t}) = IF t \in A THEN Cardinality(A) - 1 ELSE Cardinality(A)
    BY <1>1, FS_RemoveElement
  <2> QED BY <1>1, <2>1, FS_CardinalityType
<1>4. A \ {t} \subseteq B => Cardinality(A) - 1 <= Cardinality(B)
  <2>1. A \ {t} \subseteq B => Cardinality(A \ {t}) <= Cardinality(B)
    BY <1>1, FS_Subset
  <2> QED BY <1>1, <1>3, <2>1
<1>5. A \cup {t} \subseteq B /\ t \notin A => Cardinality(A) + 1 <= Cardinality(B)
  <2>1. A \cup {t} \subseteq B => Cardinality(A \cup {t}) <= Cardinality(B)
    BY <1>1, FS_Subset
  <2>2. t \notin A => Cardinality(A \cup {t}) = Cardinality(A) + 1
    BY <1>1, FS_AddElement
  <2> QED BY <2>1, <2>2
<1>6. ASSUME NEW s \in Threads \ A, (A \ {t}) \cup {s} \subseteq B
      PROVE  Cardinality(A) <= Cardinality(B)
  <2>1. Cardinality((A \ {t}) \cup {s}) <= Cardinality(B)
    BY <1>1, <1>6, FS_Subset
  <2>2. Cardinality((A \ {t}) \cup {s}) = Cardinality(A \ {t}) + 1
    BY <1>3, FS_AddElement
  <2> QED BY <1>1, <1>3, <2>1, <2>2
<1> QED BY <1>2, <1>4, <1>5, <1>6

\* A condition variable as pthread_cond_init leaves it, and a mutex nobody owns.
LEMMA InitIInv == Init => IInv
<1> SUFFICES ASSUME Init PROVE IInv
  OBVIOUS
<1> USE DEF Init
<1>1. TypeOK
  BY LimitAssumption DEF TypeOK
<1>2. DepthKept /\ OwnerKnown
  BY NoOwnerAssumption DEF DepthKept, OwnerKnown
<1>3. SignalsEnough /\ SignalsToCome
  BY DEF SignalsEnough, SignalsToCome, Sleepers
<1> QED BY <1>1, <1>2, <1>3 DEF IInv

\* The part about the mutex: who owns it and how often, what a waiter gave back and
\* will take again.  SignalWake and DeliverCancel move other threads, Goto only t.
LEMMA StepMutex ==
  ASSUME IInv, NEW t \in Threads,
         \/ Program(t) \/ WaitStep(t) \/ SignalStep(t) \/ Cancel(t) \/ DeliverCancel(t)
  PROVE  TypeOK' /\ DepthKept' /\ OwnerKnown'
<1> USE LimitAssumption, NoOwnerAssumption DEF IInv, TypeOK, Goto, mutex, data, locals, cancel
<1>1. ASSUME Lock(t)
      PROVE  TypeOK' /\ DepthKept' /\ OwnerKnown'
  <2>1. TypeOK'
    BY <1>1 DEF Lock, DepthKept, OwnerKnown
  <2>2. DepthKept'
    BY <1>1 DEF Lock, DepthKept, OwnerKnown
  <2>3. OwnerKnown'
    BY <1>1 DEF Lock, DepthKept, OwnerKnown
  <2> QED BY <2>1, <2>2, <2>3
<1>2. ASSUME Unlock(t)
      PROVE  TypeOK' /\ DepthKept' /\ OwnerKnown'
  <2>1. TypeOK'
    BY <1>2 DEF Unlock, DepthKept, OwnerKnown
  <2>2. DepthKept'
    BY <1>2 DEF Unlock, DepthKept, OwnerKnown
  <2>3. OwnerKnown'
    BY <1>2 DEF Unlock, DepthKept, OwnerKnown
  <2> QED BY <2>1, <2>2, <2>3
<1>3. ASSUME Put(t)
      PROVE  TypeOK' /\ DepthKept' /\ OwnerKnown'
  <2>1. TypeOK'
    BY <1>3 DEF Put, DepthKept, OwnerKnown
  <2>2. DepthKept'
    BY <1>3 DEF Put, DepthKept, OwnerKnown
  <2>3. OwnerKnown'
    BY <1>3 DEF Put, DepthKept, OwnerKnown
  <2> QED BY <2>1, <2>2, <2>3
<1>4. ASSUME Take(t)
      PROVE  TypeOK' /\ DepthKept' /\ OwnerKnown'
  <2>1. TypeOK'
    BY <1>4 DEF Take, DepthKept, OwnerKnown
  <2>2. DepthKept'
    BY <1>4 DEF Take, DepthKept, OwnerKnown
  <2>3. OwnerKnown'
    BY <1>4 DEF Take, DepthKept, OwnerKnown
  <2> QED BY <2>1, <2>2, <2>3
<1>5. ASSUME NEW limited \in BOOLEAN, WaitBegin(t, limited)
      PROVE  TypeOK' /\ DepthKept' /\ OwnerKnown'
  <2>1. TypeOK'
    BY <1>5 DEF WaitBegin, Cancels, DepthKept, OwnerKnown
  <2>2. DepthKept'
    BY <1>5 DEF WaitBegin, Cancels, DepthKept, OwnerKnown
  <2>3. OwnerKnown'
    BY <1>5 DEF WaitBegin, Cancels, DepthKept, OwnerKnown
  <2> QED BY <2>1, <2>2, <2>3
<1>6. ASSUME WaitRelease(t)
      PROVE  TypeOK' /\ DepthKept' /\ OwnerKnown'
  <2>1. TypeOK'
    BY <1>6 DEF WaitRelease, DepthKept, OwnerKnown
  <2>2. DepthKept'
    BY <1>6 DEF WaitRelease, DepthKept, OwnerKnown
  <2>3. OwnerKnown'
    BY <1>6 DEF WaitRelease, DepthKept, OwnerKnown
  <2> QED BY <2>1, <2>2, <2>3
<1>7. ASSUME FutexWait(t)
      PROVE  TypeOK' /\ DepthKept' /\ OwnerKnown'
  <2>1. TypeOK'
    BY <1>7 DEF FutexWait, DepthKept, OwnerKnown
  <2>2. DepthKept'
    BY <1>7 DEF FutexWait, DepthKept, OwnerKnown
  <2>3. OwnerKnown'
    BY <1>7 DEF FutexWait, DepthKept, OwnerKnown
  <2> QED BY <2>1, <2>2, <2>3
<1>8. ASSUME TimedOut(t)
      PROVE  TypeOK' /\ DepthKept' /\ OwnerKnown'
  <2>1. TypeOK'
    BY <1>8 DEF TimedOut, DepthKept, OwnerKnown
  <2>2. DepthKept'
    BY <1>8 DEF TimedOut, DepthKept, OwnerKnown
  <2>3. OwnerKnown'
    BY <1>8 DEF TimedOut, DepthKept, OwnerKnown
  <2> QED BY <2>1, <2>2, <2>3
<1>9. ASSUME Interrupted(t)
      PROVE  TypeOK' /\ DepthKept' /\ OwnerKnown'
  <2>1. TypeOK'
    BY <1>9 DEF Interrupted, DepthKept, OwnerKnown
  <2>2. DepthKept'
    BY <1>9 DEF Interrupted, DepthKept, OwnerKnown
  <2>3. OwnerKnown'
    BY <1>9 DEF Interrupted, DepthKept, OwnerKnown
  <2> QED BY <2>1, <2>2, <2>3
<1>10. ASSUME WaitEnd(t)
      PROVE  TypeOK' /\ DepthKept' /\ OwnerKnown'
  <2>1. TypeOK'
    BY <1>10 DEF WaitEnd, Forget, Cancels, DepthKept, OwnerKnown
  <2>2. DepthKept'
    BY <1>10 DEF WaitEnd, Forget, Cancels, DepthKept, OwnerKnown
  <2>3. OwnerKnown'
    BY <1>10 DEF WaitEnd, Forget, Cancels, DepthKept, OwnerKnown
  <2> QED BY <2>1, <2>2, <2>3
<1>11. ASSUME NEW wake \in {"wake1", "wakeall"}, SignalBegin(t, wake)
      PROVE  TypeOK' /\ DepthKept' /\ OwnerKnown'
  <2>1. TypeOK'
    BY <1>11 DEF SignalBegin, DepthKept, OwnerKnown
  <2>2. DepthKept'
    BY <1>11 DEF SignalBegin, DepthKept, OwnerKnown
  <2>3. OwnerKnown'
    BY <1>11 DEF SignalBegin, DepthKept, OwnerKnown
  <2> QED BY <2>1, <2>2, <2>3
<1>12. ASSUME SignalWake(t)
      PROVE  TypeOK' /\ DepthKept' /\ OwnerKnown'
  <2>1. TypeOK'
    BY <1>12 DEF SignalWake, Woken, Sleepers, DepthKept, OwnerKnown
  <2>2. DepthKept'
    BY <1>12 DEF SignalWake, Woken, Sleepers, DepthKept, OwnerKnown
  <2>3. OwnerKnown'
    BY <1>12 DEF SignalWake, Woken, Sleepers, DepthKept, OwnerKnown
  <2> QED BY <2>1, <2>2, <2>3
<1>13. ASSUME Cancel(t)
      PROVE  TypeOK' /\ DepthKept' /\ OwnerKnown'
  <2>1. TypeOK'
    BY <1>13 DEF Cancel, DepthKept, OwnerKnown
  <2>2. DepthKept'
    BY <1>13 DEF Cancel, DepthKept, OwnerKnown
  <2>3. OwnerKnown'
    BY <1>13 DEF Cancel, DepthKept, OwnerKnown
  <2> QED BY <2>1, <2>2, <2>3
<1>14. ASSUME DeliverCancel(t)
      PROVE  TypeOK' /\ DepthKept' /\ OwnerKnown'
  <2>1. TypeOK'
    BY <1>14 DEF DeliverCancel, DepthKept, OwnerKnown
  <2>2. DepthKept'
    BY <1>14 DEF DeliverCancel, DepthKept, OwnerKnown
  <2>3. OwnerKnown'
    BY <1>14 DEF DeliverCancel, DepthKept, OwnerKnown
  <2> QED BY <2>1, <2>2, <2>3
<1> QED BY <1>1, <1>2, <1>3, <1>4, <1>5, <1>6, <1>7, <1>8, <1>9, <1>10, <1>11, <1>12, <1>13, <1>14
     DEF Program, WaitStep, SignalStep

\* The part about the items: what each action does to the sets Sure and Owing.
LEMMA StepSignals ==
  ASSUME IInv, NEW t \in Threads,
         \/ Program(t) \/ WaitStep(t) \/ SignalStep(t) \/ Cancel(t) \/ DeliverCancel(t)
  PROVE  SignalsEnough' /\ SignalsToCome'
<1> USE LimitAssumption DEF IInv, TypeOK, Goto, mutex, data, locals, cancel
<1>0. /\ Sure \in SUBSET Threads /\ Sure' \in SUBSET Threads
      /\ Owing \in SUBSET Threads /\ Owing' \in SUBSET Threads
      /\ Cardinality(Sure) \in Nat /\ Cardinality(Sure') \in Nat
      /\ Cardinality(Owing) \in Nat /\ Cardinality(Owing') \in Nat
  <2>1. /\ Sure \in SUBSET Threads /\ Sure' \in SUBSET Threads
        /\ Owing \in SUBSET Threads /\ Owing' \in SUBSET Threads
    BY DEF Sure, Owing
  <2> QED BY <2>1, ThreadSets
<1>1. ASSUME Lock(t)
      PROVE  SignalsEnough' /\ SignalsToCome'
  <2>1. Sure \subseteq Sure' /\ Owing' = Owing
    BY <1>1 DEF Lock, Sure, Owing, OwnerKnown
  <2>2. Cardinality(Sure) <= Cardinality(Sure')
    BY <1>0, <2>1, Sizes
  <2>3. /\ items' = items /\ (Sleepers' # {} => Sleepers # {})
        /\ \A u \in Threads : pc'[u] = "fwait" /\ snap'[u] = seq' => pc[u] = "fwait" /\ snap[u] = seq
    BY <1>1 DEF Lock, Sleepers
  <2> QED BY <1>0, <2>1, <2>2, <2>3 DEF SignalsEnough, SignalsToCome
<1>2. ASSUME Unlock(t)
      PROVE  SignalsEnough' /\ SignalsToCome'
  <2>1. Sure \subseteq Sure' /\ Owing' = Owing
    BY <1>2 DEF Unlock, Sure, Owing, OwnerKnown
  <2>2. Cardinality(Sure) <= Cardinality(Sure')
    BY <1>0, <2>1, Sizes
  <2>3. /\ items' = items /\ (Sleepers' # {} => Sleepers # {})
        /\ \A u \in Threads : pc'[u] = "fwait" /\ snap'[u] = seq' => pc[u] = "fwait" /\ snap[u] = seq
    BY <1>2 DEF Unlock, Sleepers
  <2> QED BY <1>0, <2>1, <2>2, <2>3 DEF SignalsEnough, SignalsToCome
<1>3. ASSUME Put(t)
      PROVE  SignalsEnough' /\ SignalsToCome'
  <2>1. /\ Sure \cup {t} \subseteq Sure' /\ t \notin Sure
        /\ Owing \cup {t} \subseteq Owing' /\ t \notin Owing
    BY <1>3 DEF Put, Sure, Owing
  <2>2. /\ Cardinality(Sure) + 1 <= Cardinality(Sure')
        /\ Cardinality(Owing) + 1 <= Cardinality(Owing')
    BY <1>0, <2>1, Sizes
  <2>3. /\ items' = items + 1 /\ Sleepers' = Sleepers
        /\ UNCHANGED <<pc, snap, seq>>
    BY <1>3 DEF Put, Sleepers
  <2> QED BY <1>0, <2>2, <2>3 DEF SignalsEnough, SignalsToCome
<1>4. ASSUME Take(t)
      PROVE  SignalsEnough' /\ SignalsToCome'
  <2>1. Sure \ {t} \subseteq Sure' /\ Owing' = Owing
    BY <1>4 DEF Take, Sure, Owing
  <2>2. Cardinality(Sure) - 1 <= Cardinality(Sure')
    BY <1>0, <2>1, Sizes
  <2>3. /\ items' = items - 1 /\ Sleepers' = Sleepers
        /\ \A u \in Threads : pc'[u] = "fwait" /\ snap'[u] = seq' => pc[u] = "fwait" /\ snap[u] = seq
    BY <1>4 DEF Take, Sleepers
  <2> QED BY <1>0, <2>1, <2>2, <2>3 DEF SignalsEnough, SignalsToCome
<1>5. ASSUME NEW limited \in BOOLEAN, WaitBegin(t, limited)
      PROVE  SignalsEnough' /\ SignalsToCome'
  <2>1. items' = 0
    BY <1>5 DEF WaitBegin
  <2> QED BY <1>0, <2>1 DEF SignalsEnough, SignalsToCome
<1>6. ASSUME WaitRelease(t)
      PROVE  SignalsEnough' /\ SignalsToCome'
  <2>1. items' = 0
    BY <1>6 DEF WaitRelease, OwnerKnown
  <2> QED BY <1>0, <2>1 DEF SignalsEnough, SignalsToCome
<1>7. ASSUME FutexWait(t)
      PROVE  SignalsEnough' /\ SignalsToCome'
  <2>1. Owing' = Owing /\ Owing \subseteq Sure' /\ items' = items
    BY <1>7 DEF FutexWait, Owing, Sure
  <2>2. Sure \subseteq Sure'
    BY <1>7 DEF FutexWait, Sure, OwnerKnown
  <2>3. Cardinality(Owing) <= Cardinality(Sure') /\ Cardinality(Sure) <= Cardinality(Sure')
    BY <1>0, <2>1, <2>2, Sizes
  <2>4. SignalsEnough'
    <3>1. CASE snap[t] = seq
      BY <1>0, <1>7, <2>1, <2>3, <3>1 DEF FutexWait, SignalsEnough, SignalsToCome
    <3>2. CASE snap[t] # seq
      BY <1>0, <1>7, <2>1, <2>3, <3>2 DEF FutexWait, SignalsEnough, Sleepers
    <3> QED BY <3>1, <3>2
  <2>5. SignalsToCome'
    BY <1>7, <2>1 DEF FutexWait, SignalsToCome
  <2> QED BY <2>4, <2>5
<1>8. ASSUME TimedOut(t)
      PROVE  SignalsEnough' /\ SignalsToCome'
  <2>1. Sure \subseteq Sure' /\ Owing' = Owing
    BY <1>8 DEF TimedOut, Sure, Owing, OwnerKnown
  <2>2. Cardinality(Sure) <= Cardinality(Sure')
    BY <1>0, <2>1, Sizes
  <2>3. /\ items' = items /\ (Sleepers' # {} => Sleepers # {})
        /\ \A u \in Threads : pc'[u] = "fwait" /\ snap'[u] = seq' => pc[u] = "fwait" /\ snap[u] = seq
    BY <1>8 DEF TimedOut, Sleepers
  <2> QED BY <1>0, <2>1, <2>2, <2>3 DEF SignalsEnough, SignalsToCome
<1>9. ASSUME Interrupted(t)
      PROVE  SignalsEnough' /\ SignalsToCome'
  <2>1. Sure \subseteq Sure' /\ Owing' = Owing
    BY <1>9 DEF Interrupted, Sure, Owing, OwnerKnown
  <2>2. Cardinality(Sure) <= Cardinality(Sure')
    BY <1>0, <2>1, Sizes
  <2>3. /\ items' = items /\ (Sleepers' # {} => Sleepers # {})
        /\ \A u \in Threads : pc'[u] = "fwait" /\ snap'[u] = seq' => pc[u] = "fwait" /\ snap[u] = seq
    BY <1>9 DEF Interrupted, Sleepers
  <2> QED BY <1>0, <2>1, <2>2, <2>3 DEF SignalsEnough, SignalsToCome
<1>10. ASSUME WaitEnd(t)
      PROVE  SignalsEnough' /\ SignalsToCome'
  <2>1. Sure \subseteq Sure' /\ Owing' = Owing
    BY <1>10 DEF WaitEnd, Forget, Cancels, Sure, Owing, OwnerKnown
  <2>2. Cardinality(Sure) <= Cardinality(Sure')
    BY <1>0, <2>1, Sizes
  <2>3. /\ items' = items /\ (Sleepers' # {} => Sleepers # {})
        /\ \A u \in Threads : pc'[u] = "fwait" /\ snap'[u] = seq' => pc[u] = "fwait" /\ snap[u] = seq
    BY <1>10 DEF WaitEnd, Forget, Cancels, Sleepers
  <2> QED BY <1>0, <2>1, <2>2, <2>3 DEF SignalsEnough, SignalsToCome
<1>11. ASSUME NEW wake \in {"wake1", "wakeall"}, SignalBegin(t, wake)
      PROVE  SignalsEnough' /\ SignalsToCome'
  <2>1. Sure \subseteq Sure' /\ items' = items /\ Sleepers' = Sleepers
    BY <1>11 DEF SignalBegin, NoWrap, Sure, Sleepers
  <2>2. Cardinality(Sure) <= Cardinality(Sure')
    BY <1>0, <2>1, Sizes
  <2>3. SignalsEnough'
    BY <1>0, <2>1, <2>2 DEF SignalsEnough
  <2>4. SignalsToCome'
    BY <1>11 DEF SignalBegin, NoWrap, SignalsToCome
  <2> QED BY <2>3, <2>4
<1>12. ASSUME SignalWake(t)
      PROVE  SignalsEnough' /\ SignalsToCome'
  <2>1. /\ items' = items /\ Owing' = Owing
        /\ \A u \in Threads : pc'[u] = "fwait" /\ snap'[u] = seq' => pc[u] = "fwait" /\ snap[u] = seq
    BY <1>12 DEF SignalWake, Owing
  <2>2. SignalsToCome'
    BY <2>1 DEF SignalsToCome
  <2>3. SignalsEnough'
    <3> SUFFICES ASSUME Sleepers' # {} PROVE SignalsEnough'
      BY DEF SignalsEnough
    <3>1. PICK s \in Sleepers : pc' = [u \in Threads |-> IF u = t THEN "idle"
                                                      ELSE IF u = s THEN "relock" ELSE pc[u]]
      BY <1>12 DEF SignalWake, Woken, Sleepers
    <3>2. /\ s \in Threads \ Sure /\ (Sure \ {t}) \cup {s} \subseteq Sure'
      BY <1>12, <3>1 DEF SignalWake, Sure, Sleepers, OwnerKnown
    <3>3. Cardinality(Sure) <= Cardinality(Sure')
      BY <1>0, <3>2, Sizes
    <3> QED BY <1>0, <2>1, <3>1, <3>3 DEF SignalsEnough
  <2> QED BY <2>2, <2>3
<1>13. ASSUME Cancel(t)
      PROVE  SignalsEnough' /\ SignalsToCome'
  <2>1. Sure \subseteq Sure' /\ Owing' = Owing
    BY <1>13 DEF Cancel, Sure, Owing, OwnerKnown
  <2>2. Cardinality(Sure) <= Cardinality(Sure')
    BY <1>0, <2>1, Sizes
  <2>3. /\ items' = items /\ (Sleepers' # {} => Sleepers # {})
        /\ \A u \in Threads : pc'[u] = "fwait" /\ snap'[u] = seq' => pc[u] = "fwait" /\ snap[u] = seq
    BY <1>13 DEF Cancel, Sleepers
  <2> QED BY <1>0, <2>1, <2>2, <2>3 DEF SignalsEnough, SignalsToCome
<1>14. ASSUME DeliverCancel(t)
      PROVE  SignalsEnough' /\ SignalsToCome'
  <2>1. Sure \subseteq Sure' /\ Owing' = Owing
    BY <1>14 DEF DeliverCancel, Sure, Owing, OwnerKnown
  <2>2. Cardinality(Sure) <= Cardinality(Sure')
    BY <1>0, <2>1, Sizes
  <2>3. /\ items' = items /\ (Sleepers' # {} => Sleepers # {})
        /\ \A u \in Threads : pc'[u] = "fwait" /\ snap'[u] = seq' => pc[u] = "fwait" /\ snap[u] = seq
    BY <1>14 DEF DeliverCancel, Sleepers
  <2> QED BY <1>0, <2>1, <2>2, <2>3 DEF SignalsEnough, SignalsToCome
<1> QED BY <1>1, <1>2, <1>3, <1>4, <1>5, <1>6, <1>7, <1>8, <1>9, <1>10, <1>11, <1>12, <1>13, <1>14
     DEF Program, WaitStep, SignalStep

\* The waits, signals and broadcasts, with cancellation and time-outs, keep the invariant.
THEOREM Invariance == Spec => []IInv
<1>1. IInv /\ [Next]_vars => IInv'
  <2> SUFFICES ASSUME IInv, [Next]_vars PROVE IInv'
    OBVIOUS
  <2>1. CASE Next
    BY <2>1, StepMutex, StepSignals DEF Next, IInv
  <2>2. CASE UNCHANGED vars
    BY <2>2 DEF vars, mutex, data, locals, cancel, IInv, TypeOK, DepthKept, OwnerKnown,
                SignalsEnough, SignalsToCome, Sure, Owing, Sleepers
  <2> QED BY <2>1, <2>2
<1> QED BY InitIInv, <1>1, PTL DEF Spec

\* Whoever is sure to look at the items is attentive.
LEMMA Consequences == IInv => NoForgottenWaiter
<1> SUFFICES ASSUME IInv, Sleepers # {} PROVE items <= Cardinality(Attentive)
  BY DEF NoForgottenWaiter
<1>1. Sure \in SUBSET Threads /\ Attentive \in SUBSET Threads /\ Sure \subseteq Attentive
  BY DEF IInv, OwnerKnown, Sure, Attentive
<1>2. Cardinality(Sure) \in Nat /\ Cardinality(Attentive) \in Nat
  BY <1>1, ThreadSets
<1>3. Cardinality(Sure) <= Cardinality(Attentive)
  <2>1. PICK t \in Threads : TRUE
    BY DEF Sleepers
  <2> QED BY <1>1, <2>1, Sizes
<1> QED BY <1>2, <1>3 DEF IInv, SignalsEnough, TypeOK

\* The step by which a cancelled waiter dies comes after it has the mutex back.
LEMMA StepDies ==
  IInv /\ IInv' /\ [Next]_vars
    => [\A t \in Threads :
          pc[t] # "dead" /\ pc'[t] = "dead" => owner' = t /\ count' = nest'[t]]_vars
  BY DEF IInv, OwnerKnown, DepthKept

\* No signal of a condition variable is lost, and every waiter, a cancelled one too, has
\* the mutex back at the depth it had.
THEOREM Safety == Spec => [](NoForgottenWaiter /\ DepthKept) /\ DiesOwningMutex
<1>1. IInv => DepthKept
  BY DEF IInv
<1> QED BY Invariance, Consequences, <1>1, StepDies, PTL DEF Spec, DiesOwningMutex
=============================================================================
