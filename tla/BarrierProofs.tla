--------------------------- MODULE BarrierProofs ---------------------------
(***************************************************************************)
(* pthread_barrier_wait, for any finite set of threads, any target and any  *)
(* width of __cycle and __seq: no call returns before its own group of      *)
(* target calls is complete, and the broadcast that ends a group leaves     *)
(* nobody of it asleep.  The lemmas about the groups are arithmetic; the    *)
(* rest is that what a waiter compares, its copy of __cycle, says whether   *)
(* its group is complete.                                                   *)
(***************************************************************************)
EXTENDS Barrier, FiniteSetTheorems, TLAPS

\* Quotient and remainder.
LEMMA Division ==
  ASSUME NEW n \in Nat \ {0}, NEW a \in Nat
  PROVE  /\ a \div n \in Nat /\ a % n \in 0..(n - 1)
         /\ a = n * (a \div n) + (a % n)
  OBVIOUS

\* The remainder is the only one in its range.
LEMMA Remainder ==
  ASSUME NEW n \in Nat \ {0}, NEW c \in Nat, NEW r \in 0..(n - 1)
  PROVE  (n * c + r) % n = r
  OBVIOUS

\* Of two multiples of n, the larger one is at least n more.
LEMMA NextMultiple ==
  ASSUME NEW n \in Nat \ {0}, NEW q \in Nat, NEW c \in Nat, q * n < c * n + n
  PROVE  q * n <= c * n
<1>1. ASSUME q >= c + 1 PROVE FALSE
  <2>1. q * n >= (c + 1) * n
    BY <1>1
  <2> QED BY <2>1
<1> QED BY <1>1

\* The last arrival of the group of number k is the next multiple of the target.
LEMMA Group ==
  ASSUME NEW n \in Nat \ {0}, NEW k \in Nat \ {0}
  PROVE  /\ (k + n - 1) \div n \in Nat
         /\ k <= ((k + n - 1) \div n) * n
         /\ ((k + n - 1) \div n) * n < k + n
<1>1. k + n - 1 \in Nat
  OBVIOUS
<1> DEFINE q == (k + n - 1) \div n
           r == (k + n - 1) % n
<1>2. q \in Nat /\ r \in 0..(n - 1) /\ k + n - 1 = n * q + r
  BY <1>1, Division
<1> HIDE DEF q, r
<1>3. q \in Nat /\ k <= q * n /\ q * n < k + n
  BY <1>2
<1> QED BY <1>3 DEF q

\* The arrival that makes __count reach the target completes the group of every
\* earlier one, and its own.
LEMMA LastOfGroup ==
  ASSUME NEW n \in Nat \ {0}, NEW a \in Nat, (a % n) + 1 = n
  PROVE  /\ (a + 1) % n = 0
         /\ \A k \in 1..(a + 1) : a + 1 >= ((k + n - 1) \div n) * n
<1> DEFINE c == a \div n
           r == a % n
<1>1. c \in Nat /\ r \in 0..(n - 1) /\ a = n * c + r
  BY Division
<1>2. r + 1 = n
  OBVIOUS
<1> HIDE DEF c, r
<1>3. a + 1 = (c + 1) * n /\ c + 1 \in Nat
  BY <1>1, <1>2
<1>4. (a + 1) % n = 0
  <2>1. a + 1 = n * (c + 1) + 0 /\ 0 \in 0..(n - 1)
    BY <1>1, <1>3
  <2>2. (n * (c + 1) + 0) % n = 0
    BY <1>3, <2>1, Remainder
  <2> QED BY <2>1, <2>2
<1>5. ASSUME NEW k \in 1..(a + 1)
      PROVE  a + 1 >= ((k + n - 1) \div n) * n
  <2> DEFINE q == (k + n - 1) \div n
  <2>1. q \in Nat /\ k <= q * n /\ q * n < k + n
    <3>1. k \in Nat \ {0}
      OBVIOUS
    <3> QED BY <3>1, Group DEF q
  <2> HIDE DEF q
  <2>2. q * n < (c + 1) * n + n
    BY <1>3, <2>1
  <2>3. q * n <= (c + 1) * n
    BY <1>3, <2>1, <2>2, NextMultiple
  <2>4. a + 1 >= q * n
    BY <1>3, <2>3
  <2> QED BY <2>4 DEF q
<1> QED BY <1>4, <1>5

\* Any other arrival completes no group, and not its own.
LEMMA InsideGroup ==
  ASSUME NEW n \in Nat \ {0}, NEW a \in Nat, (a % n) + 1 # n
  PROVE  /\ (a + 1) % n = (a % n) + 1
         /\ \A k \in 1..(a + 1) :
              /\ a + 1 >= ((k + n - 1) \div n) * n <=> a >= ((k + n - 1) \div n) * n
              /\ k = a + 1 => ~(a + 1 >= ((k + n - 1) \div n) * n)
<1> DEFINE c == a \div n
           r == a % n
<1>1. c \in Nat /\ r \in 0..(n - 1) /\ a = n * c + r
  BY Division
<1>2. r + 1 # n
  OBVIOUS
<1>3. (a + 1) % n = (a % n) + 1
  <2> HIDE DEF c, r
  <2>1. a + 1 = n * c + (r + 1) /\ r + 1 \in 0..(n - 1)
    BY <1>1, <1>2
  <2>2. (a + 1) % n = r + 1
    BY <1>1, <2>1
  <2> QED BY <2>2 DEF r
<1> HIDE DEF c, r
<1>4. ASSUME NEW k \in 1..(a + 1)
      PROVE  /\ a + 1 >= ((k + n - 1) \div n) * n <=> a >= ((k + n - 1) \div n) * n
             /\ k = a + 1 => ~(a + 1 >= ((k + n - 1) \div n) * n)
  <2> DEFINE q == (k + n - 1) \div n
  <2>1. q \in Nat /\ k <= q * n /\ q * n < k + n
    <3>1. k \in Nat \ {0}
      OBVIOUS
    <3> QED BY <3>1, Group DEF q
  <2> HIDE DEF q
  <2>2. a + 1 < c * n + n /\ a >= c * n
    BY <1>1, <1>2
  <2>3. a + 1 >= q * n => q * n <= c * n
    BY <1>1, <2>1, <2>2, NextMultiple
  <2>4. (a + 1 >= q * n <=> a >= q * n) /\ (k = a + 1 => ~(a + 1 >= q * n))
    BY <1>1, <2>1, <2>2, <2>3
  <2> QED BY <2>4 DEF q
<1> QED BY <1>3, <1>4

\* A barrier as pthread_barrier_init leaves it.
LEMMA InitIInv == Init => IInv
<1> SUFFICES ASSUME Init PROVE IInv
  OBVIOUS
<1> USE DEF Init
<1>1. target \in Nat \ {0}
  BY LimitAssumption
<1>2. TypeOK
  BY <1>1, LimitAssumption DEF TypeOK
<1>3. CyclesTrue
  <2>1. Callers = {}
    BY DEF Callers
  <2>2. 0 % target = 0
    BY <1>1
  <2> QED BY <2>1, <2>2, FS_EmptySet, LimitAssumption, NoOwnerAssumption DEF CyclesTrue
<1> QED BY <1>2, <1>3 DEF IInv, NobodyLeftBehind, Sleepers

\* The bound of the calls: an arrival is counted in one term or the other.
LEMMA StepBound ==
  ASSUME IInv, NEW t \in Threads,
         Call(t) \/ WithMutex(t) \/ Running(t) \/ Interrupted(t)
  PROVE  /\ arrived' + Cardinality(Callers') <= MaxArrivals
         /\ Cardinality(Callers') \in Nat
<1> USE LimitAssumption DEF IInv, TypeOK, Goto, CyclesTrue
<1>1. /\ IsFiniteSet(Callers) /\ Cardinality(Callers) \in Nat
      /\ IsFiniteSet(Callers') /\ Cardinality(Callers') \in Nat
  BY ThreadsAssumption, FS_Subset, FS_CardinalityType DEF Callers
<1>2. CASE Call(t)
  <2>1. Callers' = Callers \cup {t} /\ t \notin Callers /\ arrived' = arrived
    BY <1>2 DEF Call, Callers
  <2>2. Cardinality(Callers') = Cardinality(Callers) + 1
    BY <1>1, <2>1, FS_AddElement
  <2> QED BY <1>1, <1>2, <2>1, <2>2 DEF Call
<1>3. CASE EnterLast(t) \/ EnterWait(t)
  <2>1. Callers' = Callers \ {t} /\ t \in Callers /\ arrived' = arrived + 1
    BY <1>3 DEF EnterLast, EnterWait, Callers
  <2>2. Cardinality(Callers') = Cardinality(Callers) - 1
    BY <1>1, <2>1, FS_RemoveElement
  <2> QED BY <1>1, <2>1, <2>2
<1>4. CASE Leave(t) \/ WaitAgain(t) \/ Running(t) \/ Interrupted(t)
  <2>1. Callers' = Callers /\ arrived' = arrived
    BY <1>4 DEF Leave, WaitAgain, Running, WakeAll, LeaveSerial, FutexWait, Interrupted, Callers, Sleepers
  <2> QED BY <1>1, <2>1
<1> QED BY <1>2, <1>3, <1>4 DEF WithMutex

\* A step of thread t keeps the invariant; StepBound gives the part about the bound.
LEMMA StepIInv ==
  ASSUME IInv, NEW t \in Threads,
         arrived' + Cardinality(Callers') <= MaxArrivals, Cardinality(Callers') \in Nat,
         Call(t) \/ WithMutex(t) \/ Running(t) \/ Interrupted(t)
  PROVE  IInv'
<1> USE LimitAssumption, NoOwnerAssumption DEF IInv, TypeOK, Goto
<1>0. target \in Nat \ {0} /\ arrived \in Nat
  OBVIOUS
<1>1. ASSUME Call(t)
      PROVE  IInv'
  <2>1. \A k : Complete(k)' <=> Complete(k)
    BY <1>1 DEF Call, Complete
  <2>2. TypeOK'
    BY <1>1 DEF Call
  <2>3. CyclesTrue'
    BY <1>1, <2>1 DEF Call, CyclesTrue
  <2>4. NobodyLeftBehind'
    BY <1>1, <2>1 DEF Call, NobodyLeftBehind, Sleepers, CyclesTrue
  <2> QED BY <2>2, <2>3, <2>4
<1>2. ASSUME EnterLast(t)
      PROVE  IInv'
  <2>1. arrived' = arrived + 1 /\ target' = target /\ (arrived % target) + 1 = target
    BY <1>2 DEF EnterLast, CyclesTrue
  <2>2. arrived' % target' = 0
    BY <1>0, <2>1, LastOfGroup
  <2>3. \A k \in 1..arrived' : Complete(k)'
    BY <1>0, <2>1, LastOfGroup DEF Complete
  <2>4. TypeOK'
    BY <1>2 DEF EnterLast
  <2>5. CyclesTrue'
    BY <1>2, <2>1, <2>2, <2>3, <2>4 DEF EnterLast, NoWrap, CyclesTrue
  <2>6. NobodyLeftBehind'
    BY <1>2 DEF EnterLast, NobodyLeftBehind
  <2> QED BY <2>4, <2>5, <2>6
<1>3. ASSUME EnterWait(t)
      PROVE  IInv'
  <2>1. arrived' = arrived + 1 /\ target' = target /\ (arrived % target) + 1 # target
    BY <1>3 DEF EnterWait, CyclesTrue
  <2>2. arrived' % target' = (arrived % target) + 1
    BY <1>0, <2>1, InsideGroup
  <2>3. /\ \A k \in 1..arrived' : Complete(k)' <=> Complete(k)
        /\ \A k \in 1..arrived' : k = arrived' => ~Complete(k)'
    BY <1>0, <2>1, InsideGroup DEF Complete
  <2>4. TypeOK'
    BY <1>3 DEF EnterWait
  <2>5. CyclesTrue'
    BY <1>3, <2>1, <2>2, <2>3, <2>4 DEF EnterWait, CyclesTrue
  <2>6. NobodyLeftBehind'
    BY <1>3, <2>1, <2>3 DEF EnterWait, NobodyLeftBehind, Sleepers, CyclesTrue
  <2> QED BY <2>4, <2>5, <2>6
<1>4. ASSUME Leave(t)
      PROVE  IInv'
  <2>1. \A k : Complete(k)' <=> Complete(k)
    BY <1>4 DEF Leave, Complete
  <2>2. TypeOK'
    BY <1>4 DEF Leave
  <2>3. CyclesTrue'
    BY <1>4, <2>1 DEF Leave, CyclesTrue
  <2>4. NobodyLeftBehind'
    BY <1>4, <2>1 DEF Leave, NobodyLeftBehind, Sleepers, CyclesTrue
  <2> QED BY <2>2, <2>3, <2>4
<1>5. ASSUME WaitAgain(t)
      PROVE  IInv'
  <2>1. \A k : Complete(k)' <=> Complete(k)
    BY <1>5 DEF WaitAgain, Complete
  <2>2. TypeOK'
    BY <1>5 DEF WaitAgain
  <2>3. CyclesTrue'
    BY <1>5, <2>1 DEF WaitAgain, CyclesTrue
  <2>4. NobodyLeftBehind'
    BY <1>5, <2>1 DEF WaitAgain, NobodyLeftBehind, Sleepers, CyclesTrue
  <2> QED BY <2>2, <2>3, <2>4
<1>6. ASSUME WakeAll(t)
      PROVE  IInv'
  <2>1. \A k : Complete(k)' <=> Complete(k)
    BY <1>6 DEF WakeAll, Sleepers, Complete
  <2>2. TypeOK'
    BY <1>6 DEF WakeAll, Sleepers
  <2>3. CyclesTrue'
    BY <1>6, <2>1 DEF WakeAll, Sleepers, CyclesTrue
  <2>4. NobodyLeftBehind'
    BY <1>6, <2>1 DEF WakeAll, Sleepers, NobodyLeftBehind, CyclesTrue
  <2> QED BY <2>2, <2>3, <2>4
<1>7. ASSUME LeaveSerial(t)
      PROVE  IInv'
  <2>1. \A k : Complete(k)' <=> Complete(k)
    BY <1>7 DEF LeaveSerial, Complete
  <2>2. TypeOK'
    BY <1>7 DEF LeaveSerial
  <2>3. CyclesTrue'
    BY <1>7, <2>1 DEF LeaveSerial, CyclesTrue
  <2>4. NobodyLeftBehind'
    BY <1>7, <2>1 DEF LeaveSerial, NobodyLeftBehind, Sleepers, CyclesTrue
  <2> QED BY <2>2, <2>3, <2>4
<1>8. ASSUME FutexWait(t)
      PROVE  IInv'
  <2>1. \A k : Complete(k)' <=> Complete(k)
    BY <1>8 DEF FutexWait, Complete
  <2>2. TypeOK'
    BY <1>8 DEF FutexWait
  <2>3. CyclesTrue'
    BY <1>8, <2>1 DEF FutexWait, CyclesTrue
  <2>4. NobodyLeftBehind'
    BY <1>8, <2>1 DEF FutexWait, NobodyLeftBehind, Sleepers, CyclesTrue
  <2> QED BY <2>2, <2>3, <2>4
<1>9. ASSUME Interrupted(t)
      PROVE  IInv'
  <2>1. \A k : Complete(k)' <=> Complete(k)
    BY <1>9 DEF Interrupted, Complete
  <2>2. TypeOK'
    BY <1>9 DEF Interrupted
  <2>3. CyclesTrue'
    BY <1>9, <2>1 DEF Interrupted, CyclesTrue
  <2>4. NobodyLeftBehind'
    BY <1>9, <2>1 DEF Interrupted, NobodyLeftBehind, Sleepers, CyclesTrue
  <2> QED BY <2>2, <2>3, <2>4
<1> QED BY <1>1, <1>2, <1>3, <1>4, <1>5, <1>6, <1>7, <1>8, <1>9 DEF WithMutex, Running

\* The inductive invariant of the barrier.
THEOREM Invariance == Spec => []IInv
<1>1. IInv /\ [Next]_vars => IInv'
  <2> SUFFICES ASSUME IInv, [Next]_vars PROVE IInv'
    OBVIOUS
  <2>1. CASE Next
    BY <2>1, StepBound, StepIInv DEF Next
  <2>2. CASE UNCHANGED vars
    BY <2>2 DEF vars, IInv, TypeOK, CyclesTrue, Callers, NobodyLeftBehind, Sleepers, Complete
  <2> QED BY <2>1, <2>2
<1> QED BY InitIInv, <1>1, PTL DEF Spec

\* Whoever leaves has seen its cycle end, or has ended it.
LEMMA StepRelease ==
  IInv /\ [Next]_vars
    => [\A t \in Threads : ticket[t] # 0 /\ ticket'[t] = 0 => Complete(ticket[t])]_vars
<1> SUFFICES ASSUME IInv, Next, NEW t \in Threads, ticket[t] # 0, ticket'[t] = 0
             PROVE  Complete(ticket[t])
  OBVIOUS
<1> USE DEF IInv, TypeOK, CyclesTrue
<1>1. PICK u \in Threads : Call(u) \/ WithMutex(u) \/ Running(u) \/ Interrupted(u)
  BY DEF Next
<1>2. (Leave(u) \/ LeaveSerial(u)) /\ u = t
  BY <1>1 DEF Call, WithMutex, EnterLast, EnterWait, Leave, WaitAgain, Running, WakeAll,
              LeaveSerial, FutexWait, Interrupted
<1> QED BY <1>2 DEF Leave, LeaveSerial

\* pthread_barrier_wait returns to a thread only when its own cycle is complete, and
\* no thread of a complete cycle is left asleep once the broadcast is over.
THEOREM Safety == Spec => []NobodyLeftBehind /\ NoEarlyRelease
<1>1. IInv => NobodyLeftBehind
  BY DEF IInv
<1> QED BY Invariance, <1>1, StepRelease, PTL DEF Spec, NoEarlyRelease
=============================================================================
