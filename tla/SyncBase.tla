------------------------------ MODULE SyncBase ------------------------------
(***************************************************************************)
(* The constants the synchronisation primitives of pthread_sync.c,         *)
(* pthread.c and semaphore.c share, and what is assumed of them.           *)
(***************************************************************************)
EXTENDS Integers, FiniteSets

CONSTANTS Threads,
          NoOwner,       \* the 0 of an owner or writer field
          Cancellable,   \* the threads pthread_cancel is called on
          SeqMod,        \* 2^32, the number of values of __seq and __cycle
          MaxReaders,    \* INT_MAX, the limit of a read-write lock's __lock
          SemValueMax,   \* SEM_VALUE_MAX
          Initial,       \* the value sem_init is given; it refuses more than the limit
          Targets,       \* the counts pthread_barrier_init is given; it refuses 0
          MaxArrivals,   \* bound of the calls of pthread_barrier_wait
          MaxItems,      \* bound of what the users of a condition variable count
          MaxDepth       \* bound of the nesting of its recursive mutex

ASSUME ThreadsAssumption == IsFiniteSet(Threads)
ASSUME NoOwnerAssumption == NoOwner \notin Threads
ASSUME CancellableAssumption == Cancellable \subseteq Threads
ASSUME LimitAssumption == /\ SeqMod \in Nat \ {0, 1}
                          /\ MaxReaders \in Nat \ {0}
                          /\ SemValueMax \in Nat \ {0}
                          /\ Initial \in 0..SemValueMax
                          /\ Targets \subseteq Nat \ {0}
                          /\ {MaxArrivals, MaxItems, MaxDepth} \subseteq Nat
=============================================================================
