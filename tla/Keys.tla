-------------------------------- MODULE Keys --------------------------------
(***************************************************************************)
(* Thread-specific data (pthread.c) and thread_local destructors           *)
(* (tls_dtors.c): what a thread that exits still has to run.  Destructors  *)
(* are the program's: while one runs it may make any of the calls below.   *)
(***************************************************************************)
EXTENDS Integers, Sequences

CONSTANTS
    Threads,
    NKEYS, DTOR_ITERATIONS,
    MaxValues,             \* bound on the values ever set
    MaxObjects,            \* bound on the thread_local destructors ever registered
    MaxKeys,               \* bound on the keys ever created
    DeleteDuringExit,      \* a key is deleted while another thread looks for its destructor
    DeleteWithValues,      \* a key is deleted while some thread has a value for it
    RegisterInKeyDtor      \* a key's destructor registers a thread_local one

ASSUME KeysAssumption == {NKEYS, DTOR_ITERATIONS} \subseteq Nat \ {0}

VARIABLES keys,            \* used, dtor (whether there is one), id: of the key created last
          tsd,             \* values, 0 for none
          tls_dtors,       \* newest first
          pc,              \* at; it, i, ran: of __tsd_run_dtors
          values,          \* every value set: the thread and the key; whether it went to a destructor; whether wrongly
          objects,         \* every registration: the thread; whether it ran; whether out of order
          created          \* how many keys were created
vars == <<keys, tsd, tls_dtors, pc, values, objects, created>>

Key == 1..NKEYS
Idle == [at |-> "run", it |-> 0, i |-> 1, ran |-> FALSE, v |-> 0]
Init == /\ keys = [k \in Key |-> [used |-> FALSE, dtor |-> FALSE, id |-> 0]] /\ created = 0
        /\ tsd = [t \in Threads |-> [k \in Key |-> 0]] /\ tls_dtors = [t \in Threads |-> <<>>]
        /\ pc = [t \in Threads |-> Idle] /\ values = <<>> /\ objects = <<>>

\* The program's own code, that of a destructor included.
User(t) == pc[t].at \in {"run", "tls_fn", "key_fn"}

\* Mutant: the search does not look whether the key is used.
pthread_key_createAny(t, dtor) ==
    /\ User(t) /\ created < MaxKeys /\ keys' = [keys EXCEPT ![1] = [used |-> TRUE, dtor |-> dtor, id |-> created + 1]]
    /\ created' = created + 1 /\ UNCHANGED <<tsd, tls_dtors, pc, values, objects>>
pthread_key_create(t, dtor) ==
    /\ User(t) /\ created < MaxKeys
    /\ \E k \in Key : /\ ~keys[k].used /\ \A j \in 1..(k - 1) : keys[j].used
                      /\ keys' = [keys EXCEPT ![k] = [used |-> TRUE, dtor |-> dtor, id |-> created + 1]]
    /\ created' = created + 1 /\ UNCHANGED <<tsd, tls_dtors, pc, values, objects>>

pthread_key_delete(t, k) ==
    /\ User(t) /\ keys[k].used
    /\ DeleteDuringExit \/ \A u \in Threads \ {t} : pc[u].at # "fetch" \/ pc[u].i # k
    /\ DeleteWithValues \/ \A u \in Threads : tsd[u][k] = 0
    /\ keys' = [keys EXCEPT ![k].used = FALSE, ![k].dtor = FALSE]
    /\ UNCHANGED <<tsd, tls_dtors, pc, values, objects, created>>

\* A value other than 0 is never set twice, so that its way can be followed.
pthread_setspecific(t, k, null) ==
    /\ User(t) /\ keys[k].used /\ (null \/ Len(values) < MaxValues)
    /\ tsd' = [tsd EXCEPT ![t][k] = IF null THEN 0 ELSE Len(values) + 1]
    /\ values' = IF null THEN values ELSE Append(values, [t |-> t, id |-> keys[k].id, passed |-> FALSE, wrong |-> FALSE])
    /\ UNCHANGED <<keys, tls_dtors, pc, objects, created>>

\* __cxa_thread_atexit_impl, when malloc does not fail
Register(t) ==
    /\ User(t) /\ (pc[t].at = "key_fn" => RegisterInKeyDtor) /\ Len(objects) < MaxObjects
    /\ objects' = Append(objects, [t |-> t, ran |-> FALSE, wrong |-> FALSE])
    /\ tls_dtors' = [tls_dtors EXCEPT ![t] = <<Len(objects) + 1>> \o @]
    /\ UNCHANGED <<keys, tsd, pc, values, created>>

\* pthread_exit
Exit(t) == /\ pc[t].at = "run" /\ pc' = [pc EXCEPT ![t].at = "tls"]
           /\ UNCHANGED <<keys, tsd, tls_dtors, values, objects, created>>

\* An object's destructor runs; wrong if a newer one has not run yet.
Destroyed(t, i) == [objects EXCEPT ![i] = [@ EXCEPT !.ran = TRUE, !.wrong = \E j \in DOMAIN objects : j > i /\ objects[j].t = t /\ ~objects[j].ran]]
\* Mutant: the oldest comes first.
RunTlsOldest(t) ==
    /\ pc[t].at = "tls"
    /\ IF tls_dtors[t] = <<>> THEN pc' = [pc EXCEPT ![t].at = "scan"] /\ UNCHANGED <<tls_dtors, objects>>
       ELSE /\ pc' = [pc EXCEPT ![t].at = "tls_fn"] /\ tls_dtors' = [tls_dtors EXCEPT ![t] = SubSeq(@, 1, Len(@) - 1)]
            /\ objects' = Destroyed(t, tls_dtors[t][Len(tls_dtors[t])])
    /\ UNCHANGED <<keys, tsd, values, created>>
\* __run_tls_dtors: the newest is taken off the list and called.
RunTls(t) ==
    /\ pc[t].at = "tls"
    /\ IF tls_dtors[t] = <<>> THEN pc' = [pc EXCEPT ![t].at = "scan"] /\ UNCHANGED <<tls_dtors, objects>>
       ELSE /\ pc' = [pc EXCEPT ![t].at = "tls_fn"] /\ tls_dtors' = [tls_dtors EXCEPT ![t] = Tail(@)]
            /\ objects' = Destroyed(t, Head(tls_dtors[t]))
    /\ UNCHANGED <<keys, tsd, values, created>>
TlsReturn(t) == /\ pc[t].at = "tls_fn" /\ pc' = [pc EXCEPT ![t].at = "tls"]
                /\ UNCHANGED <<keys, tsd, tls_dtors, values, objects, created>>

\* __tsd_run_dtors: past key i, and perhaps into the next round
Past(p, ran) == IF p.i < NKEYS THEN [p EXCEPT !.at = "scan", !.i = @ + 1, !.ran = ran]
                ELSE IF ran /\ p.it + 1 < DTOR_ITERATIONS THEN [p EXCEPT !.at = "scan", !.i = 1, !.it = @ + 1, !.ran = FALSE]
                ELSE [p EXCEPT !.at = "gone", !.ran = ran]
\* Mutant: the value is cleared when its destructor has returned.
ScanLate(t) ==
    LET p == pc[t] IN
    /\ p.at = "scan" /\ UNCHANGED tsd
    /\ pc' = [pc EXCEPT ![t] = IF tsd[t][p.i] = 0 \/ ~keys[p.i].used \/ ~keys[p.i].dtor THEN Past(p, p.ran)
                               ELSE [p EXCEPT !.at = "fetch", !.v = tsd[t][p.i]]]
    /\ UNCHANGED <<keys, tls_dtors, values, objects, created>>
Scan(t) ==
    LET p == pc[t] IN
    /\ p.at = "scan"
    /\ IF tsd[t][p.i] = 0 \/ ~keys[p.i].used \/ ~keys[p.i].dtor
         THEN pc' = [pc EXCEPT ![t] = Past(p, p.ran)] /\ UNCHANGED tsd
         ELSE /\ pc' = [pc EXCEPT ![t].at = "fetch", ![t].v = tsd[t][p.i]]
              /\ tsd' = [tsd EXCEPT ![t][p.i] = 0]
    /\ UNCHANGED <<keys, tls_dtors, values, objects, created>>
\* The destructor is read again and called.
Fetch(t) ==
    LET p == pc[t] IN
    /\ p.at = "fetch" /\ pc' = [pc EXCEPT ![t].at = "key_fn"]
    /\ values' = [values EXCEPT ![p.v] = [@ EXCEPT !.passed = TRUE,
                    !.wrong = values[p.v].wrong \/ values[p.v].passed \/ values[p.v].t # t \/ values[p.v].id # keys[p.i].id \/ ~keys[p.i].dtor]]
    /\ UNCHANGED <<keys, tsd, tls_dtors, objects, created>>
KeyReturn(t) == /\ pc[t].at = "key_fn" /\ pc' = [pc EXCEPT ![t] = [Past(@, TRUE) EXCEPT !.v = 0]]
                /\ UNCHANGED <<keys, tsd, tls_dtors, values, objects, created>>

Next == \E t \in Threads :
           \/ \E d \in BOOLEAN : pthread_key_create(t, d)
           \/ \E k \in Key : pthread_key_delete(t, k) \/ \E null \in BOOLEAN : pthread_setspecific(t, k, null)
           \/ Register(t) \/ Exit(t) \/ RunTls(t) \/ TlsReturn(t) \/ Scan(t) \/ Fetch(t) \/ KeyReturn(t)
Spec == Init /\ [][Next]_vars

\* When a thread is gone every thread_local destructor it registered has run, the newest
\* first and those registered meanwhile included; a value goes to the destructor of the
\* key it was set for, in its thread and once, when the thread no longer has it; and a
\* value is left over only for a key without a destructor, or after DTOR_ITERATIONS
\* rounds that each found one.
KeysTrue ==
    /\ \A i \in DOMAIN objects :
         LET t == objects[i].t IN
         /\ pc[t].at \in {"scan", "fetch", "key_fn", "gone"} => objects[i].ran
         /\ ~objects[i].ran <=> \E n \in 1..Len(tls_dtors[t]) : tls_dtors[t][n] = i
         /\ ~objects[i].wrong
    /\ \A v \in DOMAIN values : /\ ~values[v].wrong
                                /\ values[v].passed => \A t \in Threads, k \in Key : tsd[t][k] # v
    /\ \A t \in Threads, k \in Key :
         /\ tsd[t][k] # 0 => values[tsd[t][k]].t = t /\ (keys[k].used => values[tsd[t][k]].id = keys[k].id)
         /\ pc[t].at = "gone" /\ tsd[t][k] # 0 /\ keys[k].used /\ keys[k].dtor
              => pc[t].it = DTOR_ITERATIONS - 1 /\ pc[t].ran
=============================================================================
