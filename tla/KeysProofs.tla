----------------------------- MODULE KeysProofs -----------------------------
(***************************************************************************)
(* KeysTrue, for a program that keeps to the rules and for every number of *)
(* threads, keys, rounds, values and objects.  It is inductive only with   *)
(* what the lists of destructors hold, with where a value may be, and with *)
(* what a round of __tsd_run_dtors has found so far.                       *)
(***************************************************************************)
EXTENDS Keys, TLAPS

\* The program deletes no key that a thread has a value of or is about to use, and the
\* destructor of a key registers no thread_local one.
Careful == ~DeleteDuringExit /\ ~DeleteWithValues /\ ~RegisterInKeyDtor

Entry == [used : BOOLEAN, dtor : BOOLEAN, id : Nat]
Place == [at : {"run", "tls", "tls_fn", "scan", "fetch", "key_fn", "gone"}, it : Nat, i : Key, ran : BOOLEAN, v : Nat]
Value == [t : Threads, id : Nat, passed : BOOLEAN, wrong : BOOLEAN]
Object == [t : Threads, ran : BOOLEAN, wrong : BOOLEAN]
TypeInv ==
    /\ created \in Nat /\ keys \in [Key -> Entry] /\ tsd \in [Threads -> [Key -> Nat]] /\ pc \in [Threads -> Place]
    /\ tls_dtors \in [Threads -> Seq(Nat)] /\ values \in Seq(Value) /\ objects \in Seq(Object)

\* A thread's list holds, newest first, exactly what it registered and has not run, and is
\* empty once the thread has gone on to its keys.
ObjectsInv ==
    /\ \A t \in Threads : \A m, n \in 1..Len(tls_dtors[t]) : m < n => tls_dtors[t][m] > tls_dtors[t][n]
    /\ \A t \in Threads : \A n \in 1..Len(tls_dtors[t]) :
         /\ tls_dtors[t][n] \in 1..Len(objects)
         /\ objects[tls_dtors[t][n]].t = t /\ ~objects[tls_dtors[t][n]].ran
    /\ \A i \in 1..Len(objects) :
         /\ ~objects[i].wrong
         /\ ~objects[i].ran => \E n \in 1..Len(tls_dtors[objects[i].t]) : tls_dtors[objects[i].t][n] = i
    /\ \A t \in Threads : pc[t].at \in {"scan", "fetch", "key_fn", "gone"} => tls_dtors[t] = <<>>

\* A value that a thread has is of a key in use, is the thread's own and was never passed on;
\* one that the thread is about to pass on is nowhere else, and its key stays.
ValuesInv ==
    /\ \A v \in 1..Len(values) : ~values[v].wrong
    /\ \A t \in Threads, k \in Key : tsd[t][k] # 0 =>
         /\ tsd[t][k] \in 1..Len(values) /\ keys[k].used
         /\ values[tsd[t][k]].t = t /\ ~values[tsd[t][k]].passed /\ values[tsd[t][k]].id = keys[k].id
    /\ \A t \in Threads, j, k \in Key : tsd[t][k] # 0 /\ tsd[t][j] = tsd[t][k] => j = k
    /\ \A t \in Threads : pc[t].at = "fetch" =>
         /\ pc[t].v \in 1..Len(values) /\ keys[pc[t].i].used /\ keys[pc[t].i].dtor
         /\ values[pc[t].v].t = t /\ ~values[pc[t].v].passed /\ values[pc[t].v].id = keys[pc[t].i].id
         /\ \A k \in Key : tsd[t][k] # pc[t].v

\* In a round that has found no value yet the keys passed have none with a destructor.
RoundsInv ==
    \A t \in Threads :
       /\ pc[t].it < DTOR_ITERATIONS
       /\ pc[t].at \in {"run", "tls", "tls_fn"} => pc[t].i = 1
       /\ pc[t].at = "scan" /\ ~pc[t].ran => \A k \in 1..(pc[t].i - 1) : tsd[t][k] = 0 \/ ~keys[k].dtor
       /\ pc[t].at = "gone" /\ pc[t].ran => pc[t].it = DTOR_ITERATIONS - 1
       /\ pc[t].at = "gone" /\ ~pc[t].ran => \A k \in Key : tsd[t][k] = 0 \/ ~keys[k].dtor

IInv == TypeInv /\ ObjectsInv /\ ValuesInv /\ RoundsInv

-----------------------------------------------------------------------------
(* The proof *)

\* What TypeInv says of the fields of the records.
LEMMA Fields ==
  ASSUME TypeInv
  PROVE  /\ \A k \in Key : keys[k] \in Entry /\ keys[k].used \in BOOLEAN /\ keys[k].dtor \in BOOLEAN /\ keys[k].id \in Nat
         /\ \A t \in Threads, k \in Key : tsd[t][k] \in Nat
         /\ \A t \in Threads : /\ pc[t].at \in {"run", "tls", "tls_fn", "scan", "fetch", "key_fn", "gone"}
                               /\ pc[t].it \in Nat /\ pc[t].i \in Key /\ pc[t].ran \in BOOLEAN /\ pc[t].v \in Nat
         /\ Len(values) \in Nat /\ DOMAIN values = 1..Len(values)
         /\ \A v \in 1..Len(values) : values[v].t \in Threads /\ values[v].passed \in BOOLEAN /\ values[v].wrong \in BOOLEAN
         /\ Len(objects) \in Nat /\ DOMAIN objects = 1..Len(objects)
         /\ \A i \in 1..Len(objects) : objects[i].t \in Threads /\ objects[i].ran \in BOOLEAN /\ objects[i].wrong \in BOOLEAN
         /\ \A t \in Threads : Len(tls_dtors[t]) \in Nat /\ \A n \in 1..Len(tls_dtors[t]) : tls_dtors[t][n] \in Nat
<1>1. \A k \in Key : keys[k] \in Entry
  BY DEF TypeInv
<1>2. \A k \in Key : keys[k].used \in BOOLEAN /\ keys[k].dtor \in BOOLEAN /\ keys[k].id \in Nat
  BY <1>1 DEF Entry
<1>3. \A t \in Threads, k \in Key : tsd[t][k] \in Nat
  BY DEF TypeInv
<1>4. \A t \in Threads : pc[t] \in Place
  BY DEF TypeInv
<1>5. \A t \in Threads : /\ pc[t].at \in {"run", "tls", "tls_fn", "scan", "fetch", "key_fn", "gone"}
                         /\ pc[t].it \in Nat /\ pc[t].i \in Key /\ pc[t].ran \in BOOLEAN /\ pc[t].v \in Nat
  BY <1>4, Zenon DEF Place
<1>6. /\ Len(values) \in Nat /\ DOMAIN values = 1..Len(values) /\ \A v \in 1..Len(values) : values[v] \in Value
      /\ Len(objects) \in Nat /\ DOMAIN objects = 1..Len(objects) /\ \A i \in 1..Len(objects) : objects[i] \in Object
  BY DEF TypeInv
<1>7. \A v \in 1..Len(values) : values[v].t \in Threads /\ values[v].passed \in BOOLEAN /\ values[v].wrong \in BOOLEAN
  BY <1>6 DEF Value
<1>8. \A i \in 1..Len(objects) : objects[i].t \in Threads /\ objects[i].ran \in BOOLEAN /\ objects[i].wrong \in BOOLEAN
  BY <1>6 DEF Object
<1>9. \A t \in Threads : Len(tls_dtors[t]) \in Nat /\ \A n \in 1..Len(tls_dtors[t]) : tls_dtors[t][n] \in Nat
  BY DEF TypeInv
<1> QED
  BY <1>1, <1>2, <1>3, <1>5, <1>6, <1>7, <1>8, <1>9

\* A thread that goes from one place to another, and the rest of its record stays.
LEMMA Goes ==
  ASSUME TypeInv, NEW t \in Threads, NEW a \in {"run", "tls", "tls_fn", "scan", "fetch", "key_fn", "gone"},
         pc' = [pc EXCEPT ![t].at = a]
  PROVE  /\ pc' \in [Threads -> Place]
         /\ pc'[t].at = a /\ pc'[t].it = pc[t].it /\ pc'[t].i = pc[t].i /\ pc'[t].ran = pc[t].ran /\ pc'[t].v = pc[t].v
         /\ \A u \in Threads : u # t => pc'[u] = pc[u]
<1> DEFINE q == [pc[t] EXCEPT !.at = a]
<1>1. pc[t] \in Place
  BY DEF TypeInv
<1>2. q \in Place /\ q.at = a /\ q.it = pc[t].it /\ q.i = pc[t].i /\ q.ran = pc[t].ran /\ q.v = pc[t].v
  BY <1>1 DEF Place
<1>3. pc' = [pc EXCEPT ![t] = q]
  OBVIOUS
<1> HIDE DEF q
<1>4. pc' \in [Threads -> Place] /\ pc'[t] = q /\ \A u \in Threads : u # t => pc'[u] = pc[u]
  BY <1>2, <1>3, Zenon DEF TypeInv
<1> QED
  BY <1>2, <1>4

LEMMA InitIInv == Init => IInv
<1> SUFFICES ASSUME Init PROVE IInv
  OBVIOUS
<1>1. TypeInv
  BY KeysAssumption DEF Init, TypeInv, Idle, Key, Entry, Place
<1>2. ObjectsInv
  BY DEF Init, ObjectsInv, Idle
<1>3. ValuesInv
  BY DEF Init, ValuesInv, Idle
<1>4. RoundsInv
  <2>1. \A t \in Threads : pc[t].at = "run" /\ pc[t].it = 0 /\ pc[t].i = 1
    BY Zenon DEF Init, Idle
  <2>2. 0 < DTOR_ITERATIONS
    BY KeysAssumption
  <2> QED
    BY <2>1, <2>2, Zenon DEF RoundsInv
<1> QED
  BY <1>1, <1>2, <1>3, <1>4 DEF IInv

LEMMA CreateKeeps ==
  ASSUME IInv, NEW t \in Threads, NEW d \in BOOLEAN, pthread_key_create(t, d)
  PROVE  IInv'
<1>1. PICK k \in Key : ~keys[k].used /\ keys' = [keys EXCEPT ![k] = [used |-> TRUE, dtor |-> d, id |-> created + 1]]
  BY Zenon DEF pthread_key_create
<1>2. created' = created + 1 /\ UNCHANGED <<tsd, tls_dtors, pc, values, objects>>
  BY DEF pthread_key_create
<1>3. [used |-> TRUE, dtor |-> d, id |-> created + 1] \in Entry
  BY DEF Entry, IInv, TypeInv
<1>4. TypeInv'
  BY <1>1, <1>2, <1>3 DEF IInv, TypeInv
<1>5. ObjectsInv'
  BY <1>2 DEF IInv, ObjectsInv
<1>6. \A u \in Threads : tsd[u][k] = 0
  BY <1>1 DEF IInv, ValuesInv
<1>7. \A j \in Key : j # k => keys'[j] = keys[j]
  BY <1>1 DEF IInv, TypeInv
<1>8. \A u \in Threads : pc[u].at = "fetch" => pc[u].i \in Key /\ pc[u].i # k
  BY <1>1, Fields DEF IInv, ValuesInv
<1>9. ValuesInv'
  BY <1>2, <1>6, <1>7, <1>8 DEF IInv, ValuesInv
<1>10. RoundsInv'
  <2>1. \A u \in Threads, j \in Key : tsd[u][j] = 0 \/ ~keys[j].dtor => tsd[u][j] = 0 \/ ~keys'[j].dtor
    BY <1>6, <1>7
  <2>2. \A u \in Threads : \A j \in 1..(pc[u].i - 1) : j \in Key
    BY Fields, KeysAssumption DEF IInv, Key
  <2> QED
    BY <1>2, <2>1, <2>2 DEF IInv, RoundsInv
<1> QED
  BY <1>4, <1>5, <1>9, <1>10 DEF IInv

LEMMA DeleteKeeps ==
  ASSUME Careful, IInv, NEW t \in Threads, NEW k \in Key, pthread_key_delete(t, k)
  PROVE  IInv'
<1> DEFINE e == [keys[k] EXCEPT !.used = FALSE]
           f == [e EXCEPT !.dtor = FALSE]
<1>1. UNCHANGED <<tsd, tls_dtors, pc, values, objects, created>>
  BY DEF pthread_key_delete
<1>2. keys[k] \in Entry /\ keys' = [keys EXCEPT ![k] = f]
  BY Zenon DEF pthread_key_delete, IInv, TypeInv
<1>3. e \in Entry
  BY <1>2, Zenon DEF Entry
<1>4. f \in Entry
  <2> HIDE DEF e
  <2> QED
    BY <1>3, Zenon DEF Entry
<1>5. \A u \in Threads : tsd[u][k] = 0
  BY DEF pthread_key_delete, Careful
<1>6. \A u \in Threads : pc[u].at = "fetch" => pc[u].i \in Key /\ pc[u].i # k
  BY Fields DEF IInv, pthread_key_delete, Careful, User
<1>7. TypeInv'
  <2> HIDE DEF f
  <2> QED
    BY <1>1, <1>2, <1>4 DEF IInv, TypeInv
<1>8. ObjectsInv'
  BY <1>1 DEF IInv, ObjectsInv
<1>9. \A j \in Key : j # k => keys'[j] = keys[j]
  BY <1>2 DEF IInv, TypeInv
<1>10. ValuesInv'
  BY <1>1, <1>5, <1>6, <1>9 DEF IInv, ValuesInv
<1>11. RoundsInv'
  <2>1. \A u \in Threads, j \in Key : tsd[u][j] = 0 \/ ~keys[j].dtor => tsd[u][j] = 0 \/ ~keys'[j].dtor
    BY <1>5, <1>9
  <2>2. \A u \in Threads : \A j \in 1..(pc[u].i - 1) : j \in Key
    BY Fields, KeysAssumption DEF IInv, Key
  <2> QED
    BY <1>1, <2>1, <2>2 DEF IInv, RoundsInv
<1> QED
  BY <1>7, <1>8, <1>10, <1>11 DEF IInv

LEMMA SetKeeps ==
  ASSUME IInv, NEW t \in Threads, NEW k \in Key, NEW null \in BOOLEAN, pthread_setspecific(t, k, null)
  PROVE  IInv'
<1> DEFINE new == IF null THEN 0 ELSE Len(values) + 1
           entry == [t |-> t, id |-> keys[k].id, passed |-> FALSE, wrong |-> FALSE]
<1>1. /\ User(t) /\ keys[k].used
      /\ tsd' = [tsd EXCEPT ![t][k] = new]
      /\ values' = IF null THEN values ELSE Append(values, entry)
      /\ UNCHANGED <<keys, tls_dtors, pc, objects, created>>
  BY DEF pthread_setspecific
<1>2. /\ entry \in Value /\ entry.t = t /\ entry.id = keys[k].id /\ ~entry.passed /\ ~entry.wrong
  BY Fields DEF IInv, Value
<1> HIDE DEF entry
<1>3. /\ Len(values) \in Nat /\ values' \in Seq(Value)
      /\ Len(values') = IF null THEN Len(values) ELSE Len(values) + 1
      /\ ~null => values'[Len(values) + 1] = entry
      /\ \A v \in 1..Len(values) : values'[v] = values[v]
  BY <1>1, <1>2 DEF IInv, TypeInv
<1>4. TypeInv'
  BY <1>1, <1>3 DEF IInv, TypeInv
<1>5. ObjectsInv'
  BY <1>1 DEF IInv, ObjectsInv
<1>6. /\ tsd'[t][k] = new
      /\ \A u \in Threads, j \in Key : u # t \/ j # k => tsd'[u][j] = tsd[u][j]
  BY <1>1 DEF IInv, TypeInv
<1>7. \A u \in Threads, j \in Key : tsd[u][j] = 0 \/ tsd[u][j] \in 1..Len(values)
  BY DEF IInv, ValuesInv
<1>8. ValuesInv'
  <2>1. \A v \in 1..Len(values') : ~values'[v].wrong
    BY <1>2, <1>3 DEF IInv, ValuesInv
  <2>2. ASSUME NEW u \in Threads, NEW j \in Key, tsd'[u][j] # 0
        PROVE  /\ tsd'[u][j] \in 1..Len(values') /\ keys'[j].used
               /\ values'[tsd'[u][j]].t = u /\ ~values'[tsd'[u][j]].passed /\ values'[tsd'[u][j]].id = keys'[j].id
    <3>1. CASE u = t /\ j = k
      BY <2>2, <3>1, <1>1, <1>2, <1>3, <1>6
    <3>2. CASE u # t \/ j # k
      BY <2>2, <3>2, <1>1, <1>3, <1>6 DEF IInv, ValuesInv
    <3> QED
      BY <3>1, <3>2
  <2>3. \A u \in Threads, i, j \in Key : tsd'[u][j] # 0 /\ tsd'[u][i] = tsd'[u][j] => i = j
    BY <1>3, <1>6, <1>7 DEF IInv, ValuesInv
  <2>4. ASSUME NEW u \in Threads, pc'[u].at = "fetch"
        PROVE  /\ pc'[u].v \in 1..Len(values') /\ keys'[pc'[u].i].used /\ keys'[pc'[u].i].dtor
               /\ values'[pc'[u].v].t = u /\ ~values'[pc'[u].v].passed /\ values'[pc'[u].v].id = keys'[pc'[u].i].id
               /\ \A j \in Key : tsd'[u][j] # pc'[u].v
    <3>1. u # t /\ pc[u].at = "fetch"
      BY <1>1, <2>4 DEF User
    <3> QED
      BY <3>1, <1>1, <1>3, <1>6 DEF IInv, ValuesInv
  <2> QED
    BY <2>1, <2>2, <2>3, <2>4 DEF ValuesInv
<1>9. RoundsInv'
  <2>1. \A u \in Threads : \A j \in 1..(pc[u].i - 1) : j \in Key
    BY Fields, KeysAssumption DEF IInv, Key
  <2>2. pc[t].at \notin {"scan", "gone"}
    BY <1>1 DEF User
  <2> QED
    BY <1>1, <1>6, <2>1, <2>2 DEF IInv, RoundsInv
<1> QED
  BY <1>4, <1>5, <1>8, <1>9 DEF IInv

LEMMA RegisterKeeps ==
  ASSUME Careful, IInv, NEW t \in Threads, Register(t)
  PROVE  IInv'
<1> DEFINE entry == [t |-> t, ran |-> FALSE, wrong |-> FALSE]
           next == Len(objects) + 1
<1>1. /\ pc[t].at \in {"run", "tls_fn"}
      /\ objects' = Append(objects, entry)
      /\ tls_dtors' = [tls_dtors EXCEPT ![t] = <<next>> \o tls_dtors[t]]
      /\ UNCHANGED <<keys, tsd, pc, values, created>>
  BY DEF Register, User, Careful, IInv, TypeInv
<1>2. entry \in Object /\ entry.t = t /\ ~entry.ran /\ ~entry.wrong
  BY DEF Object
<1> HIDE DEF entry
<1>3. /\ Len(objects) \in Nat /\ Len(objects') = next /\ objects'[next] = entry
      /\ \A i \in 1..Len(objects) : objects'[i] = objects[i]
      /\ objects' \in Seq(Object)
  BY <1>1, <1>2 DEF IInv, TypeInv
<1>4. /\ tls_dtors[t] \in Seq(Nat) /\ Len(tls_dtors[t]) \in Nat
      /\ tls_dtors' \in [Threads -> Seq(Nat)] /\ tls_dtors'[t] = <<next>> \o tls_dtors[t]
      /\ \A u \in Threads : u # t => tls_dtors'[u] = tls_dtors[u]
  BY <1>1, <1>3 DEF IInv, TypeInv
<1>5. /\ Len(tls_dtors[t]) \in Nat /\ Len(tls_dtors'[t]) = Len(tls_dtors[t]) + 1 /\ tls_dtors'[t][1] = next
      /\ \A n \in 2..Len(tls_dtors'[t]) : tls_dtors'[t][n] = tls_dtors[t][n - 1]
      /\ \A n \in 1..Len(tls_dtors[t]) : tls_dtors'[t][n + 1] = tls_dtors[t][n]
  BY <1>3, <1>4, SMTT(30)
<1>6. TypeInv'
  BY <1>1, <1>3, <1>4 DEF IInv, TypeInv
<1>7. ObjectsInv'
  <2>1. \A u \in Threads : \A m, n \in 1..Len(tls_dtors'[u]) : m < n => tls_dtors'[u][m] > tls_dtors'[u][n]
    <3>1. ASSUME NEW m \in 1..Len(tls_dtors'[t]), NEW n \in 1..Len(tls_dtors'[t]), m < n
          PROVE  tls_dtors'[t][m] > tls_dtors'[t][n]
      <4>1. n - 1 \in 1..Len(tls_dtors[t]) /\ tls_dtors'[t][n] = tls_dtors[t][n - 1] /\ tls_dtors[t][n - 1] \in 1..Len(objects)
        <5>1. n - 1 \in 1..Len(tls_dtors[t]) /\ tls_dtors'[t][n] = tls_dtors[t][n - 1]
          BY <3>1, <1>5
        <5> QED
          BY <5>1 DEF IInv, ObjectsInv
      <4>2. CASE m = 1
        BY <4>1, <4>2, <1>3, <1>5
      <4>3. CASE m # 1
        <5>1. m - 1 \in 1..Len(tls_dtors[t]) /\ m - 1 < n - 1 /\ tls_dtors'[t][m] = tls_dtors[t][m - 1]
          BY <3>1, <4>3, <1>4, <1>5
        <5>2. tls_dtors[t][m - 1] > tls_dtors[t][n - 1]
          BY <4>1, <5>1 DEF IInv, ObjectsInv
        <5> QED
          BY <4>1, <5>1, <5>2
      <4> QED
        BY <4>2, <4>3
    <3> QED
      BY <3>1, <1>4, Zenon DEF IInv, ObjectsInv
  <2>2. ASSUME NEW u \in Threads, NEW n \in 1..Len(tls_dtors'[u])
        PROVE  /\ tls_dtors'[u][n] \in 1..Len(objects')
               /\ objects'[tls_dtors'[u][n]].t = u /\ ~objects'[tls_dtors'[u][n]].ran
    <3>1. CASE u = t /\ n = 1
      BY <3>1, <1>2, <1>3, <1>5
    <3>2. CASE u = t /\ n # 1
      <4>1. n - 1 \in 1..Len(tls_dtors[t]) /\ tls_dtors'[t][n] = tls_dtors[t][n - 1]
        BY <2>2, <3>2, <1>4, <1>5
      <4>2. /\ tls_dtors[t][n - 1] \in 1..Len(objects)
            /\ objects[tls_dtors[t][n - 1]].t = t /\ ~objects[tls_dtors[t][n - 1]].ran
        BY <4>1 DEF IInv, ObjectsInv
      <4> QED
        BY <3>2, <4>1, <4>2, <1>3
    <3>3. CASE u # t
      <4> DEFINE j == tls_dtors[u][n]
      <4>1. tls_dtors'[u][n] = j /\ j \in 1..Len(objects) /\ objects[j].t = u /\ ~objects[j].ran
        BY <2>2, <3>3, <1>4 DEF IInv, ObjectsInv
      <4> HIDE DEF j
      <4> QED
        BY <4>1, <1>3
    <3> QED
      BY <3>1, <3>2, <3>3
  <2>3. ASSUME NEW i \in 1..Len(objects')
        PROVE  /\ ~objects'[i].wrong
               /\ ~objects'[i].ran => \E n \in 1..Len(tls_dtors'[objects'[i].t]) : tls_dtors'[objects'[i].t][n] = i
    <3>1. CASE i = next
      BY <3>1, <1>2, <1>3, <1>4, <1>5
    <3>2. CASE i # next
      <4>1. i \in 1..Len(objects) /\ objects'[i] = objects[i] /\ ~objects[i].wrong /\ objects[i].t \in Threads
        BY <2>3, <3>2, <1>3, Fields DEF IInv, ObjectsInv
      <4>2. ASSUME ~objects[i].ran PROVE \E n \in 1..Len(tls_dtors'[objects[i].t]) : tls_dtors'[objects[i].t][n] = i
        <5>1. PICK n \in 1..Len(tls_dtors[objects[i].t]) : tls_dtors[objects[i].t][n] = i
          BY <4>1, <4>2, Zenon DEF IInv, ObjectsInv
        <5>2. CASE objects[i].t = t
          <6>1. n + 1 \in 1..Len(tls_dtors'[t]) /\ tls_dtors'[t][n + 1] = i
            BY <5>1, <5>2, <1>5, SMTT(30)
          <6> QED
            BY <5>2, <6>1
        <5>3. CASE objects[i].t # t
          BY <4>1, <5>1, <5>3, <1>4, Zenon
        <5> QED
          BY <5>2, <5>3
      <4> QED
        BY <4>1, <4>2
    <3> QED
      BY <3>1, <3>2
  <2>4. \A u \in Threads : pc'[u].at \in {"scan", "fetch", "key_fn", "gone"} => tls_dtors'[u] = <<>>
    BY <1>1, <1>4 DEF IInv, ObjectsInv
  <2> QED
    BY <2>1, <2>2, <2>3, <2>4 DEF ObjectsInv
<1>8. ValuesInv' /\ RoundsInv'
  BY <1>1 DEF IInv, ValuesInv, RoundsInv
<1> QED
  BY <1>6, <1>7, <1>8 DEF IInv

LEMMA ExitKeeps ==
  ASSUME IInv, NEW t \in Threads, Exit(t) \/ TlsReturn(t)
  PROVE  IInv'
<1>1. /\ pc[t].at \in {"run", "tls_fn"}
      /\ pc' = [pc EXCEPT ![t].at = "tls"]
      /\ UNCHANGED <<keys, tsd, tls_dtors, values, objects, created>>
  BY Zenon DEF Exit, TlsReturn
<1>2. /\ pc' \in [Threads -> Place]
      /\ pc'[t].at = "tls" /\ pc'[t].it = pc[t].it /\ pc'[t].i = pc[t].i
      /\ \A u \in Threads : u # t => pc'[u] = pc[u]
  BY <1>1, Goes, Zenon DEF IInv
<1>3. TypeInv'
  BY <1>1, <1>2 DEF IInv, TypeInv
<1>4. ObjectsInv'
  BY <1>1, <1>2 DEF IInv, ObjectsInv
<1>5. ValuesInv'
  BY <1>1, <1>2 DEF IInv, ValuesInv
<1>6. RoundsInv'
  BY <1>1, <1>2 DEF IInv, RoundsInv
<1> QED
  BY <1>3, <1>4, <1>5, <1>6 DEF IInv

LEMMA RunTlsKeeps ==
  ASSUME IInv, NEW t \in Threads, RunTls(t)
  PROVE  IInv'
<1>1. pc[t].at = "tls" /\ UNCHANGED <<keys, tsd, values, created>>
  BY DEF RunTls
<1>2. CASE tls_dtors[t] = <<>>
  <2>1. pc' = [pc EXCEPT ![t].at = "scan"] /\ UNCHANGED <<tls_dtors, objects>>
    BY <1>2, Zenon DEF RunTls
  <2>2. /\ pc' \in [Threads -> Place]
        /\ pc'[t].at = "scan" /\ pc'[t].it = pc[t].it /\ pc'[t].i = pc[t].i
        /\ \A u \in Threads : u # t => pc'[u] = pc[u]
    BY <2>1, Goes, Zenon DEF IInv
  <2>3. TypeInv'
    BY <1>1, <2>1, <2>2 DEF IInv, TypeInv
  <2>4. ObjectsInv'
    BY <1>1, <1>2, <2>1, <2>2 DEF IInv, ObjectsInv
  <2>5. ValuesInv'
    BY <1>1, <2>1, <2>2 DEF IInv, ValuesInv
  <2>6. RoundsInv'
    BY <1>1, <2>1, <2>2 DEF IInv, RoundsInv
  <2> QED
    BY <2>3, <2>4, <2>5, <2>6 DEF IInv
<1>3. CASE tls_dtors[t] # <<>>
  <2> DEFINE i == Head(tls_dtors[t])
             newer == \E j \in DOMAIN objects : j > i /\ objects[j].t = t /\ ~objects[j].ran
  <2>1. /\ pc' = [pc EXCEPT ![t].at = "tls_fn"]
        /\ tls_dtors' = [tls_dtors EXCEPT ![t] = Tail(tls_dtors[t])]
        /\ objects' = Destroyed(t, i)
    BY <1>3, Zenon DEF RunTls, IInv, TypeInv
  <2>2. /\ pc' \in [Threads -> Place]
        /\ pc'[t].at = "tls_fn" /\ pc'[t].it = pc[t].it /\ pc'[t].i = pc[t].i
        /\ \A u \in Threads : u # t => pc'[u] = pc[u]
    BY <2>1, Goes, Zenon DEF IInv
  <2>3. /\ tls_dtors[t] \in Seq(Nat) /\ tls_dtors' \in [Threads -> Seq(Nat)]
        /\ tls_dtors'[t] = Tail(tls_dtors[t])
        /\ \A u \in Threads : u # t => tls_dtors'[u] = tls_dtors[u]
    BY <1>3, <2>1 DEF IInv, TypeInv
  <2>4. /\ Len(tls_dtors[t]) \in Nat \ {0} /\ i = tls_dtors[t][1]
        /\ Len(tls_dtors'[t]) = Len(tls_dtors[t]) - 1
        /\ \A n \in 1..Len(tls_dtors'[t]) : tls_dtors'[t][n] = tls_dtors[t][n + 1]
    BY <1>3, <2>3
  <2> HIDE DEF i
  <2>5. i \in 1..Len(objects) /\ objects[i].t = t /\ ~objects[i].ran
    BY <2>4 DEF IInv, ObjectsInv
  <2>6. ~newer
    <3> SUFFICES ASSUME NEW j \in DOMAIN objects, j > i, objects[j].t = t, ~objects[j].ran
                 PROVE  FALSE
      OBVIOUS
    <3>1. j \in 1..Len(objects)
      BY Fields DEF IInv
    <3>2. PICK n \in 1..Len(tls_dtors[t]) : tls_dtors[t][n] = j
      BY <3>1 DEF IInv, ObjectsInv
    <3>3. n # 1 /\ 1 \in 1..Len(tls_dtors[t]) /\ 1 < n
      BY <3>1, <3>2, <2>4, <2>5
    <3>4. tls_dtors[t][1] > tls_dtors[t][n]
      BY <3>3, Zenon DEF IInv, ObjectsInv
    <3> QED
      BY <3>1, <3>2, <3>4, <2>4, <2>5
  <2>7. /\ Len(objects') = Len(objects) /\ Len(objects) \in Nat /\ objects' \in Seq(Object)
        /\ objects'[i].t = t /\ objects'[i].ran /\ ~objects'[i].wrong
        /\ \A j \in 1..Len(objects) : j # i => objects'[j] = objects[j]
    <3> DEFINE o == [objects[i] EXCEPT !.ran = TRUE]
               w == [o EXCEPT !.wrong = newer]
    <3>1. objects[i] \in Object /\ objects \in Seq(Object) /\ objects' = [objects EXCEPT ![i] = w]
      BY <2>1, <2>5 DEF Destroyed, IInv, TypeInv
    <3>2. newer = FALSE
      BY <2>6
    <3> HIDE DEF newer
    <3>3. o \in Object /\ o.t = t /\ o.ran
      BY <3>1, <2>5, Zenon DEF Object
    <3> HIDE DEF o
    <3>4. w \in Object /\ w.t = t /\ w.ran /\ ~w.wrong
      BY <3>2, <3>3, Zenon DEF Object
    <3> HIDE DEF w
    <3> QED
      BY <3>1, <3>4, <2>5
  <2>8. TypeInv'
    BY <1>1, <2>2, <2>3, <2>7 DEF IInv, TypeInv
  <2>9. ObjectsInv'
    <3>1. ASSUME NEW u \in Threads, NEW m \in 1..Len(tls_dtors'[u]), NEW n \in 1..Len(tls_dtors'[u]), m < n
          PROVE  tls_dtors'[u][m] > tls_dtors'[u][n]
      <4>1. CASE u = t
        <5>1. m + 1 \in 1..Len(tls_dtors[t]) /\ n + 1 \in 1..Len(tls_dtors[t]) /\ m + 1 < n + 1
          BY <3>1, <4>1, <2>4
        <5>2. tls_dtors[t][m + 1] > tls_dtors[t][n + 1]
          BY <5>1 DEF IInv, ObjectsInv
        <5> QED
          BY <4>1, <5>2, <2>4
      <4>2. CASE u # t
        BY <3>1, <4>2, <2>3, Zenon DEF IInv, ObjectsInv
      <4> QED
        BY <4>1, <4>2
    <3>2. ASSUME NEW u \in Threads, NEW n \in 1..Len(tls_dtors'[u])
          PROVE  /\ tls_dtors'[u][n] \in 1..Len(objects')
                 /\ objects'[tls_dtors'[u][n]].t = u /\ ~objects'[tls_dtors'[u][n]].ran
      <4>1. CASE u = t
        <5> DEFINE j == tls_dtors[t][n + 1]
        <5>1. n + 1 \in 1..Len(tls_dtors[t]) /\ 1 \in 1..Len(tls_dtors[t]) /\ 1 < n + 1 /\ tls_dtors'[u][n] = j
          BY <3>2, <4>1, <2>4
        <5>2. i > j /\ j \in 1..Len(objects) /\ objects[j].t = t /\ ~objects[j].ran
          BY <5>1, <2>4 DEF IInv, ObjectsInv
        <5> HIDE DEF j
        <5>3. j # i
          BY <5>2, <2>5
        <5> QED
          BY <4>1, <5>1, <5>2, <5>3, <2>7
      <4>2. CASE u # t
        <5> DEFINE j == tls_dtors[u][n]
        <5>1. tls_dtors'[u][n] = j /\ j \in 1..Len(objects) /\ objects[j].t = u /\ ~objects[j].ran
          BY <3>2, <4>2, <2>3 DEF IInv, ObjectsInv
        <5> HIDE DEF j
        <5>2. j # i
          BY <5>1, <4>2, <2>5
        <5> QED
          BY <5>1, <5>2, <2>7
      <4> QED
        BY <4>1, <4>2
    <3>3. \A j \in 1..Len(objects') : ~objects'[j].wrong
      BY <2>7 DEF IInv, ObjectsInv
    <3>4. ASSUME NEW j \in 1..Len(objects'), ~objects'[j].ran
          PROVE  \E n \in 1..Len(tls_dtors'[objects'[j].t]) : tls_dtors'[objects'[j].t][n] = j
      <4>1. j # i /\ j \in 1..Len(objects) /\ objects'[j] = objects[j] /\ objects[j].t \in Threads /\ ~objects[j].ran
        BY <3>4, <2>7, Fields DEF IInv
      <4>2. PICK n \in 1..Len(tls_dtors[objects[j].t]) : tls_dtors[objects[j].t][n] = j
        BY <4>1, Zenon DEF IInv, ObjectsInv
      <4>3. CASE objects[j].t = t
        <5>1. n - 1 \in 1..Len(tls_dtors'[t]) /\ tls_dtors'[t][n - 1] = j
          BY <4>1, <4>2, <4>3, <2>4
        <5> QED
          BY <5>1, <4>1, <4>3
      <4>4. CASE objects[j].t # t
        BY <4>1, <4>2, <4>4, <2>3, Zenon
      <4> QED
        BY <4>3, <4>4
    <3>5. \A u \in Threads : pc'[u].at \in {"scan", "fetch", "key_fn", "gone"} => tls_dtors'[u] = <<>>
      BY <2>2, <2>3, Zenon DEF IInv, ObjectsInv
    <3> QED
      BY <3>1, <3>2, <3>3, <3>4, <3>5 DEF ObjectsInv
  <2>10. ValuesInv'
    BY <1>1, <2>2 DEF IInv, ValuesInv
  <2>11. RoundsInv'
    BY <1>1, <2>2 DEF IInv, RoundsInv
  <2> QED
    BY <2>8, <2>9, <2>10, <2>11 DEF IInv
<1> QED
  BY <1>2, <1>3

LEMMA PastPlace ==
  ASSUME NEW p \in Place, NEW ran \in BOOLEAN
  PROVE  Past(p, ran) \in Place
<1> DEFINE x == [p EXCEPT !.at = "scan"]
           y == [x EXCEPT !.i = x.i + 1]
           z == [x EXCEPT !.i = 1]
           w == [z EXCEPT !.it = z.it + 1]
           g == [p EXCEPT !.at = "gone"]
<1>1. x \in Place /\ x.i = p.i /\ g \in Place
  BY DEF Place
<1>2. p.i \in Key
  BY DEF Place
<1>3. Past(p, ran) = IF p.i < NKEYS THEN [y EXCEPT !.ran = ran]
                     ELSE IF ran /\ p.it + 1 < DTOR_ITERATIONS THEN [w EXCEPT !.ran = FALSE]
                     ELSE [g EXCEPT !.ran = ran]
  BY DEF Past
<1> HIDE DEF x, g
<1>4. z \in Place /\ (p.i < NKEYS => y \in Place)
  BY <1>1, <1>2, KeysAssumption DEF Place, Key
<1> HIDE DEF y, z
<1>5. w \in Place
  BY <1>4 DEF Place
<1> HIDE DEF w
<1>6. /\ p.i < NKEYS => [y EXCEPT !.ran = ran] \in Place
      /\ [w EXCEPT !.ran = FALSE] \in Place
      /\ [g EXCEPT !.ran = ran] \in Place
  BY <1>1, <1>4, <1>5, Zenon DEF Place
<1> QED
  BY <1>3, <1>6

\* Past a key without a value, or with one that has no destructor, or after a destructor:
\* the round goes on, another begins, or the thread is gone.
LEMMA PastKeeps ==
  ASSUME IInv, NEW t \in Threads, NEW ran \in BOOLEAN, NEW q \in Place,
         pc[t].at \in {"scan", "key_fn"}, pc' = [pc EXCEPT ![t] = q],
         q.at = Past(pc[t], ran).at, q.it = Past(pc[t], ran).it, q.i = Past(pc[t], ran).i, q.ran = Past(pc[t], ran).ran,
         ran \/ (pc[t].at = "scan" /\ ~pc[t].ran /\ (tsd[t][pc[t].i] = 0 \/ ~keys[pc[t].i].dtor)),
         UNCHANGED <<keys, tsd, tls_dtors, values, objects, created>>
  PROVE  IInv'
<1>1. pc' \in [Threads -> Place] /\ pc'[t] = q /\ \A u \in Threads : u # t => pc'[u] = pc[u]
  BY DEF IInv, TypeInv
<1>2. pc[t] \in Place /\ pc[t].i \in Key /\ pc[t].it \in Nat /\ pc[t].it < DTOR_ITERATIONS
  BY Fields DEF IInv, TypeInv, RoundsInv
<1>3. \/ pc[t].i < NKEYS /\ q.at = "scan" /\ q.i = pc[t].i + 1 /\ q.it = pc[t].it /\ q.ran = ran
      \/ ran /\ pc[t].it + 1 < DTOR_ITERATIONS /\ q.at = "scan" /\ q.i = 1 /\ q.it = pc[t].it + 1
      \/ pc[t].i = NKEYS /\ q.at = "gone" /\ q.it = pc[t].it /\ q.ran = ran /\ (ran => pc[t].it = DTOR_ITERATIONS - 1)
  <2>1. CASE pc[t].i < NKEYS
    BY <1>2, <2>1 DEF Past, Place
  <2>2. CASE ~(pc[t].i < NKEYS) /\ ran /\ pc[t].it + 1 < DTOR_ITERATIONS
    BY <1>2, <2>2 DEF Past, Place
  <2>3. CASE ~(pc[t].i < NKEYS) /\ ~(ran /\ pc[t].it + 1 < DTOR_ITERATIONS)
    <3>1. q.at = "gone" /\ q.it = pc[t].it /\ q.ran = ran
      BY <1>2, <2>3 DEF Past, Place
    <3> QED
      BY <1>2, <2>3, <3>1, KeysAssumption DEF Key
  <2> QED
    BY <2>1, <2>2, <2>3
<1>4. TypeInv'
  BY <1>1 DEF IInv, TypeInv
<1>5. ObjectsInv'
  <2>1. tls_dtors[t] = <<>>
    BY DEF IInv, ObjectsInv
  <2>2. \A u \in Threads : pc'[u].at \in {"scan", "fetch", "key_fn", "gone"} => tls_dtors[u] = <<>>
    BY <1>1, <2>1, SMTT(30) DEF IInv, ObjectsInv
  <2> QED
    BY <2>2 DEF IInv, ObjectsInv
<1>6. ValuesInv'
  <2>1. \A u \in Threads : pc'[u].at = "fetch" => pc'[u] = pc[u]
    BY <1>1, <1>3
  <2> QED
    BY <2>1 DEF IInv, ValuesInv
<1>7. RoundsInv'
  <2>1. ~ran => \A k \in 1..pc[t].i : tsd[t][k] = 0 \/ ~keys[k].dtor
    BY <1>2, KeysAssumption DEF IInv, RoundsInv, Key
  <2>2. /\ q.it < DTOR_ITERATIONS
        /\ q.at \notin {"run", "tls", "tls_fn"}
        /\ q.at = "scan" /\ ~q.ran => \A k \in 1..(q.i - 1) : tsd[t][k] = 0 \/ ~keys[k].dtor
        /\ q.at = "gone" /\ q.ran => q.it = DTOR_ITERATIONS - 1
        /\ q.at = "gone" /\ ~q.ran => \A k \in Key : tsd[t][k] = 0 \/ ~keys[k].dtor
    BY <1>2, <1>3, <2>1, KeysAssumption DEF Key
  <2> QED
    BY <1>1, <2>2 DEF IInv, RoundsInv
<1> QED
  BY <1>4, <1>5, <1>6, <1>7 DEF IInv

LEMMA ScanKeeps ==
  ASSUME IInv, NEW t \in Threads, Scan(t)
  PROVE  IInv'
<1> DEFINE k == pc[t].i
           v == tsd[t][k]
<1>1. /\ pc[t].at = "scan" /\ pc[t] \in Place /\ k \in Key /\ pc[t].ran \in BOOLEAN /\ pc[t].it \in Nat /\ v \in Nat
      /\ UNCHANGED <<keys, tls_dtors, values, objects, created>>
  BY Fields DEF Scan, IInv, TypeInv
<1>2. CASE v = 0 \/ ~keys[k].used \/ ~keys[k].dtor
  <2>1. pc' = [pc EXCEPT ![t] = Past(pc[t], pc[t].ran)] /\ UNCHANGED tsd
    BY <1>2 DEF Scan
  <2>2. v = 0 \/ ~keys[k].dtor
    BY <1>1, <1>2 DEF IInv, ValuesInv
  <2>3. Past(pc[t], pc[t].ran) \in Place
    BY <1>1, PastPlace
  <2> QED
    BY <1>1, <2>1, <2>2, <2>3, PastKeeps, Zenon
<1>3. CASE ~(v = 0 \/ ~keys[k].used \/ ~keys[k].dtor)
  <2> DEFINE p == [pc[t] EXCEPT !.at = "fetch"]
             q == [p EXCEPT !.v = v]
  <2>1. pc' = [pc EXCEPT ![t] = q] /\ tsd' = [tsd EXCEPT ![t][k] = 0]
    BY <1>1, <1>3, Zenon DEF Scan, IInv, TypeInv
  <2>2. p \in Place /\ p.at = "fetch" /\ p.it = pc[t].it /\ p.i = k
    BY <1>1 DEF Place
  <2> HIDE DEF p
  <2>3. q \in Place /\ q.at = "fetch" /\ q.it = pc[t].it /\ q.i = k /\ q.v = v
    BY <1>1, <2>2 DEF Place
  <2> HIDE DEF q
  <2>4. pc' \in [Threads -> Place] /\ pc'[t] = q /\ \A u \in Threads : u # t => pc'[u] = pc[u]
    BY <2>1, <2>3 DEF IInv, TypeInv
  <2>5. /\ tsd' \in [Threads -> [Key -> Nat]] /\ tsd'[t][k] = 0
        /\ \A u \in Threads, j \in Key : u # t \/ j # k => tsd'[u][j] = tsd[u][j]
    BY <1>1, <2>1 DEF IInv, TypeInv
  <2>6. TypeInv'
    BY <1>1, <2>4, <2>5 DEF IInv, TypeInv
  <2>7. ObjectsInv'
    <3>1. \A u \in Threads : pc'[u].at \in {"scan", "fetch", "key_fn", "gone"} => pc[u].at \in {"scan", "fetch", "key_fn", "gone"}
      BY <1>1, <2>4
    <3> QED
      BY <1>1, <3>1 DEF IInv, ObjectsInv
  <2>8. ValuesInv'
    <3>1. /\ v \in 1..Len(values) /\ keys[k].used /\ keys[k].dtor
          /\ values[v].t = t /\ ~values[v].passed /\ values[v].id = keys[k].id
      <4>1. \A j \in Key : tsd[t][j] # 0 =>
               /\ tsd[t][j] \in 1..Len(values) /\ keys[j].used
               /\ values[tsd[t][j]].t = t /\ ~values[tsd[t][j]].passed /\ values[tsd[t][j]].id = keys[j].id
        BY DEF IInv, ValuesInv
      <4> QED
        BY <4>1, <1>1, <1>3
    <3>2. \A j \in Key : tsd'[t][j] # v
      BY <1>1, <1>3, <2>5 DEF IInv, ValuesInv
    <3>3. \A u \in Threads, j \in Key : tsd'[u][j] = 0 \/ tsd'[u][j] = tsd[u][j]
      BY <2>5
    <3>4. \A u \in Threads, j \in Key : tsd'[u][j] # 0 =>
             /\ tsd'[u][j] \in 1..Len(values) /\ keys[j].used
             /\ values[tsd'[u][j]].t = u /\ ~values[tsd'[u][j]].passed /\ values[tsd'[u][j]].id = keys[j].id
      BY <3>3 DEF IInv, ValuesInv
    <3>5. \A u \in Threads, i, j \in Key : tsd'[u][j] # 0 /\ tsd'[u][i] = tsd'[u][j] => i = j
      BY <3>3 DEF IInv, ValuesInv
    <3>6. ASSUME NEW u \in Threads, pc'[u].at = "fetch"
          PROVE  /\ pc'[u].v \in 1..Len(values) /\ keys[pc'[u].i].used /\ keys[pc'[u].i].dtor
                 /\ values[pc'[u].v].t = u /\ ~values[pc'[u].v].passed /\ values[pc'[u].v].id = keys[pc'[u].i].id
                 /\ \A j \in Key : tsd'[u][j] # pc'[u].v
      <4>1. CASE u = t
        BY <4>1, <2>3, <2>4, <3>1, <3>2
      <4>2. CASE u # t
        BY <3>6, <4>2, <2>4, <2>5 DEF IInv, ValuesInv
      <4> QED
        BY <4>1, <4>2
    <3>7. \A w \in 1..Len(values) : ~values[w].wrong
      BY DEF IInv, ValuesInv
    <3> QED
      BY <1>1, <3>4, <3>5, <3>6, <3>7 DEF ValuesInv
  <2>9. RoundsInv'
    <3>1. \A u \in Threads : \A j \in 1..(pc[u].i - 1) : j \in Key
      BY Fields, KeysAssumption DEF IInv, Key
    <3>2. \A u \in Threads, j \in Key : tsd[u][j] = 0 \/ ~keys[j].dtor => tsd'[u][j] = 0 \/ ~keys'[j].dtor
      BY <1>1, <2>5
    <3>3. q.it < DTOR_ITERATIONS
      BY <2>3 DEF IInv, RoundsInv
    <3> QED
      BY <2>3, <2>4, <3>1, <3>2, <3>3 DEF IInv, RoundsInv
  <2> QED
    BY <2>6, <2>7, <2>8, <2>9 DEF IInv
<1> QED
  BY <1>2, <1>3

LEMMA FetchKeeps ==
  ASSUME IInv, NEW t \in Threads, Fetch(t)
  PROVE  IInv'
<1> DEFINE v == pc[t].v
           k == pc[t].i
           bad == values[v].wrong \/ values[v].passed \/ values[v].t # t \/ values[v].id # keys[k].id \/ ~keys[k].dtor
           x == [values[v] EXCEPT !.passed = TRUE]
           y == [x EXCEPT !.wrong = bad]
<1>1. /\ pc[t].at = "fetch" /\ pc' = [pc EXCEPT ![t].at = "key_fn"]
      /\ UNCHANGED <<keys, tsd, tls_dtors, objects, created>>
      /\ values' = [values EXCEPT ![v] = y]
  BY Zenon DEF Fetch
<1>2. /\ pc' \in [Threads -> Place]
      /\ pc'[t].at = "key_fn" /\ pc'[t].it = pc[t].it /\ pc'[t].i = pc[t].i
      /\ \A u \in Threads : u # t => pc'[u] = pc[u]
  BY <1>1, Goes, Zenon DEF IInv
<1>3. /\ v \in 1..Len(values) /\ keys[k].dtor
      /\ values[v].t = t /\ ~values[v].passed /\ ~values[v].wrong /\ values[v].id = keys[k].id
      /\ \A j \in Key : tsd[t][j] # v
  BY <1>1 DEF IInv, ValuesInv
<1>4. bad = FALSE
  BY <1>3
<1> HIDE DEF bad
<1>5. values \in Seq(Value) /\ values[v] \in Value
  BY <1>3 DEF IInv, TypeInv
<1>6. x \in Value
  BY <1>5, Zenon DEF Value
<1> HIDE DEF x
<1>7. y \in Value /\ ~y.wrong
  BY <1>4, <1>6, Zenon DEF Value
<1> HIDE DEF y
<1>8. /\ Len(values') = Len(values) /\ Len(values) \in Nat /\ values' \in Seq(Value)
      /\ values'[v] = y
      /\ \A w \in 1..Len(values) : w # v => values'[w] = values[w]
  BY <1>1, <1>3, <1>5, <1>7
<1>9. TypeInv'
  BY <1>1, <1>2, <1>8 DEF IInv, TypeInv
<1>10. ObjectsInv'
  BY <1>1, <1>2 DEF IInv, ObjectsInv
<1>11. ValuesInv'
  <2>1. \A w \in 1..Len(values') : ~values'[w].wrong
    BY <1>7, <1>8 DEF IInv, ValuesInv
  <2>2. ASSUME NEW u \in Threads, NEW j \in Key, tsd[u][j] # 0
        PROVE  /\ tsd[u][j] \in 1..Len(values') /\ keys[j].used
               /\ values'[tsd[u][j]].t = u /\ ~values'[tsd[u][j]].passed /\ values'[tsd[u][j]].id = keys[j].id
    <3>1. /\ tsd[u][j] \in 1..Len(values) /\ keys[j].used
          /\ values[tsd[u][j]].t = u /\ ~values[tsd[u][j]].passed /\ values[tsd[u][j]].id = keys[j].id
      BY <2>2 DEF IInv, ValuesInv
    <3>2. tsd[u][j] # v
      BY <3>1, <1>3
    <3> QED
      BY <3>1, <3>2, <1>8
  <2>3. ASSUME NEW u \in Threads, pc'[u].at = "fetch"
        PROVE  /\ pc'[u].v \in 1..Len(values') /\ keys[pc'[u].i].used /\ keys[pc'[u].i].dtor
               /\ values'[pc'[u].v].t = u /\ ~values'[pc'[u].v].passed /\ values'[pc'[u].v].id = keys[pc'[u].i].id
               /\ \A j \in Key : tsd[u][j] # pc'[u].v
    <3>1. u # t /\ pc'[u] = pc[u]
      BY <2>3, <1>2, SMTT(30)
    <3>2. /\ pc[u].v \in 1..Len(values) /\ keys[pc[u].i].used /\ keys[pc[u].i].dtor
          /\ values[pc[u].v].t = u /\ ~values[pc[u].v].passed /\ values[pc[u].v].id = keys[pc[u].i].id
          /\ \A j \in Key : tsd[u][j] # pc[u].v
      BY <2>3, <3>1 DEF IInv, ValuesInv
    <3>3. pc[u].v # v
      BY <3>1, <3>2, <1>3
    <3> QED
      BY <3>1, <3>2, <3>3, <1>8
  <2> QED
    BY <1>1, <2>1, <2>2, <2>3 DEF IInv, ValuesInv
<1>12. RoundsInv'
  BY <1>1, <1>2 DEF IInv, RoundsInv
<1> QED
  BY <1>9, <1>10, <1>11, <1>12 DEF IInv

LEMMA KeyReturnKeeps ==
  ASSUME IInv, NEW t \in Threads, KeyReturn(t)
  PROVE  IInv'
<1> DEFINE p == Past(pc[t], TRUE)
           q == [p EXCEPT !.v = 0]
<1>1. /\ pc[t].at = "key_fn" /\ pc' = [pc EXCEPT ![t] = q]
      /\ UNCHANGED <<keys, tsd, tls_dtors, values, objects, created>>
  BY DEF KeyReturn
<1>2. p \in Place
  BY PastPlace, Zenon DEF IInv, TypeInv
<1>3. q \in Place /\ q.at = p.at /\ q.it = p.it /\ q.i = p.i /\ q.ran = p.ran
  <2> HIDE DEF p
  <2> QED
    BY <1>2 DEF Place
<1> QED
  BY <1>1, <1>3, PastKeeps, Zenon

LEMMA IInvKept == Careful /\ IInv /\ [Next]_vars => IInv'
<1> SUFFICES ASSUME Careful, IInv, [Next]_vars PROVE IInv'
  OBVIOUS
<1>1. ASSUME NEW t \in Threads, NEW d \in BOOLEAN, pthread_key_create(t, d) PROVE IInv'
  BY <1>1, CreateKeeps
<1>2. ASSUME NEW t \in Threads, NEW k \in Key, pthread_key_delete(t, k) PROVE IInv'
  BY <1>2, DeleteKeeps
<1>3. ASSUME NEW t \in Threads, NEW k \in Key, NEW null \in BOOLEAN, pthread_setspecific(t, k, null) PROVE IInv'
  BY <1>3, SetKeeps
<1>4. ASSUME NEW t \in Threads, Register(t) PROVE IInv'
  BY <1>4, RegisterKeeps
<1>5. ASSUME NEW t \in Threads, Exit(t) \/ TlsReturn(t) PROVE IInv'
  BY <1>5, ExitKeeps
<1>6. ASSUME NEW t \in Threads, RunTls(t) PROVE IInv'
  BY <1>6, RunTlsKeeps
<1>7. ASSUME NEW t \in Threads, Scan(t) PROVE IInv'
  BY <1>7, ScanKeeps
<1>8. ASSUME NEW t \in Threads, Fetch(t) PROVE IInv'
  BY <1>8, FetchKeeps
<1>9. ASSUME NEW t \in Threads, KeyReturn(t) PROVE IInv'
  BY <1>9, KeyReturnKeeps
<1>10. CASE UNCHANGED vars
  <2> USE <1>10 DEF vars
  <2>1. TypeInv'
    BY DEF IInv, TypeInv
  <2>2. ObjectsInv'
    BY DEF IInv, ObjectsInv
  <2>3. ValuesInv'
    BY DEF IInv, ValuesInv
  <2>4. RoundsInv'
    BY DEF IInv, RoundsInv
  <2> QED
    BY <2>1, <2>2, <2>3, <2>4 DEF IInv
<1> QED
  BY <1>1, <1>2, <1>3, <1>4, <1>5, <1>6, <1>7, <1>8, <1>9, <1>10 DEF Next

LEMMA IInvKeysTrue == IInv => KeysTrue
<1> SUFFICES ASSUME IInv PROVE KeysTrue
  OBVIOUS
<1>1. ASSUME NEW i \in DOMAIN objects
      PROVE  LET t == objects[i].t IN
             /\ pc[t].at \in {"scan", "fetch", "key_fn", "gone"} => objects[i].ran
             /\ ~objects[i].ran <=> \E n \in 1..Len(tls_dtors[t]) : tls_dtors[t][n] = i
             /\ ~objects[i].wrong
  <2> DEFINE t == objects[i].t
  <2>1. i \in 1..Len(objects) /\ t \in Threads
    BY <1>1, Fields DEF IInv
  <2>2. ~objects[i].ran <=> \E n \in 1..Len(tls_dtors[t]) : tls_dtors[t][n] = i
    BY <2>1 DEF IInv, ObjectsInv
  <2>3. tls_dtors[t] = <<>> => objects[i].ran
    BY <2>2
  <2>4. pc[t].at \in {"scan", "fetch", "key_fn", "gone"} => tls_dtors[t] = <<>>
    BY <2>1 DEF IInv, ObjectsInv
  <2>5. ~objects[i].wrong
    BY <2>1 DEF IInv, ObjectsInv
  <2> QED
    BY <2>2, <2>3, <2>4, <2>5
<1>2. ASSUME NEW v \in DOMAIN values
      PROVE  /\ ~values[v].wrong
             /\ values[v].passed => \A t \in Threads, k \in Key : tsd[t][k] # v
  <2>1. v \in 1..Len(values)
    BY <1>2, Fields, SMTT(30) DEF IInv
  <2> QED
    BY <2>1 DEF IInv, ValuesInv
<1>3. ASSUME NEW t \in Threads, NEW k \in Key
      PROVE  /\ tsd[t][k] # 0 => values[tsd[t][k]].t = t /\ (keys[k].used => values[tsd[t][k]].id = keys[k].id)
             /\ pc[t].at = "gone" /\ tsd[t][k] # 0 /\ keys[k].used /\ keys[k].dtor
                  => pc[t].it = DTOR_ITERATIONS - 1 /\ pc[t].ran
  BY <1>3, Fields DEF IInv, ValuesInv, RoundsInv
<1> QED
  BY <1>1, <1>2, <1>3 DEF KeysTrue

\* In every run of a careful program, whatever the number of threads, keys and rounds: a
\* thread's thread_local destructors have all run, newest first, before those of its keys; a
\* value is handed to the destructor of its own key, in its own thread, once and after it was
\* cleared; and one is left over only after PTHREAD_DESTRUCTOR_ITERATIONS rounds that each
\* ran a destructor.
THEOREM KeysSafety == Careful => (Spec => []KeysTrue)
<1> SUFFICES ASSUME Careful PROVE Spec => []KeysTrue
  OBVIOUS
<1>1. Init => IInv
  BY InitIInv
<1>2. IInv /\ [Next]_vars => IInv'
  BY IInvKept
<1>3. IInv => KeysTrue
  BY IInvKeysTrue
<1> QED
  BY <1>1, <1>2, <1>3, PTL DEF Spec
=============================================================================
