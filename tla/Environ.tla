------------------------------ MODULE Environ ------------------------------
(***************************************************************************)
(* env.c: the environment, an array of pointers to "name=value" strings.   *)
(* Strings made by setenv belong to the library, the others to the         *)
(* program, which may also put an array of its own in place of environ.    *)
(***************************************************************************)
EXTENDS Integers, Sequences, FiniteSets, SequencesExt

CONSTANTS
    Names, Values,
    Arrays,        \* the environments a program starts with or assigns: sequences of [name, value]
    Chunk,         \* entries of the first array allocated (16)
    MaxStrings     \* bound on the strings made in a behaviour

VARIABLES env,     \* where, list: environ; cap: of the array we own; owned, owned_cap; str: every string made;
                   \* live: the strings setenv made and nobody freed; wrong: freed twice
          want,    \* the environment as the calls made it: a sequence of [name, value]
          orphans  \* strings of setenv that the program took out of environ
vars == <<env, want, orphans>>

Junk == "junk"
Pair(n, v) == [name |-> n, value |-> v]
\* The string behind a pointer: what a freed one holds is not known.
Gone == [name |-> Junk, value |-> Junk, mine |-> TRUE]
Deref(e, p) == Pair(e.str[p].name, e.str[p].value)
Make(e, pair, mine) == [e EXCEPT !.str = Append(@, [name |-> pair.name, value |-> pair.value, mine |-> mine]),
                                 !.live = IF mine THEN @ \cup {Len(e.str) + 1} ELSE @]
First(e, n) == LET at == {i \in DOMAIN e.list : Deref(e, e.list[i]).name = n}
               IN IF at = {} THEN 0 ELSE CHOOSE i \in at : \A j \in at : i <= j
getenv(e, n) == IF First(e, n) = 0 THEN Junk ELSE Deref(e, e.list[First(e, n)]).value

\* Mutant: the last owned string is not moved into the gap.
releaseLast(e, p) ==
    IF ~Contains(e.owned, p) THEN e
    ELSE [e EXCEPT !.owned = Front(@), !.live = @ \ {p}, !.str[p] = Gone, !.wrong = @ \/ p \notin e.live]
release(e, p) ==
    IF ~Contains(e.owned, p) THEN e
    ELSE LET i == CHOOSE k \in DOMAIN e.owned : e.owned[k] = p
         IN [e EXCEPT !.owned = Front([@ EXCEPT ![i] = Last(e.owned)]), !.live = @ \ {p}, !.str[p] = Gone,
                         !.wrong = @ \/ p \notin e.live]

\* The new environment and the string that was replaced, 0 for none.
env_put(e, p, n, fails) ==
    LET i == First(e, n)
        len == Len(e.list)
        grow == e.where # "own" \/ len + 2 > e.cap
        cap == IF len + 2 > Chunk THEN (len + 2) * 2 ELSE Chunk
    IN IF i # 0 THEN [e |-> [e EXCEPT !.list[i] = p], old |-> e.list[i], ok |-> TRUE]
       ELSE IF grow /\ fails THEN [e |-> e, old |-> 0, ok |-> FALSE]
       ELSE [e |-> [e EXCEPT !.list = Append(@, p), !.where = "own", !.cap = IF grow THEN cap ELSE @], old |-> 0, ok |-> TRUE]

Let(e, old) == IF old = 0 THEN e ELSE release(e, old)
\* The text a value argument points to: the program's own, or a value in the environment.
Text(e, v) == IF v.from = "text" THEN v.text ELSE getenv(e, v.name)
\* Mutant: the replaced string is released before the value, which may be part of it, is copied.
setenvEarly(e, n, v, overwrite, fails) ==
    LET old == First(e, n)
        freed == IF old = 0 THEN e ELSE release(e, e.list[old])
        s == Make(freed, Pair(n, Text(freed, v)), TRUE)
        t == [s EXCEPT !.owned_cap = IF Len(s.owned) = @ THEN 2 * @ + Chunk ELSE @, !.owned = Append(@, Len(s.str))]
    IN [e |-> IF old = 0 THEN env_put(t, Len(s.str), n, FALSE).e ELSE [t EXCEPT !.list[old] = Len(s.str)], ok |-> TRUE]
setenv(e, n, v, overwrite, fails) ==
    LET s == Make(e, Pair(n, Text(e, v)), TRUE)
        p == Len(s.str)
        full == Len(s.owned) = s.owned_cap
        t == IF full THEN [s EXCEPT !.owned_cap = IF @ = 0 THEN Chunk ELSE 2 * @] ELSE s
        r == env_put(t, p, n, fails = "array")
    IN IF ~overwrite /\ First(e, n) # 0 THEN [e |-> e, ok |-> TRUE]
       ELSE IF fails = "string" THEN [e |-> e, ok |-> FALSE]
       ELSE IF full /\ fails = "owned" THEN [e |-> e, ok |-> FALSE]
       ELSE IF ~r.ok THEN [e |-> [e EXCEPT !.owned_cap = t.owned_cap], ok |-> FALSE]
       ELSE [e |-> Let([r.e EXCEPT !.owned = Append(@, p)], r.old), ok |-> TRUE]

unsetenv(e, n) ==
    LET Named(p) == Deref(e, p).name = n
    IN FoldLeft(release, [e EXCEPT !.list = SelectSeq(@, LAMBDA p : ~Named(p))], SelectSeq(e.list, Named))
putenv(e, p, fails) ==
    LET r == env_put(e, p, e.str[p].name, fails)
    IN IF r.ok THEN [e |-> Let(r.e, r.old), ok |-> TRUE] ELSE [e |-> e, ok |-> FALSE]
clearenv(e) == [FoldLeft(release, e, e.list) EXCEPT !.list = <<>>, !.where = "null", !.cap = 0]

-----------------------------------------------------------------------------
(* A program and the environment it means *)

\* environ becomes an array of the program's, or null.
Assigned(e, pairs) ==
    LET made == FoldLeft(LAMBDA f, x : Make(f, x, FALSE), e, pairs)
    IN [made EXCEPT !.list = [i \in DOMAIN pairs |-> Len(e.str) + i], !.where = "program"]
NoEnv == [where |-> "null", list |-> <<>>, cap |-> 0, owned |-> <<>>, owned_cap |-> 0, str |-> <<>>, live |-> {}, wrong |-> FALSE]
Init == /\ want \in Arrays /\ env = Assigned(NoEnv, want) /\ orphans = {}

FirstOf(n) == SelectInSeq(want, LAMBDA x : x.name = n)
Changed(n, v) == IF FirstOf(n) = 0 THEN Append(want, Pair(n, v)) ELSE [want EXCEPT ![FirstOf(n)].value = v]
Without(n) == SelectSeq(want, LAMBDA x : x.name # n)
Room == Len(env.str) < MaxStrings
Sources == [from : {"text"}, text : Values] \cup [from : {"name"}, name : {want[i].name : i \in DOMAIN want}]
Meant(v) == IF v.from = "text" THEN v.text ELSE want[FirstOf(v.name)].value

Setenv(n, v, overwrite, fails) ==
    LET r == setenv(env, n, v, overwrite, fails)
    IN /\ Room /\ env' = r.e /\ UNCHANGED orphans
       /\ want' = IF r.ok /\ (overwrite \/ FirstOf(n) = 0) THEN Changed(n, Meant(v)) ELSE want
\* putenv of a new string, or of one that is or was in the environment
Putenv(n, v, fails) ==
    LET r == putenv(Make(env, Pair(n, v), FALSE), Len(env.str) + 1, fails)
    IN /\ Room /\ env' = r.e /\ want' = (IF r.ok THEN Changed(n, v) ELSE want) /\ UNCHANGED orphans
PutAgain(p, fails) ==
    LET r == putenv(env, p, fails)
    IN /\ ~env.str[p].mine /\ env' = r.e /\ UNCHANGED orphans
       /\ want' = IF r.ok THEN Changed(env.str[p].name, env.str[p].value) ELSE want
Unsetenv(n) == env' = unsetenv(env, n) /\ want' = Without(n) /\ UNCHANGED orphans
Clearenv == env' = clearenv(env) /\ want' = <<>> /\ UNCHANGED orphans
Assign(a) == /\ Len(env.str) + Len(a) <= MaxStrings /\ env' = Assigned(env, a) /\ want' = a
             /\ orphans' = env.live

Next == \/ \E n \in Names, v \in Sources, o \in BOOLEAN, f \in {"none", "string", "owned", "array"} : Setenv(n, v, o, f)
        \/ \E n \in Names, v \in Values, f \in BOOLEAN : Putenv(n, v, f)
        \/ \E p \in DOMAIN env.str, f \in BOOLEAN : PutAgain(p, f)
        \/ \E n \in Names : Unsetenv(n)
        \/ Clearenv
        \/ \E a \in Arrays : Assign(a)
Spec == Init /\ [][Next]_vars

\* After any sequence of calls, failed ones included, the environment holds what the
\* calls made of it, in their order; setenv's strings are freed exactly when they leave
\* it, none twice and none while environ points to it, and both tables have room for
\* what is in them.
EnvironTrue ==
    /\ [i \in DOMAIN env.list |-> Deref(env, env.list[i])] = want
    /\ ~env.wrong /\ env.live \subseteq Range(env.list) \cup orphans
    /\ Range(env.owned) = env.live /\ Len(env.owned) = Cardinality(env.live)
    /\ Len(env.owned) <= env.owned_cap
    /\ env.where = "own" => Len(env.list) + 1 <= env.cap
=============================================================================
