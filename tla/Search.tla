------------------------------- MODULE Search -------------------------------
(***************************************************************************)
(* Sorting, searching and strings: qsort.c (introsort, bsearch), search.c  *)
(* (the AVL tree of tsearch, the hash table of hsearch, queues), string.c  *)
(* and wchar.c (copies, searches, comparisons, tokens).                    *)
(* Arrays hold [k, id]: k is what the program's comparison looks at, id    *)
(* tells elements apart.  Tree nodes and queue elements live in a memory   *)
(* and are reached through pointers, as in the code; a node's address is   *)
(* its key, 0 the null pointer.                                            *)
(***************************************************************************)
EXTENDS Integers, Sequences, FiniteSets, SequencesExt

CONSTANTS Values, MaxLen,  \* keys and length of arrays to sort
          Short,           \* runs no longer are sorted by insertion: 16 in the code
          DepthFactors,    \* the depth allowed is this times the bits of the length: {2} in the code
          Keys,            \* keys of trees and tables, 1 and up
          Elements,        \* elements of queues
          Sizes,           \* sizes asked of hcreate
          Hashes,          \* what the keyed hash may be: functions of the keys
          ByteBits, WordBytes,   \* of string.c: 8 and 8 in the code
          Lower, Zero,     \* bytes that tolower changes and what to; the byte '0'
          Families,        \* of functions to call, each on ...
          Memories(_),     \* ... these memories, strings up to their last byte
          Linked(_, _),    \* the properties of the families by their names: MCText's Linkage
          Versions, VersionRoom  \* strings to compare as versions, and the bytes of the longest

VARIABLES job,   \* "sort", "tree", "table", "queue" or "strings"
          array, tree, table, queue,
          members, \* what the tree or the table should hold, and the queue in order
          call     \* the last call and its result
vars == <<job, array, tree, table, queue, members, call>>

NoCall == [op |-> "none"]
Highest(a, b) == IF a > b THEN a ELSE b

-----------------------------------------------------------------------------
(* qsort and bsearch *)

Swap(a, i, j) == [a EXCEPT ![i] = a[j], ![j] = a[i]]
RECURSIVE Sink(_, _, _)
Sink(a, b, j) == IF j > 0 /\ a[b + j - 1].k > a[b + j].k THEN Sink(Swap(a, b + j - 1, b + j), b, j - 1) ELSE a
insertion(a, b, n) == IF n < 2 THEN a ELSE FoldLeft(LAMBDA x, i : Sink(x, b, i), a, [i \in 1..(n - 1) |-> i])
RECURSIVE sift(_, _, _, _)
\* Mutant: the root changes with its left child.
siftLeft(a, b, root, n) ==
    LET left == (2 * root) + 1
        child == left
    IN IF left >= n \/ a[b + root].k >= a[b + child].k THEN a ELSE sift(Swap(a, b + root, b + child), b, child, n)
sift(a, b, root, n) ==
    LET left == (2 * root) + 1
        child == IF left + 1 < n /\ a[b + left].k < a[b + left + 1].k THEN left + 1 ELSE left
    IN IF left >= n \/ a[b + root].k >= a[b + child].k THEN a ELSE sift(Swap(a, b + root, b + child), b, child, n)
heapsort_(a, b, n) ==
    LET heap == IF n < 2 THEN a ELSE FoldLeft(LAMBDA x, i : sift(x, b, (n \div 2) - i, n), a, [i \in 1..(n \div 2) |-> i])
    IN IF n < 2 THEN heap ELSE FoldLeft(LAMBDA x, i : sift(Swap(x, b, b + n - i), b, 0, n - i), heap, [i \in 1..(n - 1) |-> i])
\* The median of the first, the middle and the last comes to the front
Median(a, b, n) ==
    LET mid == b + (n \div 2)
        hi == b + n - 1
        order(x, i, j) == IF x[j].k < x[i].k THEN Swap(x, i, j) ELSE x
        one == order(a, b, mid)
        two == IF one[hi].k < one[mid].k THEN order(Swap(one, hi, mid), b, mid) ELSE one
    IN Swap(two, b, mid)
RECURSIVE Hoare(_, _, _, _, _)
Hoare(a, b, n, i, j) ==
    LET ups == {x \in (i + 1)..n : x = n \/ a[b + x].k >= a[b].k}
        downs == {y \in 0..(j - 1) : a[b + y].k <= a[b].k}
        up == CHOOSE x \in ups : \A y \in ups : x <= y
        down == CHOOSE x \in downs : \A y \in downs : x >= y
    IN IF up >= down THEN [a |-> Swap(a, b, b + down), j |-> down] ELSE Hoare(Swap(a, b + up, b + down), b, n, up, down)
RECURSIVE introsort(_, _, _, _)
introsort(a, b, n, depth) ==
    LET p == Hoare(Median(a, b, n), b, n, 0, n)
        right == n - p.j - 1
    IN IF n <= Short THEN insertion(a, b, n)
       ELSE IF depth = 0 THEN heapsort_(a, b, n)
       ELSE IF p.j < right THEN introsort(introsort(p.a, b, p.j, depth - 1), b + p.j + 1, right, depth - 1)
       ELSE introsort(introsort(p.a, b + p.j + 1, right, depth - 1), b, p.j, depth - 1)
RECURSIVE Bits(_)
Bits(n) == IF n = 0 THEN 0 ELSE 1 + Bits(n \div 2)
qsort_r(a, factor) == LET n == Cardinality(DOMAIN a) IN IF n < 2 THEN a ELSE introsort(a, 0, n, factor * Bits(n))
\* The place of key in a sorted array, -1 if it is not there
RECURSIVE Halve(_, _, _, _)
Halve(key, a, b, n) ==
    LET mid == b + (n \div 2)
    IN IF n = 0 THEN -1 ELSE IF a[mid].k = key THEN mid
       ELSE IF key > a[mid].k THEN Halve(key, a, mid + 1, n - ((n \div 2) + 1)) ELSE Halve(key, a, b, n \div 2)
bsearch(key, a) == Halve(key, a, 0, Cardinality(DOMAIN a))

-----------------------------------------------------------------------------
(* tsearch: m = [root, n], n[x] = [a |-> <<left, right>>, h |-> height]; a slot is where a pointer is kept *)

NoNode == [a |-> <<0, 0>>, h |-> 0]
RootSlot == [of |-> 0, side |-> 1]
Get(m, s) == IF s.of = 0 THEN m.root ELSE m.n[s.of].a[s.side]
Set(m, s, x) == IF s.of = 0 THEN [m EXCEPT !.root = x] ELSE [m EXCEPT !.n[s.of].a[s.side] = x]
height(m, x) == IF x = 0 THEN 0 ELSE m.n[x].h
Measure(m, x) == [m EXCEPT !.n[x].h = 1 + Highest(height(m, m.n[x].a[1]), height(m, m.n[x].a[2]))]
\* The child of x on the other side of dir takes its place: [m, top]
rot(m, x, dir) ==
    LET away == 3 - dir
        c == m.n[x].a[away]
        turned == [m EXCEPT !.n[x].a[away] = m.n[c].a[dir], !.n[c].a[dir] = x]
    IN [m |-> Measure(Measure(turned, x), c), top |-> c]
\* Mutant: no double rotation.
balanceOnce(m, x) ==
    LET hl == height(m, m.n[x].a[1])
        hr == height(m, m.n[x].a[2])
        turn(side) ==                         \* side is the high one
            LET c == m.n[x].a[side]
                inner == rot(m, c, side)
                u == m
            IN rot(u, x, 3 - side)
    IN IF hl - hr > 1 THEN turn(1) ELSE IF hr - hl > 1 THEN turn(2) ELSE [m |-> Measure(m, x), top |-> x]
balance(m, x) ==
    LET hl == height(m, m.n[x].a[1])
        hr == height(m, m.n[x].a[2])
        turn(side) ==                         \* side is the high one
            LET c == m.n[x].a[side]
                inner == rot(m, c, side)
                u == IF height(m, m.n[c].a[3 - side]) > height(m, m.n[c].a[side]) THEN [inner.m EXCEPT !.n[x].a[side] = inner.top] ELSE m
            IN rot(u, x, 3 - side)
    IN IF hl - hr > 1 THEN turn(1) ELSE IF hr - hl > 1 THEN turn(2) ELSE [m |-> Measure(m, x), top |-> x]
\* Balance from the last slot of a path back to the first
Rebalance(m, path) == FoldRight(LAMBDA s, x : LET b == balance(x, Get(x, s)) IN IF Get(x, s) = 0 THEN x ELSE Set(b.m, s, b.top), path, m)
Side(key, x) == IF key > x THEN 2 ELSE 1
\* The slots from the root to key, or to where it would be
RECURSIVE Descend(_, _, _)
Descend(m, key, path) == LET x == Get(m, Last(path))
                         IN IF x \in {0, key} THEN path ELSE Descend(m, key, Append(path, [of |-> x, side |-> Side(key, x)]))
PathTo(m, key) == Descend(m, key, <<RootSlot>>)
tfind(m, key) == Get(m, Last(PathTo(m, key)))
\* tsearch: [m, r]; fresh tells whether there is memory
tsearch(m, key, fresh) ==
    LET path == PathTo(m, key)
        new == Set([m EXCEPT !.n[key] = [a |-> <<0, 0>>, h |-> 1]], Last(path), key)
    IN IF Get(m, Last(path)) = key THEN [m |-> m, r |-> key] ELSE IF ~fresh THEN [m |-> m, r |-> 0]
       ELSE [m |-> Rebalance(new, Front(path)), r |-> key]
RECURSIVE Leftmost(_, _)
Leftmost(m, path) == LET x == Get(m, Last(path)) IN IF m.n[x].a[1] = 0 THEN path ELSE Leftmost(m, Append(path, [of |-> x, side |-> 1]))
\* Mutant: the slot of the deleted node stays on the path.
tdeleteStale(m, key) ==
    LET to == PathTo(m, key)
        slot == Last(to)
        del == m.n[key].a
        parent == IF Len(to) = 1 THEN -1 ELSE slot.of
        down == Leftmost(m, <<[of |-> key, side |-> 2]>>)     \* slots below del, the last holds the successor
        s == Get(m, Last(down))
        cut == Set(m, Last(down), m.n[s].a[2])
        moved == Set([cut EXCEPT !.n[s].a = cut.n[key].a], slot, s)
        below == Front(down)
        free(x) == [x EXCEPT !.n[key] = NoNode]
    IN IF Get(m, slot) = 0 THEN [m |-> m, r |-> 0]
       ELSE IF del[1] = 0 \/ del[2] = 0
       THEN [m |-> Rebalance(free(Set(m, slot, IF del[1] = 0 THEN del[2] ELSE del[1])), Front(to)), r |-> parent]
       ELSE [m |-> Rebalance(free(moved), to \o below), r |-> parent]
tdelete(m, key) ==
    LET to == PathTo(m, key)
        slot == Last(to)
        del == m.n[key].a
        parent == IF Len(to) = 1 THEN -1 ELSE slot.of
        down == Leftmost(m, <<[of |-> key, side |-> 2]>>)     \* slots below del, the last holds the successor
        s == Get(m, Last(down))
        cut == Set(m, Last(down), m.n[s].a[2])
        moved == Set([cut EXCEPT !.n[s].a = cut.n[key].a], slot, s)
        below == [j \in DOMAIN Front(down) |-> IF j = 1 THEN [of |-> s, side |-> 2] ELSE down[j]]
        free(x) == [x EXCEPT !.n[key] = NoNode]
    IN IF Get(m, slot) = 0 THEN [m |-> m, r |-> 0]
       ELSE IF del[1] = 0 \/ del[2] = 0
       THEN [m |-> Rebalance(free(Set(m, slot, IF del[1] = 0 THEN del[2] ELSE del[1])), Front(to)), r |-> parent]
       ELSE [m |-> Rebalance(free(moved), to \o below), r |-> parent]
RECURSIVE walk(_, _, _)
walk(m, x, level) ==
    LET see(v) == <<[x |-> x, v |-> v, level |-> level]>>
    IN IF x = 0 THEN <<>> ELSE IF m.n[x].a = <<0, 0>> THEN see("leaf")
       ELSE see("preorder") \o walk(m, m.n[x].a[1], level + 1) \o see("postorder") \o walk(m, m.n[x].a[2], level + 1) \o see("endorder")
RECURSIVE tdestroy(_, _)
tdestroy(m, x) == IF x = 0 THEN <<>> ELSE tdestroy(m, m.n[x].a[1]) \o tdestroy(m, m.n[x].a[2]) \o <<x>>

-----------------------------------------------------------------------------
(* hsearch and queues *)

NoTable == [e |-> <<>>]
RECURSIVE Doubled(_, _)
Doubled(size, nel) == IF size < nel + (nel \div 3) + 1 THEN Doubled(2 * size, nel) ELSE size
hcreate_r(nel, hash) == LET size == Doubled(8, nel) IN [e |-> [i \in 0..(size - 1) |-> 0], mask |-> size - 1, used |-> 0, hash |-> hash, nel |-> nel]
\* The slot that holds key, or the free one where its probes end
RECURSIVE Probe(_, _, _, _)
Probe(t, key, i, step) == IF t.e[i] \in {0, key} THEN i ELSE Probe(t, key, (i + step) % (t.mask + 1), step + 1)
\* Mutant: the table is full when half of it is.
hsearch_rHalf(t, key, act) ==
    LET i == Probe(t, key, t.hash[key] % (t.mask + 1), 1)
    IN IF t.e[i] = key THEN [t |-> t, r |-> key]
       ELSE IF act = "FIND" \/ t.used + 1 > t.mask - (t.mask \div 2) THEN [t |-> t, r |-> 0]
       ELSE [t |-> [t EXCEPT !.e[i] = key, !.used = @ + 1], r |-> key]
hsearch_r(t, key, act) ==
    LET i == Probe(t, key, t.hash[key] % (t.mask + 1), 1)
    IN IF t.e[i] = key THEN [t |-> t, r |-> key]
       ELSE IF act = "FIND" \/ t.used + 1 > t.mask - (t.mask \div 4) THEN [t |-> t, r |-> 0]
       ELSE [t |-> [t EXCEPT !.e[i] = key, !.used = @ + 1], r |-> key]
\* queue[x] = [next, prev]
insque(q, e, p) ==
    LET linked == [q EXCEPT ![e] = [next |-> q[p].next, prev |-> p], ![p].next = e]
        after == q[p].next
    IN IF p = 0 THEN [q EXCEPT ![e] = [next |-> 0, prev |-> 0]]
       ELSE IF after = 0 THEN linked ELSE [linked EXCEPT ![after].prev = e]
remque(q, e) ==
    LET one == IF q[e].next # 0 THEN [q EXCEPT ![q[e].next].prev = q[e].prev] ELSE q
    IN IF one[e].prev # 0 THEN [one EXCEPT ![one[e].prev].next = one[e].next] ELSE one

-----------------------------------------------------------------------------
(***************************************************************************)
(* string.c.  Memory is a function from addresses to bytes; a word is      *)
(* WordBytes bytes at a multiple of WordBytes, and its tests for a zero    *)
(* byte are made on the number.  A call that stores returns [m, r]: the    *)
(* memory and the pointer or count; NullPtr is no address.                 *)
(***************************************************************************)

NullPtr == -1
Size(m) == Cardinality(DOMAIN m)
Space == 64                                    \* addresses are numbers modulo 2^64 in the code
Base == 2^ByteBits
ONES == (Base^WordBytes - 1) \div (Base - 1)
HASZERO(x) ==
    LET y == (x - ONES) % Base^WordBytes
        high(v, i) == ((v \div Base^i) % Base) >= Base \div 2
    IN \E i \in 0..(WordBytes - 1) : high(y, i) /\ ~high(x, i)
Upto(n) == [k \in 1..n |-> k - 1]              \* the turns of a loop
Word(b) == FoldRight(LAMBDA v, w : (w * Base) + v, b, 0)
Xor(a, b) == FoldLeft(LAMBDA v, i : v + (2^i * (((a \div 2^i) + (b \div 2^i)) % 2)), 0, Upto(ByteBits))
\* The word at a, every byte of it xor c
At(m, a, c) == Word([k \in 1..WordBytes |-> Xor(m[a + k - 1], c)])

memcpy(m, d, s, n) == FoldLeft(LAMBDA x, i : [x EXCEPT ![d + i] = x[s + i]], m, Upto(n))
\* Mutant: the copy always goes upwards.
memmoveUp(m, d, s, n) == memcpy(m, d, s, n)
memmove(m, d, s, n) ==
    LET head == Min({k \in 0..n : n - k < WordBytes \/ (d + n - k) % WordBytes = 0})
        words == (n - head) \div WordBytes
        tail == (n - head) % WordBytes
        byte(x, k) == [x EXCEPT ![d + k] = x[s + k]]
        word(x, k) == [a \in DOMAIN x |-> IF a \in (d + k)..(d + k + WordBytes - 1) THEN x[a - d + s] ELSE x[a]]
        one == FoldLeft(LAMBDA x, i : byte(x, n - 1 - i), m, Upto(head))
        two == FoldLeft(LAMBDA x, i : word(x, n - head - ((i + 1) * WordBytes)), one, Upto(words))
    IN IF (d - s) % Space >= n THEN memcpy(m, d, s, n) ELSE FoldLeft(LAMBDA x, i : byte(x, tail - 1 - i), two, Upto(tail))
memset(m, d, c, n) == [a \in DOMAIN m |-> IF a \in d..(d + n - 1) THEN c ELSE m[a]]
memcmp(m, a, b, n) == LET k == Min({i \in 0..n : i = n \/ m[a + i] # m[b + i]}) IN IF k = n THEN 0 ELSE m[a + k] - m[b + k]
memchr(m, s, c, n) ==
    LET head == Min({k \in 0..n : (s + k) % WordBytes = 0 \/ k = n \/ m[s + k] = c})
        words == Min({j \in 0..n : n - head - (j * WordBytes) < WordBytes \/ HASZERO(At(m, s + head + (j * WordBytes), c))})
        from == IF head < n /\ m[s + head] # c THEN head + (words * WordBytes) ELSE head
        k == Min({i \in from..n : i = n \/ m[s + i] = c})
    IN IF k = n THEN NullPtr ELSE s + k
memrchr(m, s, c, n) == LET S == {k \in 0..(n - 1) : m[s + k] = c} IN IF S = {} THEN NullPtr ELSE s + Max(S)
mempcpy(m, d, s, n) == [m |-> memcpy(m, d, s, n), r |-> d + n]
memccpy(m, d, s, c, n) ==
    LET k == Min({i \in 0..n : i = n \/ m[s + i] = c})
    IN IF k = n THEN [m |-> memcpy(m, d, s, n), r |-> NullPtr] ELSE [m |-> memcpy(m, d, s, k + 1), r |-> d + k + 1]
RECURSIVE Occurrence(_, _, _, _, _)
Occurrence(m, h, end, n, l) ==
    LET at == memchr(m, h, m[n], end - h)
    IN IF h >= end \/ at = NullPtr THEN NullPtr ELSE IF memcmp(m, at, n, l) = 0 THEN at ELSE Occurrence(m, at + 1, end, n, l)
memmem(m, h, k, n, l) == IF l = 0 THEN h ELSE IF k < l THEN NullPtr ELSE Occurrence(m, h, h + (k - l) + 1, n, l)

\* Bytes up to a word's boundary, words that have none of inwords, then bytes again, to the first of ends
Seek(m, s, ends, inwords) ==
    LET head == Min({k \in 0..(WordBytes - 1) : (s + k) % WordBytes = 0 \/ m[s + k] \in ends})
        word(j) == s + head + (j * WordBytes)
        words == Min({j \in 0..Size(m) : word(j) >= Size(m) \/ \E b \in inwords : HASZERO(At(m, word(j), b))})
        from == IF (s + head) % WordBytes = 0 THEN head + (words * WordBytes) ELSE head
        found == {k \in from..(Size(m) - 1 - s) : m[s + k] \in ends}
    IN IF found = {} THEN Size(m) ELSE Min(found)            \* never empty in a string
strlen(m, s) == Seek(m, s, {0}, {0})
strnlen(m, s, n) == LET p == memchr(m, s, 0, n) IN IF p = NullPtr THEN n ELSE p - s
stpcpy(m, d, s) == LET n == strlen(m, s) IN [m |-> memcpy(m, d, s, n + 1), r |-> d + n]
stpncpy(m, d, s, n) == LET l == strnlen(m, s, n) IN [m |-> memset(memcpy(m, d, s, l), d + l, 0, n - l), r |-> d + l]
strcat(m, d, s) == [m |-> stpcpy(m, d + strlen(m, d), s).m, r |-> d]
strncat(m, d, s, n) ==
    LET e == d + strlen(m, d)
        l == strnlen(m, s, n)
    IN [m |-> [memcpy(m, e, s, l) EXCEPT ![e + l] = 0], r |-> d]
strlcpy(m, d, s, n) ==
    LET l == strlen(m, s)
        c == IF l < n - 1 THEN l ELSE n - 1
    IN [m |-> IF n = 0 THEN m ELSE [memcpy(m, d, s, c) EXCEPT ![d + c] = 0], r |-> l]
\* Mutant: a destination that is full is measured with strlen.
strlcatFull(m, d, s, n) ==
    LET l == strlen(m, d)
        c == strlcpy(m, d + l, s, n - l)
    IN IF l >= n THEN [m |-> m, r |-> l + strlen(m, s)] ELSE [c EXCEPT !.r = @ + l]
strlcat(m, d, s, n) ==
    LET l == strnlen(m, d, n)
        c == strlcpy(m, d + l, s, n - l)
    IN IF l = n THEN [m |-> m, r |-> l + strlen(m, s)] ELSE [c EXCEPT !.r = @ + l]
strxfrm(m, d, s, n) == LET l == strlen(m, s) IN [m |-> IF n > l THEN stpcpy(m, d, s).m ELSE m, r |-> l]
\* d is what malloc returned
strdup(m, d, s) == IF d = NullPtr THEN [m |-> m, r |-> NullPtr] ELSE [m |-> memcpy(m, d, s, strlen(m, s) + 1), r |-> d]
strndup(m, d, s, n) ==
    LET l == strnlen(m, s, n)
    IN IF d = NullPtr THEN [m |-> m, r |-> NullPtr] ELSE [m |-> [memcpy(m, d, s, l) EXCEPT ![d + l] = 0], r |-> d]

tolower(c) == IF c \in DOMAIN Lower THEN Lower[c] ELSE c
\* The place where the loops of the comparisons stop: after n bytes, at a terminator or a difference
Parts(m, l, r, n, nocase) ==
    LET f(c) == IF nocase THEN tolower(c) ELSE c IN
    Min({k \in 0..(Size(m) - 1 - Highest(l, r)) : k = n - 1 \/ m[l + k] = 0 \/ m[r + k] = 0 \/ f(m[l + k]) # f(m[r + k])})
strcmp(m, l, r) == LET k == Parts(m, l, r, Size(m) + 1, FALSE) IN m[l + k] - m[r + k]
strncmp(m, l, r, n) == LET k == Parts(m, l, r, n, FALSE) IN IF n = 0 THEN 0 ELSE m[l + k] - m[r + k]
strcasecmp(m, l, r) == LET k == Parts(m, l, r, Size(m) + 1, TRUE) IN tolower(m[l + k]) - tolower(m[r + k])
strncasecmp(m, l, r, n) == LET k == Parts(m, l, r, n, TRUE) IN IF n = 0 THEN 0 ELSE tolower(m[l + k]) - tolower(m[r + k])
timingsafe_bcmp(m, a, b, n) == IF \E i \in 0..(n - 1) : Xor(m[a + i], m[b + i]) # 0 THEN 1 ELSE 0
timingsafe_memcmp(m, a, b, n) ==
    LET step(x, i) == LET lt == m[a + i] < m[b + i]
                          gt == m[b + i] < m[a + i]
                      IN [res |-> IF x.done THEN x.res ELSE IF lt THEN -1 ELSE IF gt THEN 1 ELSE 0, done |-> x.done \/ lt \/ gt]
    IN FoldLeft(step, [res |-> 0, done |-> FALSE], Upto(n)).res

\* Mutant: the words are searched for c alone.
strchrnulPast(m, s, c) == s + (IF c = 0 THEN strlen(m, s) ELSE Seek(m, s, {0, c}, {c}))
strchrnul(m, s, c) ==
    s + (IF c = 0 THEN strlen(m, s)
         ELSE Seek(m, s, {0, c}, {0, c}))
strchr(m, s, c) == LET r == strchrnul(m, s, c) IN IF m[r] = c THEN r ELSE NullPtr
strrchr(m, s, c) == memrchr(m, s, c, strlen(m, s) + 1)
byteset(m, c) == {m[c + k] : k \in 0..(strlen(m, c) - 1)}
strspn(m, s, c) ==
    LET set == IF m[c] # 0 /\ m[c + 1] = 0 THEN {m[c]} ELSE byteset(m, c)
    IN IF m[c] = 0 THEN 0 ELSE Min({k \in 0..(Size(m) - 1 - s) : m[s + k] = 0 \/ m[s + k] \notin set})
strcspn(m, s, c) ==
    IF m[c] = 0 \/ m[c + 1] = 0 THEN strchrnul(m, s, m[c]) - s
    ELSE Min({k \in 0..(Size(m) - 1 - s) : m[s + k] = 0 \/ m[s + k] \in byteset(m, c)})
strpbrk(m, s, b) == LET p == s + strcspn(m, s, b) IN IF m[p] = 0 THEN NullPtr ELSE p
strstr(m, h, n) == LET l == strlen(m, n) IN IF l = 0 THEN h ELSE memmem(m, h, strlen(m, h), n, l)
strcasestr(m, h, n) ==
    LET l == strlen(m, n)
        e == h + strlen(m, h)
        S == {p \in h..(e - 1) : strncasecmp(m, p, n, l) = 0}
    IN IF S # {} THEN Min(S) ELSE IF l = 0 THEN e ELSE NullPtr

\* [m, r, p]: p is the saved pointer
strtok_r(m, s0, sep, p) ==
    LET s1 == IF s0 = NullPtr THEN p ELSE s0
        s == s1 + strspn(m, s1, sep)
        e == s + strcspn(m, s, sep)
    IN IF s1 = NullPtr THEN [m |-> m, r |-> NullPtr, p |-> p]
       ELSE IF m[s] = 0 THEN [m |-> m, r |-> NullPtr, p |-> NullPtr]
       ELSE IF m[e] # 0 THEN [m |-> [m EXCEPT ![e] = 0], r |-> s, p |-> e + 1]
       ELSE [m |-> m, r |-> s, p |-> NullPtr]
\* Mutant: a separator at the end of the string ends the fields.
strsepLast(m, sep, p) ==
    LET e == p + strcspn(m, p, sep)
    IN IF p = NullPtr THEN [m |-> m, r |-> NullPtr, p |-> p]
       ELSE IF m[e] # 0 /\ m[e + 1] # 0 THEN [m |-> [m EXCEPT ![e] = 0], r |-> p, p |-> e + 1]
       ELSE [m |-> [m EXCEPT ![e] = 0], r |-> p, p |-> NullPtr]
strsep(m, sep, p) ==
    LET e == p + strcspn(m, p, sep)
    IN IF p = NullPtr THEN [m |-> m, r |-> NullPtr, p |-> p]
       ELSE IF m[e] # 0 THEN [m |-> [m EXCEPT ![e] = 0], r |-> p, p |-> e + 1]
       ELSE [m |-> m, r |-> p, p |-> NullPtr]
isdigit(c) == c \in Zero..(Zero + 9)
\* Mutant: the runs of digits are compared after leading zeros too.
strverscmpZeros(m, l, r) ==
    LET i == Min({k \in 0..(Size(m) - 1 - Highest(l, r)) : m[l + k] # m[r + k] \/ m[l + k] = 0})
        dp == Max({0} \cup {k + 1 : k \in {j \in 0..(i - 1) : ~isdigit(m[l + j])}})
        digits(s) == Min({k \in 0..(Size(m) - 1 - s - i) : ~isdigit(m[s + i + k])})
    IN IF m[l + i] = m[r + i] THEN 0
       ELSE IF isdigit(m[l + dp]) /\ isdigit(m[r + dp]) /\ digits(l) # digits(r) THEN IF digits(l) > digits(r) THEN 1 ELSE -1
       ELSE m[l + i] - m[r + i]
strverscmp(m, l, r) ==
    LET i == Min({k \in 0..(Size(m) - 1 - Highest(l, r)) : m[l + k] # m[r + k] \/ m[l + k] = 0})
        dp == Max({0} \cup {k + 1 : k \in {j \in 0..(i - 1) : ~isdigit(m[l + j])}})
        zeros == \A k \in dp..(i - 1) : m[l + k] = Zero
        number == \A s \in {l, r} : isdigit(m[s + dp]) /\ m[s + dp] # Zero
        digits(s) == Min({k \in 0..(Size(m) - 1 - s - i) : ~isdigit(m[s + i + k])})
    IN IF m[l + i] = m[r + i] THEN 0
       ELSE IF number /\ digits(l) # digits(r) THEN IF digits(l) > digits(r) THEN 1 ELSE -1
       ELSE IF ~number /\ zeros /\ dp < i /\ (isdigit(m[l + i]) \/ isdigit(m[r + i]))
       THEN ((m[l + i] - Zero) % Base) - ((m[r + i] - Zero) % Base)
       ELSE m[l + i] - m[r + i]

\* The checked forms stop the program (__chk_fail) when dl, the size of what d points to, is too small
Abort == [m |-> <<>>, r |-> "abort"]
__memcpy_chk(m, d, s, n, dl) == IF n > dl THEN Abort ELSE [m |-> memcpy(m, d, s, n), r |-> d]
__memmove_chk(m, d, s, n, dl) == IF n > dl THEN Abort ELSE [m |-> memmove(m, d, s, n), r |-> d]
__memset_chk(m, d, c, n, dl) == IF n > dl THEN Abort ELSE [m |-> memset(m, d, c, n), r |-> d]
__mempcpy_chk(m, d, s, n, dl) == IF n > dl THEN Abort ELSE mempcpy(m, d, s, n)
__strcpy_chk(m, d, s, dl) == LET n == strlen(m, s) + 1 IN IF n > dl THEN Abort ELSE [m |-> memcpy(m, d, s, n), r |-> d]
__stpcpy_chk(m, d, s, dl) == LET n == strlen(m, s) IN IF n + 1 > dl THEN Abort ELSE [m |-> memcpy(m, d, s, n + 1), r |-> d + n]
__strncpy_chk(m, d, s, n, dl) == IF n > dl THEN Abort ELSE [stpncpy(m, d, s, n) EXCEPT !.r = d]
__stpncpy_chk(m, d, s, n, dl) == IF n > dl THEN Abort ELSE stpncpy(m, d, s, n)
__strcat_chk(m, d, s, dl) ==
    LET a == strnlen(m, d, dl)
        b == strlen(m, s)
    IN IF a = dl \/ a + b + 1 > dl THEN Abort ELSE [m |-> memcpy(m, d + a, s, b + 1), r |-> d]
__strncat_chk(m, d, s, n, dl) ==
    LET a == strnlen(m, d, dl)
        b == strnlen(m, s, n)
    IN IF a = dl \/ a + b + 1 > dl THEN Abort ELSE [m |-> [memcpy(m, d + a, s, b) EXCEPT ![d + a + b] = 0], r |-> d]
__strlcpy_chk(m, d, s, n, dl) == IF n > dl THEN Abort ELSE strlcpy(m, d, s, n)
__strlcat_chk(m, d, s, n, dl) == IF n > dl THEN Abort ELSE strlcat(m, d, s, n)

(* wchar.c: the same functions one element at a time. *)
wcslen(m, s) == Min({k \in 0..(Size(m) - 1 - s) : m[s + k] = 0})
wcsnlen(m, s, n) == Min({k \in 0..n : k = n \/ m[s + k] = 0})
wmemcpy(m, d, s, n) == FoldLeft(LAMBDA x, i : [x EXCEPT ![d + i] = x[s + i]], m, Upto(n))
\* Mutant: the direction is that of the lower of the two blocks.
wmemmoveSwapped(m, d, s, n) ==
    IF (s - d) % Space >= n THEN wmemcpy(m, d, s, n) ELSE FoldRight(LAMBDA i, x : [x EXCEPT ![d + i] = x[s + i]], Upto(n), m)
wmemmove(m, d, s, n) ==
    IF (d - s) % Space >= n THEN wmemcpy(m, d, s, n) ELSE FoldRight(LAMBDA i, x : [x EXCEPT ![d + i] = x[s + i]], Upto(n), m)
wmemset(m, d, c, n) == FoldLeft(LAMBDA x, i : [x EXCEPT ![d + i] = c], m, Upto(n))
wcscpy(m, d, s) == wmemcpy(m, d, s, wcslen(m, s) + 1)
wcsncpy(m, d, s, n) == LET k == wcsnlen(m, s, n) IN wmemset(wmemcpy(m, d, s, k), d + k, 0, n - k)
wcscat(m, d, s) == wcscpy(m, d + wcslen(m, d), s)
wcsncat(m, d, s, n) == LET e == d + wcslen(m, d)
                           k == wcsnlen(m, s, n)
                       IN [wmemcpy(m, e, s, k) EXCEPT ![e + k] = 0]
wcsdup(m, d, s) == IF d = NullPtr THEN m ELSE wmemcpy(m, d, s, wcslen(m, s) + 1)
wcsxfrm(m, d, s, n) == LET l == wcslen(m, s) IN [m |-> IF l < n THEN wmemcpy(m, d, s, l + 1) ELSE m, r |-> l]
Three(a, b) == IF a < b THEN -1 ELSE IF a > b THEN 1 ELSE 0
wcscmp(m, l, r) == LET k == Min({i \in 0..(Size(m) - 1 - Highest(l, r)) : m[l + i] # m[r + i] \/ m[l + i] = 0}) IN Three(m[l + k], m[r + k])
wcscoll(m, l, r) == wcscmp(m, l, r)
wcsncmp(m, l, r, n) == LET k == Parts(m, l, r, n, FALSE) IN IF n = 0 THEN 0 ELSE Three(m[l + k], m[r + k])
wmemcmp(m, l, r, n) == LET k == Min({i \in 0..n : i = n \/ m[l + i] # m[r + i]}) IN IF k = n THEN 0 ELSE Three(m[l + k], m[r + k])
wmemchr(m, s, c, n) == LET k == Min({i \in 0..n : i = n \/ m[s + i] = c}) IN IF k = n THEN NullPtr ELSE s + k
wcschr(m, s, c) == LET p == s + Min({k \in 0..(Size(m) - 1 - s) : m[s + k] \in {c, 0}}) IN IF m[p] = c THEN p ELSE NullPtr
wcsrchr(m, s, c) == LET S == {k \in 0..wcslen(m, s) : m[s + k] = c} IN IF S = {} THEN NullPtr ELSE s + Max(S)
wcsspn(m, s, c) == Min({k \in 0..(Size(m) - 1 - s) : m[s + k] = 0 \/ wcschr(m, c, m[s + k]) = NullPtr})
wcscspn(m, s, c) == Min({k \in 0..(Size(m) - 1 - s) : m[s + k] = 0 \/ wcschr(m, c, m[s + k]) # NullPtr})
wcspbrk(m, s, c) == LET p == s + wcscspn(m, s, c) IN IF m[p] # 0 THEN p ELSE NullPtr
\* [m, r, p] as for strtok_r
wcstok(m, s0, sep, p) ==
    LET s1 == IF s0 = NullPtr THEN p ELSE s0
        s == s1 + wcsspn(m, s1, sep)
        e == s + wcscspn(m, s, sep)
    IN IF s1 = NullPtr THEN [m |-> m, r |-> NullPtr, p |-> p]
       ELSE IF m[s] = 0 THEN [m |-> m, r |-> NullPtr, p |-> NullPtr]
       ELSE [m |-> IF m[e] # 0 THEN [m EXCEPT ![e] = 0] ELSE m, r |-> s, p |-> IF m[e] # 0 THEN e + 1 ELSE NullPtr]
\* The length of the longest prefix of n that c continues, of those that end a match of k elements
RECURSIVE Fallback(_, _, _, _, _)
\* Mutant: after a mismatch the match starts over.
FallbackStart(m, n, fail, k, c) == IF k > 0 /\ c # m[n + k] THEN 0 ELSE k
Fallback(m, n, fail, k, c) == IF k > 0 /\ c # m[n + k] THEN Fallback(m, n, fail, fail[k - 1], c) ELSE k
\* memory: malloc had some for the table, which only a needle of more than 64 elements asks for
wcsstr(m, h, n, memory) ==
    LET l == wcslen(m, n)
        longer(fail, k, c) == LET j == Fallback(m, n, fail, k, c) IN IF c = m[n + j] THEN j + 1 ELSE j
        fail == FoldLeft(LAMBDA f, i : Append(f, longer([j \in 0..(i - 1) |-> f[j + 1]], f[i], m[n + i])), <<0>>, Tail(Upto(l)))
        turn(x, i) == IF x.k = l THEN x ELSE [k |-> longer([j \in 0..(l - 1) |-> fail[j + 1]], x.k, m[h + i]), i |-> i]
        last == FoldLeft(turn, [k |-> 0, i |-> 0], Upto(wcslen(m, h)))
        plain == {p \in h..(h + wcslen(m, h) - 1) : wcsncmp(m, p, n, l) = 0}
    IN IF l = 0 THEN h
       ELSE IF ~memory THEN IF plain = {} THEN NullPtr ELSE Min(plain)
       ELSE IF last.k = l THEN h + last.i - (l - 1) ELSE NullPtr

-----------------------------------------------------------------------------
(* The program's calls *)

Init == /\ job \in {"sort", "tree", "table", "queue", "strings"} /\ array = <<>> /\ members = <<>> /\ call = NoCall /\ table = NoTable
        /\ tree = [root |-> 0, n |-> [x \in Keys |-> NoNode]] /\ queue = [x \in Elements |-> [next |-> 0, prev |-> 0]]
Does(c) == call' = c
\* An array grows by an element
Grow == /\ job = "sort" /\ Len(array) < MaxLen /\ \E v \in Values : array' = Append(array, [k |-> v, id |-> Len(array)])
        /\ Does(NoCall) /\ UNCHANGED <<job, tree, table, queue, members>>
Sort == /\ job = "sort" /\ UNCHANGED <<job, array, tree, table, queue, members>> /\ call = NoCall
        /\ \E factor \in DepthFactors : Does([op |-> "qsort", r |-> qsort_r([i \in 0..(Len(array) - 1) |-> array[i + 1]], factor)])
Remembered(k) == Append(SelectSeq(members, LAMBDA x : x # k), k)
Forgotten(k) == SelectSeq(members, LAMBDA x : x # k)
Ordered(s) == SortSeq(s, LAMBDA x, y : x < y)
Tree == /\ job = "tree" /\ UNCHANGED <<job, array, table, queue>>
        /\ \E k \in Keys :
              \/ \E fresh \in BOOLEAN : \E t \in {tsearch(tree, k, fresh)} :
                                           tree' = t.m /\ Does([op |-> "tsearch", k |-> k, r |-> t.r, was |-> tree])
                                           /\ members' = IF t.r = k THEN Ordered(Remembered(k)) ELSE members
              \/ \E t \in {tdelete(tree, k)} : tree' = t.m /\ Does([op |-> "tdelete", k |-> k, r |-> t.r, was |-> tree]) /\ members' = Forgotten(k)
Create == /\ job = "table" /\ table = NoTable /\ \E n \in Sizes, h \in Hashes : table' = hcreate_r(n, h)
          /\ UNCHANGED <<job, array, tree, queue, members, call>>
\* New keys come in ascending order: another order is this one with another hash
Table == /\ job = "table" /\ table # NoTable /\ UNCHANGED <<job, array, tree, queue>>
         /\ \E k \in Keys, act \in {"FIND", "ENTER"} :
               /\ k <= Len(members) + 1
               /\ LET t == hsearch_r(table, k, act)
                  IN table' = t.t /\ Does([op |-> act, k |-> k, r |-> t.r]) /\ members' = IF t.r = k THEN Ordered(Remembered(k)) ELSE members
\* A list that starts with the element inserted after nothing
Queue == /\ job = "queue" /\ UNCHANGED <<job, array, tree, table>> /\ Does([op |-> "queue"])
         /\ \/ \E e \in Elements : members = <<>> /\ queue' = insque(queue, e, 0) /\ members' = <<e>>
            \/ \E e \in Elements \ ToSet(members), j \in DOMAIN members :
                  /\ queue' = insque(queue, e, members[j]) /\ members' = SubSeq(members, 1, j) \o <<e>> \o SubSeq(members, j + 1, Len(members))
            \/ \E j \in DOMAIN members : queue' = remque(queue, members[j]) /\ members' = Forgotten(members[j])
\* The functions of a family are called on a memory, or two versions compared
Strings == /\ job = "strings" /\ call = NoCall /\ UNCHANGED <<job, tree, table, queue, members>>
           /\ \/ \E f \in Families : \E m \in Memories(f) : array' = m /\ Does([op |-> f])
              \/ \E x, y \in Versions : UNCHANGED array /\ Does([op |-> "versions", x |-> x, y |-> y])
Next == Grow \/ Sort \/ Tree \/ Create \/ Table \/ Queue \/ Strings
Spec == Init /\ [][Next]_vars

-----------------------------------------------------------------------------
(* What the calls promise *)

\* qsort gives back the same elements in order, whichever of its three sorts did the work, and bsearch
\* finds a key in the result exactly if an element has it.
SortTrue ==
    call.op = "qsort" =>
       LET a == call.r
           n == Len(array)
       IN /\ \A i \in 0..(n - 2) : a[i].k <= a[i + 1].k
          /\ DOMAIN a = 0..(n - 1) /\ {a[i] : i \in DOMAIN a} = ToSet(array)
          /\ \A v \in Values : LET at == bsearch(v, a)
                               IN IF \E i \in DOMAIN a : a[i].k = v THEN at \in DOMAIN a /\ a[at].k = v ELSE at = -1

RECURSIVE Under(_, _)
Under(m, x) == IF x = 0 THEN {} ELSE {x} \cup Under(m, m.n[x].a[1]) \cup Under(m, m.n[x].a[2])
\* After any sequence of tsearch and tdelete the tree holds the keys put in and not taken out, in order,
\* every recorded height right and no two sides differing by more than one; no pointer leads to a freed
\* node; tdelete returns the parent; twalk meets the keys in order and tdestroy frees each node once.
TreeTrue ==
    job = "tree" =>
    /\ Under(tree, tree.root) = ToSet(members)
    /\ \A x \in ToSet(members) :
         LET l == tree.n[x].a[1]
             r == tree.n[x].a[2]
             hl == height(tree, l)
             hr == height(tree, r)
         IN /\ \A y \in Under(tree, l) : y < x
            /\ \A y \in Under(tree, r) : y > x
            /\ tree.n[x].h = 1 + Highest(hl, hr) /\ hl - hr \in -1..1
            /\ tfind(tree, x) = x
    /\ LET seen == SelectSeq(walk(tree, tree.root, 0), LAMBDA v : v.v \in {"postorder", "leaf"})
       IN [j \in DOMAIN seen |-> seen[j].x] = members
    /\ LET gone == tdestroy(tree, tree.root) IN Len(gone) = Len(members) /\ ToSet(gone) = ToSet(members)
    /\ call.op = "tdelete" /\ call.r > 0 => call.k \in ToSet(call.was.n[call.r].a)
\* A table finds exactly what was entered, however the keys collide, and takes at least as many entries
\* as it was created for; every list a queue's links describe, forwards and back, is the right one.
TableTrue ==
    /\ job = "table" /\ table # NoTable =>
         /\ \A k \in Keys : hsearch_r(table, k, "FIND").r = IF k \in ToSet(members) THEN k ELSE 0
         /\ call.op = "ENTER" /\ call.r = 0 => Len(members) >= table.nel
         /\ table.used = Len(members)
    /\ job = "queue" => \A j \in DOMAIN members :
         queue[members[j]] = [next |-> IF j < Len(members) THEN members[j + 1] ELSE 0, prev |-> IF j > 1 THEN members[j - 1] ELSE 0]
\* What strings and blocks mean
Text(m, s) == LET e == Min({a \in s..(Size(m) - 1) : m[a] = 0}) IN [k \in 1..(e - s) |-> m[s + k - 1]]
Block(m, s, n) == [k \in 1..n |-> m[s + k - 1]]
Holding(m, d, t) == [a \in DOMAIN m |-> IF a - d + 1 \in DOMAIN t THEN t[a - d + 1] ELSE m[a]]
Cut(t, n) == SubSeq(t, 1, IF n < Len(t) THEN n ELSE Len(t))
Ended(t) == Append(t, 0)
Precedes(t, u) == \E k \in 1..Len(u) : Cut(t, k - 1) = Cut(u, k - 1) /\ (k > Len(t) \/ t[k] < u[k])
Sign(x, t, u) == (x < 0 <=> Precedes(t, u)) /\ (x = 0 <=> t = u)
Least(S, otherwise) == IF S = {} THEN otherwise ELSE Min(S)
Occurs(t, u, j) == j + Len(t) - 1 <= Len(u) /\ SubSeq(u, j, j + Len(t) - 1) = t
Apart(a, n, b, k) == a + n <= b \/ b + k <= a

\* A copy leaves what it was told to at its destination and nothing anywhere else: memmove
\* under any overlap, the string copies with their terminator and their padding and within
\* the size they are given, cut short when it is too small, with the count the caller needs.
CopiesTrue(m) ==
    \A d, s \in DOMAIN m, n \in 0..Size(m) :
       LET t == Text(m, s)
           old == Text(m, d)
           fits(k) == d + k <= Size(m) /\ Apart(d, k, s, Len(t) + 1)
           ends == d + Len(old)                                     \* where a string is appended
       IN /\ d + n <= Size(m) /\ s + n <= Size(m) => memmove(m, d, s, n) = Holding(m, d, Block(m, s, n))
          /\ d + n <= Size(m) /\ s + n <= Size(m) /\ Apart(d, n, s, n) =>
               LET upto == Least({k \in 1..n : m[s + k - 1] = 1}, n)
               IN memccpy(m, d, s, 1, n) = [m |-> Holding(m, d, Block(m, s, upto)),
                                            r |-> IF 1 \in Range(Block(m, s, n)) THEN d + upto ELSE NullPtr]
          /\ n = 0 /\ fits(Len(t) + 1) => stpcpy(m, d, s) = [m |-> Holding(m, d, Ended(t)), r |-> d + Len(t)]
          /\ s + n <= Size(m) /\ fits(n) =>
               /\ stpncpy(m, d, s, n) = [m |-> Holding(m, d, Cut(t \o [k \in 1..n |-> 0], n)), r |-> d + Len(Cut(t, n))]
               /\ strlcpy(m, d, s, n) = [m |-> IF n = 0 THEN m ELSE Holding(m, d, Ended(Cut(t, n - 1))), r |-> Len(t)]
               /\ strlcat(m, d, s, n) = IF Len(old) >= n THEN [m |-> m, r |-> n + Len(t)]
                                        ELSE [m |-> Holding(m, d, Ended(Cut(old \o t, n - 1))), r |-> Len(old) + Len(t)]
               /\ strxfrm(m, d, s, n) = [m |-> IF n > Len(t) THEN Holding(m, d, Ended(t)) ELSE m, r |-> Len(t)]
          /\ n = 0 /\ fits(Len(old) + Len(t) + 1) => strcat(m, d, s).m = Holding(m, d, Ended(old \o t))
          /\ s + n <= Size(m) /\ fits(Len(old) + Len(Cut(t, n)) + 1) => strncat(m, d, s, n).m = Holding(m, d, Ended(old \o Cut(t, n)))
          /\ s + n <= Size(m) /\ fits(Len(Cut(t, n)) + 1) => strndup(m, d, s, n).m = Holding(m, d, Ended(Cut(t, n)))

\* A checked copy does what the plain one does and stores in the object alone, or stops the program.
ChecksTrue(m) ==
    \A d, s \in DOMAIN m, n \in 0..3, dl \in 2..3 :
       LET t == Text(m, s)
           inside(x, plain) == x = Abort \/ (x = plain /\ \A a \in DOMAIN m \ (d..(d + dl - 1)) : x.m[a] = m[a])
       IN d + dl <= Size(m) /\ s + n <= Size(m) /\ Apart(d, dl, s, Len(t) + 1) =>
            /\ inside(__memcpy_chk(m, d, s, n, dl), [m |-> memcpy(m, d, s, n), r |-> d])
            /\ inside(__memmove_chk(m, d, s, n, dl), [m |-> memmove(m, d, s, n), r |-> d])
            /\ inside(__memset_chk(m, d, 1, n, dl), [m |-> memset(m, d, 1, n), r |-> d])
            /\ inside(__mempcpy_chk(m, d, s, n, dl), mempcpy(m, d, s, n))
            /\ inside(__strcpy_chk(m, d, s, dl), [stpcpy(m, d, s) EXCEPT !.r = d]) /\ inside(__stpcpy_chk(m, d, s, dl), stpcpy(m, d, s))
            /\ inside(__strncpy_chk(m, d, s, n, dl), [stpncpy(m, d, s, n) EXCEPT !.r = d])
            /\ inside(__stpncpy_chk(m, d, s, n, dl), stpncpy(m, d, s, n))
            /\ inside(__strcat_chk(m, d, s, dl), strcat(m, d, s)) /\ inside(__strncat_chk(m, d, s, n, dl), strncat(m, d, s, n))
            /\ inside(__strlcpy_chk(m, d, s, n, dl), strlcpy(m, d, s, n)) /\ inside(__strlcat_chk(m, d, s, n, dl), strlcat(m, d, s, n))
            /\ __strcat_chk(m, d, s, dl) = Abort <=> Len(Text(m, d)) + Len(t) + 1 > dl
            /\ __strcpy_chk(m, d, s, dl) = Abort <=> Len(t) + 1 > dl

\* A search finds the first place (memrchr and strrchr the last) there is, whatever the
\* alignment of the string and of the place: the word at a time loops pass over none.
SearchesTrue(m) ==
    \A s \in DOMAIN m :
       LET t == Text(m, s)
           e == s + Len(t)
       IN /\ strlen(m, s) = Len(t)
          /\ \A c \in Range(m), n \in 0..(Size(m) - s) :
               LET S == {a \in s..(s + n - 1) : m[a] = c}
               IN memchr(m, s, c, n) = Least(S, NullPtr) /\ memrchr(m, s, c, n) = (IF S = {} THEN NullPtr ELSE Max(S))
          /\ \A c \in Range(m) :
               LET S == {a \in s..e : m[a] = c}
               IN /\ strchrnul(m, s, c) = Least(S, e) /\ strchr(m, s, c) = Least(S, NullPtr)
                  /\ strrchr(m, s, c) = IF S = {} THEN NullPtr ELSE Max(S)
          /\ \A b \in DOMAIN m :
               LET u == Text(m, b)
                   other == {a \in s..(e - 1) : m[a] \notin Range(u)}
                   one == {a \in s..(e - 1) : m[a] \in Range(u)}
                   low(x) == [k \in DOMAIN x |-> tolower(x[k])]
               IN /\ strspn(m, s, b) = Least(other, e) - s /\ strcspn(m, s, b) = Least(one, e) - s /\ strpbrk(m, s, b) = Least(one, NullPtr)
                  /\ strstr(m, s, b) = Least({a \in s..e : Occurs(u, t, a - s + 1)}, NullPtr)
                  /\ strcasestr(m, s, b) = Least({a \in s..e : Occurs(low(u), low(t), a - s + 1)}, NullPtr)

\* The wide functions agree with the byte ones, which count in words and in whole strings:
\* wcsstr, which never looks back in the text, finds the first occurrence whether or not
\* there is memory for its table of prefixes, and wmemmove keeps what it moves under any overlap.
WideTrue(m) ==
    \A s, d \in DOMAIN m :
       LET l == strlen(m, s)
           fits(k) == d + k <= Size(m) /\ Apart(d, k, s, l + 1)
       IN /\ wcslen(m, s) = l
          /\ \A memory \in BOOLEAN : wcsstr(m, s, d, memory) = strstr(m, s, d)
          /\ wcsspn(m, s, d) = strspn(m, s, d) /\ wcscspn(m, s, d) = strcspn(m, s, d) /\ wcspbrk(m, s, d) = strpbrk(m, s, d)
          /\ wcscoll(m, s, d) = Three(strcmp(m, s, d), 0)
          /\ \A c \in Range(m) : wcschr(m, s, c) = strchr(m, s, c) /\ wcsrchr(m, s, c) = strrchr(m, s, c)
          /\ fits(l + 1) => wcscpy(m, d, s) = stpcpy(m, d, s).m /\ wcsdup(m, d, s) = strdup(m, d, s).m
          /\ fits(strlen(m, d) + l + 1) => wcscat(m, d, s) = strcat(m, d, s).m
          /\ Apart(s, l + 1, d, strlen(m, d) + 1) => wcstok(m, s, d, NullPtr) = strtok_r(m, s, d, NullPtr) /\ wcstok(m, NullPtr, d, s) = strtok_r(m, NullPtr, d, s)
          /\ \A n \in 0..(Size(m) - Highest(s, d)) :
               /\ wmemmove(m, d, s, n) = memmove(m, d, s, n)
               /\ wcsnlen(m, s, n) = strnlen(m, s, n)
               /\ wcsncmp(m, s, d, n) = Three(strncmp(m, s, d, n), 0) /\ wmemcmp(m, s, d, n) = Three(memcmp(m, s, d, n), 0)
               /\ \A c \in Range(m) : wmemchr(m, s, c, n) = memchr(m, s, c, n)
               /\ fits(n) => wcsncpy(m, d, s, n) = stpncpy(m, d, s, n).m /\ wcsxfrm(m, d, s, n) = strxfrm(m, d, s, n)
               /\ fits(strlen(m, d) + n + 1) => wcsncat(m, d, s, n) = strncat(m, d, s, n).m

\* The comparisons order blocks and strings byte by byte, a string before its continuations.
ComparesTrue(m) ==
    \A a, b \in DOMAIN m :
       LET t == Text(m, a)
           u == Text(m, b)
           low(x) == [k \in DOMAIN x |-> tolower(x[k])]
       IN /\ Sign(strcmp(m, a, b), t, u) /\ Sign(strcasecmp(m, a, b), low(t), low(u))
          /\ \A n \in 0..Size(m) : /\ Sign(strncmp(m, a, b, n), Cut(t, n), Cut(u, n)) /\ Sign(strncasecmp(m, a, b, n), Cut(low(t), n), Cut(low(u), n))
                                 /\ a + n <= Size(m) /\ b + n <= Size(m) =>
                                      /\ Sign(memcmp(m, a, b, n), Block(m, a, n), Block(m, b, n))
                                      /\ Sign(timingsafe_memcmp(m, a, b, n), Block(m, a, n), Block(m, b, n))
                                      /\ timingsafe_bcmp(m, a, b, n) = 0 <=> Block(m, a, n) = Block(m, b, n)

\* The strings that calls return one after the other, until one returns no string
RECURSIVE Pieces(_, _, _, _)
Pieces(f, m, b, p) == LET x == IF f = "strsep" THEN strsep(m, b, p) ELSE strtok_r(m, NullPtr, b, p)
                      IN IF x.r = NullPtr THEN <<>> ELSE <<Text(x.m, x.r)>> \o Pieces(f, x.m, b, x.p)
RECURSIVE Fields(_, _)
Fields(t, sep) == LET k == Least({j \in DOMAIN t : t[j] \in sep}, 0)
                  IN IF k = 0 THEN <<t>> ELSE <<SubSeq(t, 1, k - 1)>> \o Fields(SubSeq(t, k + 1, Len(t)), sep)
\* Calls of strsep return the fields of a string, empty ones among them, and calls of strtok_r
\* those that are not empty; both return no string from then on.
TokensTrue(m) ==
    \A s, b \in DOMAIN m :
       LET t == Text(m, s)
           fields == Fields(t, Range(Text(m, b)))
       IN Apart(s, Len(t) + 1, b, Len(Text(m, b)) + 1) =>
            /\ Pieces("strsep", m, b, s) = fields
            /\ LET first == strtok_r(m, s, b, NullPtr)
               IN (IF first.r = NullPtr THEN <<>> ELSE <<Text(first.m, first.r)>> \o Pieces("strtok_r", first.m, b, first.p))
                  = SelectSeq(fields, LAMBDA f : f # <<>>)

\* strverscmp orders versions: comparing the other way round turns the sign, a smaller one is
\* below what is above the other, numerals without leading zeros go by their values, and
\* those with more leading zeros come first.
VersionsTrue(x, y) ==
    LET place(t) == Ended(t) \o [k \in 1..(VersionRoom - 1 - Len(t)) |-> 0]
        memory(z) == LET all == place(x) \o place(y) \o place(z) IN [a \in 0..(Len(all) - 1) |-> all[a + 1]]
        third == VersionRoom
        xy == strverscmp(memory(<<>>), 0, third)
        plain(t) == t # <<>> /\ t[1] # Zero /\ \A k \in DOMAIN t : isdigit(t[k])
        value(t) == FoldLeft(LAMBDA v, c : (10 * v) + c - Zero, 0, t)
        ranked == << <<Zero, Zero, Zero>>, <<Zero, Zero>>, <<Zero, Zero + 1>>, <<Zero, Zero + 1, Zero>>, <<Zero>>, <<Zero + 1>> >>
    IN /\ \A i \in DOMAIN ranked, j \in DOMAIN ranked : x = ranked[i] /\ y = ranked[j] => (xy < 0 <=> i < j)
       /\ xy > 0 <=> strverscmp(memory(<<>>), third, 0) < 0
       /\ xy = 0 <=> x = y
       /\ plain(x) /\ plain(y) => (xy < 0 <=> value(x) < value(y))
       /\ xy < 0 => \A z \in Versions : strverscmp(memory(z), third, 2 * third) < 0 => strverscmp(memory(z), 0, 2 * third) < 0
\* string.c does what its callers expect, on every small memory.
StringsTrue == call.op \in Families \cup {"versions"} => Linked(call.op, <<array, call>>)
=============================================================================
