------------------------------- MODULE Malloc -------------------------------
(***************************************************************************)
(* The allocator (src/src/omalloc/malloc.c, OpenBSD's malloc): the region  *)
(* hash table, the two page caches, pages of chunks, delayed frees, guard  *)
(* pages, canaries and junk, the pools of the threads, and every exported  *)
(* entry point.  The arithmetic is the code's; the page, the minimum chunk *)
(* and the caches are scaled down by the constants.  A byte of memory is   *)
(* one number: 0, a junk or canary byte, or the mark of the block that was *)
(* written there.  A choice the code takes from its random bytes, and the  *)
(* address mmap returns, are nondeterministic: an operation on the heap is *)
(* an operator that returns the SET of its outcomes, records of the new    *)
(* heap and of the address it returns (Null for NULL or MAP_FAILED).       *)
(***************************************************************************)
EXTENDS Integers, Sequences, FiniteSets, SequencesExt

CONSTANTS
    PageShift, MinShift,     \* MALLOC_PAGESHIFT, MALLOC_MINSHIFT (12, 4)
    Linear, Subbin,          \* of bin_of (6, 2)
    SizeBits,                \* width of size_t
    SmallMax, BigMax,        \* MAX_SMALLCACHEABLE_SIZE, MAX_BIGCACHEABLE_SIZE
    DefaultCache, MaxCache,  \* MALLOC_DEFAULT_CACHE, MALLOC_MAXCACHE
    InitialRegions,          \* MALLOC_INITIAL_REGIONS (512)
    EntrySize,               \* sizeof(struct region_info)
    ChunkLists,              \* MALLOC_CHUNK_LISTS (4)
    DelayMask,               \* MALLOC_DELAYED_CHUNK_MASK (15)
    CheckLength,             \* CHUNK_CHECK_LENGTH (32)
    MaxMutexes,              \* _MALLOC_MUTEXES
    Alignments,              \* alignments the programs ask for
    AnyPlace,                \* mmap returns any free run, or the lowest
    Programs,                \* programs and what they run with, see prog
    Linked(_, _)             \* the functions on the heap, by name and arguments

VARIABLES heap, live, job, mt, seen, calls,
          prog   \* [options: MALLOC_OPTIONS, a sequence of characters; mutexes: malloc_mutexes
                 \* before the options (8); pages: of address space; threads: ids, integers;
                 \* uses: the entry points; requests: sizes; calls: how many calls it makes;
                 \* live: the most blocks it owns at a time]
vars == <<heap, live, job, mt, seen, calls, prog>>

PageSize == 2^PageShift
MinSize == 2^MinShift
MaxChunk == PageSize \div 2
SIZE_MAX == 2^SizeBits - 1
Null == -1
B2SIZE(b) == b * MinSize
B2ALLOC(b) == IF b = 0 THEN MinSize ELSE b * MinSize
BUCKETS == MaxChunk \div MinSize
PAGEROUND(x) == ((x + PageSize - 1) \div PageSize) * PageSize
Pages(x) == PAGEROUND(x) \div PageSize
HowMany(x, y) == (x + y - 1) \div y
Bytes(a, n) == a..(a + n - 1)
Least(a, b) == IF a < b THEN a ELSE b

\* what a byte of memory holds, besides a block's mark
Zero == 0
SOME_FREEJUNK == -1
SOME_JUNK == -2
Canary == -3

-----------------------------------------------------------------------------
(* Options *)

omalloc_parseopt(o, c) ==
    CASE c = "+" -> [o EXCEPT !.mutexes = Least(2 * @, MaxMutexes)]
      [] c = "-" -> [o EXCEPT !.mutexes = IF @ \div 2 < 2 THEN 2 ELSE @ \div 2]
      [] c = ">" -> [o EXCEPT !.maxcache = Least(2 * @, MaxCache)]
      [] c = "<" -> [o EXCEPT !.maxcache = @ \div 2]
      [] c \in {"c", "C"} -> [o EXCEPT !.canaries = (c = "C")]
      [] c \in {"f", "F"} -> [o EXCEPT !.freecheck = (c = "F"), !.freeunmap = (c = "F")]
      [] c \in {"g", "G"} -> [o EXCEPT !.guard = IF c = "G" THEN PageSize ELSE 0]
      [] c = "j" -> [o EXCEPT !.junk = IF @ > 0 THEN @ - 1 ELSE @]
      [] c = "J" -> [o EXCEPT !.junk = IF @ < 2 THEN @ + 1 ELSE @]
      [] c \in {"r", "R"} -> [o EXCEPT !.realloc = (c = "R")]
      [] c \in {"u", "U"} -> [o EXCEPT !.freeunmap = (c = "U")]
      [] c \in {"x", "X"} -> [o EXCEPT !.xmalloc = (c = "X")]
      [] OTHER -> o

\* The system's options come first ("CG"), then MALLOC_OPTIONS; S and s are bundles.
omalloc_init(options, mutexes) ==
    LET many(o, cs) == FoldLeft(omalloc_parseopt, o, cs)
        one(o, c) ==
            CASE c = "S" -> [many(o, <<"C", "F", "G", "J">>) EXCEPT !.maxcache = 0]
              [] c = "s" -> [many(o, <<"c", "f", "g", "j">>) EXCEPT !.maxcache = DefaultCache]
              [] OTHER -> omalloc_parseopt(o, c)
    IN FoldLeft(one,
           [mutexes |-> mutexes, junk |-> 1, maxcache |-> DefaultCache,
            canaries |-> FALSE, freecheck |-> FALSE, freeunmap |-> FALSE,
            guard |-> 0, realloc |-> FALSE, xmalloc |-> FALSE],
           <<"C", "G">> \o options)

\* A pool before its first use.  Pool 0 keeps no cache and always junks.
omalloc_poolinit(d) ==
    [total |-> 0, r |-> <<>>, table |-> Null,
     dir |-> [b \in 0..BUCKETS |-> [l \in 0..(ChunkLists - 1) |-> <<>>]],
     delayed |-> {},
     cache |-> {}]
Junk(h, d) == IF d = 0 THEN 2 ELSE h.opts.junk
SmallLimit(h, d, n) == IF d = 0 THEN 0 ELSE h.opts.maxcache \div 2^((n - 1) \div 8)
BigSize(h, d) == IF d = 0 THEN 0 ELSE h.opts.maxcache

-----------------------------------------------------------------------------
(* The kernel's side: mappings and protections, page by page *)

PageSet(p, n) == p..(p + n - 1)
Fail(h, why) == IF h.err = "" THEN [h EXCEPT !.err = why] ELSE h
Outcome(h, p) == [h |-> h, p |-> p]

Store(h, S, v) ==
    IF \E a \in S : h.kern[a \div PageSize] # "rw"
    THEN Fail(h, "fault")
    ELSE [h EXCEPT !.mem = [a \in DOMAIN @ |-> IF a \in S THEN v ELSE @[a]]]

\* memmove(q, p, n)
Copy(h, q, p, n) ==
    IF \E a \in Bytes(p, n) \cup Bytes(q, n) : h.kern[a \div PageSize] # "rw"
    THEN Fail(h, "fault")
    ELSE [h EXCEPT !.mem = [a \in DOMAIN @ |->
             IF a \in Bytes(q, n) THEN @[p + a - q] ELSE @[a]]]

Protect(h, p, n, prot) ==
    [h EXCEPT !.kern = [q \in DOMAIN @ |-> IF q \in PageSet(p, n) THEN prot ELSE @[q]]]

munmap(h, p, n) ==
    [Protect(h, p, n, "free") EXCEPT !.mem =
        [a \in DOMAIN @ |-> IF a \div PageSize \in PageSet(p, n) THEN Zero ELSE @[a]]]

FreeRuns(h, n) ==
    {p \in DOMAIN h.kern \ {0} : \A q \in PageSet(p, n) : q \in DOMAIN h.kern /\ h.kern[q] = "free"}

Place(S) == IF AnyPlace THEN S ELSE {p \in S : \A q \in S : p <= q}

MMAP(h, n) ==
    IF FreeRuns(h, n) = {} THEN {Outcome(h, Null)}
    ELSE {Outcome(Protect(h, p, n, "rw"), p) : p \in Place(FreeRuns(h, n))}

-----------------------------------------------------------------------------
(* Junk in freed memory *)

\* The words of a freed block of sz bytes that are junked and looked at again
\* (a word is one byte here, junk_loc is 0).
JunkSpots(h, d, a, sz) ==
    LET n == IF Junk(h, d) = 1 THEN Least(sz, PageSize) ELSE sz
        step == IF Junk(h, d) = 1 /\ n >= 4 THEN n \div 4 ELSE 1
    IN IF Junk(h, d) = 0 THEN {} ELSE {b \in Bytes(a, n) : (b - a) % step = 0}

junk_free(h, d, a, sz) ==
    IF JunkSpots(h, d, a, sz) = {} THEN h ELSE Store(h, JunkSpots(h, d, a, sz), SOME_FREEJUNK)

validate_junk(h, d, a, sz) ==
    IF \E b \in JunkSpots(h, d, a, sz) : h.kern[b \div PageSize] # "rw" THEN Fail(h, "fault")
    ELSE IF \E b \in JunkSpots(h, d, a, sz) : h.mem[b] # SOME_FREEJUNK
    THEN Fail(h, "write to free mem") ELSE h

CanaryBytes(a, sz, allocated) == Bytes(a + sz, Least(allocated - sz, CheckLength))

fill_canary(h, a, sz, allocated) ==
    IF h.opts.canaries THEN Store(h, CanaryBytes(a, sz, allocated), Canary) ELSE h

validate_canary(h, a, sz, allocated) ==
    IF \A b \in CanaryBytes(a, sz, allocated) : h.mem[b] \in {Canary, SOME_JUNK}
    THEN h ELSE Fail(h, "canary corrupted")

-----------------------------------------------------------------------------
(* The caches of free page runs *)

Release(h, clear, p, n, d) ==
    LET a == p * PageSize
        cleared == IF clear > 0 THEN Store(h, Bytes(a, clear), Zero) ELSE h
    IN IF h.opts.freeunmap THEN Protect(cleared, p, n, "none")
       ELSE junk_free(cleared, d, a, n * PageSize)

Recheck(h, d, p, n, fresh) ==
    IF fresh \/ h.opts.freeunmap THEN h ELSE validate_junk(h, d, p * PageSize, n * PageSize)

InBigCache(h, d, n) == BigSize(h, d) > 0 /\ n > SmallMax /\ n <= BigMax

\* The big cache looks for an empty slot, or for a full one when it holds a lot, in a
\* quarter of its slots from a random one on, and takes the last one it looked at when
\* it finds none: any slot.  A slot is {} or the run it holds; {} is the outcome NULL.
Slots(runs, size) == {{e} : e \in runs} \cup (IF Cardinality(runs) < size THEN {{}} ELSE {})

unmap(h, d, p, n, clear) ==
    LET drop(g, S) == IF S = {} THEN g
                      ELSE LET e == CHOOSE x \in S : TRUE
                           IN munmap(Recheck(g, d, e.page, e.psize, e.fresh), e.page, e.psize)
        new == [page |-> p, psize |-> n, fresh |-> FALSE]
        small == {e \in h.pool[d].cache : e.psize = n}
        big == {e \in h.pool[d].cache : e.psize > SmallMax}
        put(S) == [Release(drop(h, S), clear, p, n, d) EXCEPT
                      !.pool[d].cache = (@ \ S) \cup {new}]
    IN IF InBigCache(h, d, n) THEN {put(S) : S \in Slots(big, BigSize(h, d))}
       ELSE IF n > SmallMax \/ SmallLimit(h, d, n) = 0 THEN {munmap(h, p, n)}
       ELSE IF Cardinality(small) < SmallLimit(h, d, n) THEN {put({})}
       ELSE {put({e}) : e \in small}

ReuseKeeps(h, d, e, zero) ==
    LET open == IF h.opts.freeunmap THEN Protect(h, e.page, e.psize, "rw") ELSE h
    IN Outcome(IF zero THEN Store(open, Bytes(e.page * PageSize, e.psize * PageSize), Zero) ELSE open, e.page)
\* A cached run handed out again.
Reuse(h, d, e, zero) ==
    LET checked == Recheck(h, d, e.page, e.psize, e.fresh)
        open == IF h.opts.freeunmap THEN Protect(checked, e.page, e.psize, "rw") ELSE checked
        a == e.page * PageSize
        n == e.psize * PageSize
    IN Outcome([(IF zero THEN Store(open, Bytes(a, n), Zero)
                 ELSE IF h.opts.freeunmap THEN junk_free(open, d, a, n)
                 ELSE open) EXCEPT !.pool[d].cache = @ \ {e}], e.page)

map(h, d, n, zero) ==
    LET fitting == {e \in h.pool[d].cache : e.psize = n}
        max == SmallLimit(h, d, n)
        fresh(p) == {[page |-> q, psize |-> 1, fresh |-> TRUE] : q \in PageSet(p, max - 1)}
        shut(o) == IF h.opts.freeunmap THEN Protect(o.h, o.p, max - 1, "none") ELSE o.h
    IN IF fitting # {} THEN {Reuse(h, d, e, zero) : e \in fitting}
       ELSE IF n = 1 /\ max > 0 /\ FreeRuns(h, max) # {}
       THEN {Outcome([shut(o) EXCEPT !.pool[d].cache = @ \cup fresh(o.p)], o.p + max - 1) :
                o \in MMAP(h, max)}   \* a batch: all but the last stay cached, fresh
       ELSE MMAP(h, n)

-----------------------------------------------------------------------------
(* The region table: open addressing, probed downwards *)

NoRegion == [p |-> Null]

\* The multiplications by 127 of hash, for page numbers below 2^16.
hash(p) == 127 * 127 * 127 * p

\* The slot that holds page p, or the empty slot its probing ends at.
Probe(r, total, p) ==
    LET at(k) == (hash(p) - k) % total
        ends(k) == r[at(k)].p \in {p, Null}
    IN at(CHOOSE k \in 0..(total - 1) : ends(k) /\ \A j \in 0..(k - 1) : ~ends(j))

Find(h, d, a) ==
    LET q == h.pool[d]
    IN IF q.total = 0 THEN NoRegion ELSE q.r[Probe(q.r, q.total, a \div PageSize)]

Slot(h, d, p) == Probe(h.pool[d].r, h.pool[d].total, p)

Regions(h, d) == {h.pool[d].r[i] : i \in DOMAIN h.pool[d].r} \ {NoRegion}

\* Doubles the table; the old table's pages go to the cache, cleared.
omalloc_grow(h, d) ==
    LET q == h.pool[d]
        newtotal == IF q.total = 0 THEN InitialRegions ELSE 2 * q.total
        add(t, e) == IF e = NoRegion THEN t ELSE [t EXCEPT ![Probe(t, newtotal, e.p)] = e]
        moved == FoldLeft(add, [i \in 0..(newtotal - 1) |-> NoRegion],
                          [i \in 1..q.total |-> q.r[i - 1]])
        old == Pages(q.total * EntrySize)
        freed(o) == IF q.total = 0 THEN {o.h}
                    ELSE unmap(o.h, d, q.table, old, old * PageSize)
    IN UNION {IF o.p = Null THEN {Outcome(h, Null)}
              ELSE {Outcome([g EXCEPT !.pool[d].total = newtotal, !.pool[d].table = o.p,
                                      !.pool[d].r = moved], o.p) : g \in freed(o)} :
              o \in MMAP(h, Pages(newtotal * EntrySize))}

\* The outcomes return Null when the table could not grow.
insert(h, d, e) ==
    LET q == h.pool[d]
        full == (q.total - Cardinality(Regions(h, d))) * 4 < q.total \/ q.total = 0
        put(g) == [g EXCEPT !.pool[d].r[Slot(g, d, e.p)] = e]
    IN IF ~full THEN {Outcome(put(h), e.p)}
       ELSE {IF o.p = Null THEN o ELSE Outcome(put(o.h), e.p) : o \in omalloc_grow(h, d)}

deleteOnly(h, d, p) == [h EXCEPT !.pool[d].r[Slot(h, d, p)] = NoRegion]
\* Knuth's algorithm R: an entry whose probing would pass the hole moves into it.
delete(h, d, p) ==
    LET total == h.pool[d].total
        stays(home, hole, i) == \/ i <= home /\ home < hole
                                \/ home < hole /\ hole < i
                                \/ hole < i /\ i <= home
        Close[t \in [0..(total - 1) -> Regions(h, d) \cup {NoRegion}],
              hole \in 0..(total - 1), i \in 0..(total - 1)] ==
            LET n == (i - 1) % total
                home == hash(t[n].p) % total
            IN IF t[n] = NoRegion THEN t
               ELSE IF stays(home, hole, n) THEN Close[t, hole, n]
               ELSE Close[[t EXCEPT ![hole] = t[n], ![n] = NoRegion], n, n]
        hole == Slot(h, d, p)
    IN [h EXCEPT !.pool[d].r = Close[[@ EXCEPT ![hole] = NoRegion], hole, hole]]

-----------------------------------------------------------------------------
(* Pages of chunks *)

Lb(x) == CHOOSE n \in 0..SizeBits : 2^n <= x /\ x < 2^(n + 1)

\* Sizes are rounded up to a quarter of their power of two.
bin_of(size) ==
    LET nbits == IF size >= 2^Linear THEN Lb(size) ELSE Linear
        step == 2^(nbits - Subbin)
    IN HowMany(size, step) * step

find_bucket(o, size) ==
    LET least == IF size < MinSize THEN MinSize ELSE size
    IN IF size = 0 THEN 0
       ELSE HowMany(IF o.maxcache # 0 THEN bin_of(least) ELSE least, MinSize)

PageRegion(p, size) == [p |-> p, bucket |-> Null, size |-> size]

\* A page of chunks: the free ones, and the size each one was asked for.
init_chunk_info(p, bucket) ==
    LET chunks == 0..(PageSize \div B2ALLOC(bucket) - 1)
    IN [p |-> p, bucket |-> bucket, size |-> B2SIZE(bucket),
        bits |-> chunks, requested |-> [k \in chunks |-> 0]]
IsChunks(r) == r.bucket # Null
Total(r) == PageSize \div B2ALLOC(r.bucket)

omalloc_make_chunks(h, d, bucket, listnum) ==
    LET shut(o) == IF bucket = 0 THEN Protect(o.h, o.p, 1, "none") ELSE o.h
        junked(g, p) == IF bucket > 0 /\ Junk(h, d) # 0
                        THEN Store(g, Bytes(p * PageSize, PageSize), SOME_FREEJUNK) ELSE g
        listed(g, p) == [g EXCEPT !.pool[d].dir[bucket][listnum] = <<p>> \o @]
        made(o) == UNION {IF i.p = Null
                          THEN {Outcome(g, Null) : g \in unmap(i.h, d, o.p, 1, 0)}
                          ELSE {Outcome(junked(listed(i.h, o.p), o.p), o.p)} :
                          i \in insert(shut(o), d, init_chunk_info(o.p, bucket))}
    IN UNION {IF o.p = Null THEN {o} ELSE made(o) : o \in map(h, d, 1, FALSE)}

\* The chunk taken: the first free one from a random chunk of the bitmap's word on,
\* else the first free one (the bitmap of a scaled page is one word).
FirstFree(bits, start) ==
    LET from == {k \in bits : k >= start}
        S == IF start > 0 /\ from # {} THEN from ELSE bits
    IN CHOOSE k \in S : \A j \in S : k <= j

TakeChunk(h, d, p, bucket, listnum, size, start) ==
    LET s == Slot(h, d, p)
        r == h.pool[d].r[s]
        k == FirstFree(r.bits, start)
        left == r.bits \ {k}
        a == p * PageSize + k * B2ALLOC(bucket)
        new == [r EXCEPT !.bits = left,
                         !.requested[k] = IF h.opts.canaries /\ size > 0 THEN size ELSE @]
        g == [h EXCEPT !.pool[d].r[s] = new,
                       !.pool[d].dir[bucket][listnum] = IF left = {} THEN Tail(@) ELSE @]
    IN Outcome(IF bucket = 0 THEN g
               ELSE fill_canary(validate_junk(g, d, a, B2SIZE(bucket)), a, size, B2SIZE(bucket)),
               a)

malloc_bytes(h, d, size) ==
    LET bucket == find_bucket(h.opts, size)
        pages(l) == IF h.pool[d].dir[bucket][l] # <<>>
                    THEN {Outcome(h, Head(h.pool[d].dir[bucket][l]))}
                    ELSE omalloc_make_chunks(h, d, bucket, l)
        starts == 0..(PageSize \div B2ALLOC(bucket) - 1)
    IN UNION {UNION {IF o.p = Null THEN {o}
                     ELSE {TakeChunk(o.h, d, o.p, bucket, l, size, s) : s \in starts} :
                     o \in pages(l)} : l \in 0..(ChunkLists - 1)}

ChunkNum(r, a) == (a % PageSize) \div B2ALLOC(r.bucket)

find_chunknum(h, r, a, check) ==
    LET k == ChunkNum(r, a)
    IN IF a % PageSize # k * B2ALLOC(r.bucket) THEN Fail(h, "modified chunk-pointer")
       ELSE IF k \in r.bits THEN Fail(h, "double free")
       ELSE IF check /\ r.bucket > 0
       THEN validate_canary(h, a, r.requested[k], B2SIZE(r.bucket)) ELSE h

\* A full page gets a place on a list again; an empty one is given back.
free_bytes(h, d, a) ==
    LET p == a \div PageSize
        s == Slot(h, d, p)
        r == h.pool[d].r[s]
        bits == r.bits \cup {ChunkNum(r, a)}
        g == [find_chunknum(h, r, a, FALSE) EXCEPT !.pool[d].r[s].bits = bits]
        unlisted == [g EXCEPT !.pool[d].dir[r.bucket] =
                        [l \in DOMAIN @ |-> SelectSeq(@[l], LAMBDA q : q # p)]]
        open == IF r.bucket = 0 /\ ~h.opts.freeunmap THEN Protect(unlisted, p, 1, "rw")
                ELSE unlisted
    IN IF Cardinality(bits) = 1
       THEN {[g EXCEPT !.pool[d].dir[r.bucket][l] = <<p>> \o @] : l \in 0..(ChunkLists - 1)}
       ELSE IF Cardinality(bits) # Total(r) THEN {g}
       ELSE {delete(u, d, p) : u \in unmap(open, d, p, 1, 0)}

-----------------------------------------------------------------------------
(* Allocation *)

Guard(h) == h.opts.guard
MoveCond(h, sz) == sz - Guard(h) < PageSize
Move(h, p, sz) == p * PageSize + ((PageSize - (sz - Guard(h))) \div MinSize) * MinSize
TooLarge(h, sz) == sz >= SIZE_MAX - Guard(h) - PageSize

\* The pages of a large block are in the table: protects the guard page and
\* fills what lies around the block.
Dress(h, d, p, sz, zero, moves) ==
    LET psz == PAGEROUND(sz)
        a == p * PageSize
        g == IF Guard(h) > 0 THEN Protect(h, p + psz \div PageSize - 1, 1, "none") ELSE h
        body == Bytes(a, psz - Guard(h))
        junked == IF Junk(h, d) = 2 THEN Store(g, body, SOME_JUNK) ELSE g
    IN IF moves
       THEN Outcome(IF zero /\ Junk(h, d) = 2
                    THEN Store(junked, Bytes(Move(h, p, sz), sz - Guard(h)), Zero) ELSE junked,
                    Move(h, p, sz))
       ELSE Outcome(IF Junk(h, d) # 2 THEN fill_canary(g, a, sz - Guard(h), psz - Guard(h))
                    ELSE IF zero THEN Store(g, Bytes(a + sz - Guard(h), psz - sz), SOME_JUNK)
                    ELSE junked, a)

\* Enters the run o in the table, or gives it back.
Register(o, d, sz, zero, moves) ==
    IF o.p = Null THEN {o}
    ELSE UNION {IF i.p = Null
                THEN {Outcome(g, Null) : g \in unmap(i.h, d, o.p, Pages(sz), 0)}
                ELSE {Dress(i.h, d, o.p, sz, zero, moves)} :
                i \in insert(o.h, d, PageRegion(o.p, sz))}

omalloc(h, d, size, zero) ==
    LET sz == size + Guard(h)
        cleared(o) == IF zero /\ o.p # Null /\ size > 0
                      THEN Outcome(Store(o.h, Bytes(o.p, size), Zero), o.p) ELSE o
    IN IF size <= MaxChunk THEN {cleared(o) : o \in malloc_bytes(h, d, size)}
       ELSE IF TooLarge(h, size) THEN {Outcome(h, Null)}
       ELSE UNION {Register(o, d, sz, zero, MoveCond(h, sz)) : o \in map(h, d, Pages(sz), zero)}

mapalign(h, d, alignment, n, zero) ==
    LET al == alignment \div PageSize
        base(p) == HowMany(p, al) * al
        cut(o) == munmap(munmap(o.h, o.p, base(o.p) - o.p),
                         base(o.p) + n, al - (base(o.p) - o.p))
    IN IF alignment > SIZE_MAX - n * PageSize THEN {Outcome(h, Null)}
       ELSE {IF o.p = Null THEN o ELSE Outcome(cut(o), base(o.p)) : o \in map(h, d, n + al, zero)}

omemalign(h, d, alignment, size, zero) ==
    LET whole == IF size > MaxChunk /\ size < PageSize THEN PageSize ELSE size
        least == IF whole < alignment THEN alignment ELSE whole
        pof2 == IF least >= PageSize THEN least
                ELSE 2^(CHOOSE n \in MinShift..PageShift :
                          2^n >= least /\ (n = MinShift \/ 2^(n - 1) < least))
        sz == (IF whole < PageSize THEN PageSize ELSE whole) + Guard(h)
    IN IF alignment <= PageSize THEN omalloc(h, d, pof2, zero)
       ELSE IF TooLarge(h, whole) THEN {Outcome(h, Null)}
       ELSE UNION {Register(o, d, sz, zero, FALSE) : o \in mapalign(h, d, alignment, Pages(sz), zero)}

-----------------------------------------------------------------------------
(* Freeing *)

\* The size freezero was given is checked against the recorded one.
CheckSize(h, r, a, argsz) ==
    LET recorded == IF ~IsChunks(r) THEN r.size - Guard(h)
                    ELSE IF h.opts.canaries /\ r.size > 0 THEN r.requested[ChunkNum(r, a)]
                    ELSE r.size
    IN IF recorded < argsz THEN Fail(h, "recorded size") ELSE h

FreePages(h, d, r, a, clear) ==
    LET ok == IF ~MoveCond(h, r.size)
              THEN IF a # r.p * PageSize THEN Fail(h, "bogus pointer")
                   ELSE IF h.opts.canaries
                   THEN validate_canary(h, a, r.size - Guard(h), PAGEROUND(r.size - Guard(h))) ELSE h
              ELSE IF a # Move(h, r.p, r.size) THEN Fail(h, "bogus moved pointer") ELSE h
        open == IF Guard(h) > 0 /\ ~h.opts.freeunmap
                THEN Protect(ok, r.p + Pages(r.size) - 1, 1, "rw") ELSE ok
    IN {delete(u, d, r.p) : u \in unmap(open, d, r.p, Pages(r.size), clear)}

\* A chunk waits in a random slot; the chunk it replaces there is freed.
FreeChunk(h, d, r, a, clear) ==
    LET size(g, b) == Find(g, d, b).size
        check(g, b) == IF b = a THEN Fail(g, "double free")
                       ELSE IF Find(g, d, b) = NoRegion THEN Fail(g, "bogus pointer")
                       ELSE validate_junk(g, d, b, size(g, b))
        valid == find_chunknum(h, r, a, h.opts.canaries)
        checked == IF h.opts.freecheck
                   THEN FoldSet(LAMBDA b, g : check(g, b), valid, h.pool[d].delayed) ELSE valid
        cleared == IF clear > 0 THEN Store(checked, Bytes(a, clear), Zero) ELSE checked
        g == junk_free(cleared, d, a, r.size)
        swap(S) == LET held == [g EXCEPT !.pool[d].delayed = (@ \ S) \cup {a}]
                       old == CHOOSE b \in S : TRUE
                   IN IF S = {} THEN {held}
                      ELSE IF old = a THEN {Fail(g, "double free")}
                      ELSE IF Find(held, d, old) = NoRegion THEN {Fail(g, "bogus pointer")}
                      ELSE free_bytes(IF h.opts.freecheck THEN held
                                      ELSE validate_junk(held, d, old, size(held, old)), d, old)
    IN UNION {swap(S) : S \in Slots(g.pool[d].delayed, DelayMask + 1)}

\* clear is the number of bytes to zero, check says they are checked as well
ofree(h, d, a, clear, check) ==
    LET r == Find(h, d, a)
        g == IF check THEN CheckSize(h, r, a, clear) ELSE h
    IN IF IsChunks(r) THEN FreeChunk(g, d, r, a, clear) ELSE FreePages(g, d, r, a, clear)

-----------------------------------------------------------------------------
(* Reallocation *)

SetSize(h, d, r, size) == [h EXCEPT !.pool[d].r[Slot(h, d, r.p)].size = size]

\* A run of pages that becomes one of another size in place; {} when it cannot.
ResizePages(h, d, r, a, oldsz, newsz) ==
    LET gnew == newsz + Guard(h)
        rold == PAGEROUND(r.size)
        rnew == PAGEROUND(gnew)
        start == r.p * PageSize
        sized == SetSize(h, d, r, gnew)
        to == IF MoveCond(h, gnew) THEN Move(h, r.p, gnew) ELSE start
        more == (rnew - rold) \div PageSize
        hint == r.p + rold \div PageSize
        canary(g) == fill_canary(g, start, newsz, PAGEROUND(newsz))
        shrunk == LET g == IF Guard(h) > 0
                           THEN Protect(sized, r.p + rnew \div PageSize - 1, 1, "none")
                           ELSE sized
                  IN munmap(g, r.p + rnew \div PageSize, (rold - rnew) \div PageSize)
        grown == LET g == Protect(sized, hint, more, "rw")
                     j == IF Junk(h, d) = 2
                          THEN Store(g, Bytes(hint * PageSize, rnew - rold), SOME_JUNK) ELSE g
                 IN canary(IF start # a THEN Copy(j, start, a, oldsz) ELSE j)
        same == LET g == IF to # a THEN Copy(sized, to, a, Least(oldsz, newsz)) ELSE sized
                    j == IF newsz > oldsz /\ Junk(h, d) = 2
                         THEN Store(g, Bytes(start + newsz, rnew - Guard(h) - newsz), SOME_JUNK)
                         ELSE g
                IN IF to = start THEN canary(j) ELSE g
    IN CASE /\ rnew < rold /\ rnew > rold \div 2 /\ Guard(h) = 0
            /\ rold - rnew < h.opts.maxcache * PageSize -> {Outcome(h, a)}
         [] rnew > rold -> IF Guard(h) = 0 /\ \A q \in PageSet(hint, more) : q \in DOMAIN h.kern /\ h.kern[q] = "free"
                           THEN {Outcome(grown, start)} ELSE {}
         [] rnew = rold -> {Outcome(same, to)}
         [] OTHER -> {Outcome(IF MoveCond(h, gnew) THEN Copy(shrunk, to, a, newsz)
                              ELSE canary(shrunk), to)}

orealloc(h, d, a, newsz) ==
    LET r == Find(h, d, a)
        oldsz == IF IsChunks(r) THEN r.size ELSE r.size - Guard(h)
        inplace == IF newsz > MaxChunk /\ oldsz > MaxChunk /\ ~h.opts.realloc
                   THEN ResizePages(h, d, r, a, oldsz, newsz) ELSE {}
        fits == /\ IsChunks(r) /\ oldsz > 0 /\ newsz <= MaxChunk /\ newsz > 0
                /\ ~h.opts.realloc /\ find_bucket(h.opts, newsz) = find_bucket(h.opts, oldsz)
        kept == LET s == Slot(h, d, r.p)
                    g == IF Junk(h, d) = 2
                         THEN Store(h, Bytes(a + newsz, oldsz - newsz), SOME_JUNK) ELSE h
                    n == IF h.opts.canaries
                         THEN [g EXCEPT !.pool[d].r[s].requested[ChunkNum(r, a)] = newsz] ELSE g
                IN fill_canary(n, a, newsz, r.size)
        moved(o) == IF newsz # 0 /\ oldsz # 0 THEN Copy(o.h, o.p, a, Least(oldsz, newsz)) ELSE o.h
    IN IF TooLarge(h, newsz) THEN {Outcome(h, Null)}
       ELSE IF inplace # {} THEN inplace
       ELSE IF fits THEN {Outcome(kept, a)}
       ELSE IF newsz # oldsz \/ h.opts.realloc
       THEN UNION {IF o.p = Null THEN {o}
                   ELSE {Outcome(g, o.p) : g \in ofree(moved(o), d, a, 0, FALSE)} :
                   o \in omalloc(h, d, newsz, FALSE)}
       ELSE {Outcome(IF newsz # 0 THEN Fail(h, "realloc internal inconsistency") ELSE h, a)}

orecallocarray(h, d, a, oldsize, newsize) ==
    LET r == Find(h, d, a)
        wrong == IF IsChunks(r)
                 THEN IF h.opts.canaries /\ r.size > 0
                      THEN r.requested[ChunkNum(r, a)] # oldsize ELSE r.size < oldsize
                 ELSE r.size - Guard(h) < oldsize \/ oldsize < (r.size - Guard(h)) \div 2
        filled(o) == LET g == Copy(o.h, o.p, a, Least(oldsize, newsize))
                     IN IF newsize > oldsize
                        THEN Store(g, Bytes(o.p + oldsize, newsize - oldsize), Zero) ELSE g
    IN IF oldsize = newsize THEN {Outcome(h, a)}
       ELSE IF wrong THEN {Outcome(Fail(h, "recorded size"), a)}
       ELSE UNION {IF o.p = Null THEN {o}
                   ELSE {Outcome(g, o.p) : g \in ofree(filled(o), d, a, oldsize, FALSE)} :
                   o \in omalloc(h, d, newsize, FALSE)}

MulOverflowsBoth(nmemb, size) ==
    LET half == 2^(SizeBits \div 2)
    IN nmemb >= half /\ size >= half /\ SIZE_MAX \div nmemb < size
\* The test of calloc and recallocarray before they multiply.
MulOverflows(nmemb, size) ==
    LET half == 2^(SizeBits \div 2)
    IN (nmemb >= half \/ size >= half) /\ nmemb > 0 /\ SIZE_MAX \div nmemb < size

-----------------------------------------------------------------------------
(* The calls of a program's threads *)

getpool(t) == IF mt THEN 1 + (t % (heap.opts.mutexes - 1)) ELSE 1
nmutexes == IF mt THEN heap.opts.mutexes ELSE 2

NoJob == [op |-> "none"]

Init ==
    /\ prog \in Programs
    /\ LET opts == omalloc_init(prog.options, prog.mutexes)
       IN heap = [kern |-> [p \in 0..(prog.pages - 1) |-> "free"],
                  mem |-> [a \in 0..(prog.pages * PageSize - 1) |-> Zero], opts |-> opts,
                  pool |-> [d \in 0..(opts.mutexes - 1) |-> omalloc_poolinit(d)], err |-> ""]
    /\ live = {}
    /\ job = [t \in prog.threads |-> NoJob]
    /\ mt = FALSE
    /\ seen = "as promised"
    /\ calls = 0

Mark(a) == a + 1

\* The call returns block o.p of sz bytes in place of the blocks of gone: the
\* program looks at what it was promised and fills the block with its mark.
Deliver(o, sz, how, gone, promised) ==
    LET a == o.p
        right == \A i \in 0..(sz - 1) : promised[i] \in {Null, o.h.mem[a + i]}
    IN IF a = Null
       THEN heap' = (IF heap.opts.xmalloc THEN Fail(o.h, "out of memory") ELSE o.h)
            /\ UNCHANGED <<live, seen>>
       ELSE /\ heap' = Store(o.h, Bytes(a, sz), Mark(a))
            /\ live' = (live \ gone) \cup {[a |-> a, sz |-> sz, how |-> how]}
            /\ seen' = IF right THEN seen ELSE "lost"

Anything(sz) == [i \in 0..(sz - 1) |-> Null]
Zeros(sz) == [i \in 0..(sz - 1) |-> Zero]

\* A thread may make a call; until there are threads there is only the first.
Enter(t, call) ==
    /\ call \in prog.uses /\ calls < prog.calls
    /\ job[t] = NoJob /\ heap.err = "" /\ (mt \/ \A u \in prog.threads : t <= u)
    /\ calls' = calls + 1
Room == Cardinality(live) + Cardinality({t \in prog.threads : job[t] # NoJob}) < prog.live

malloc(t) ==
    /\ Enter(t, "malloc") /\ Room
    /\ \E sz \in prog.requests : \E o \in Linked("omalloc", <<heap, getpool(t), sz, FALSE>>) :
         Deliver(o, sz, "sized", {}, Anything(sz))
    /\ UNCHANGED <<job, mt, prog>>

\* The product is taken modulo the width of size_t.
calloc(t) ==
    /\ Enter(t, "calloc") /\ Room
    /\ \E n \in {1, 2, 2^(SizeBits \div 2)}, size \in prog.requests :
         IF MulOverflows(n, size)
         THEN Deliver(Outcome(heap, Null), 0, "sized", {}, Zeros(0))
         ELSE LET sz == (n * size) % 2^SizeBits
              IN \E o \in Linked("omalloc", <<heap, getpool(t), sz, TRUE>>) : Deliver(o, n * size, "sized", {}, Zeros(n * size))
    /\ UNCHANGED <<job, mt, prog>>

\* posix_memalign and aligned_alloc
aligned_alloc(t) ==
    /\ Enter(t, "aligned_alloc") /\ Room
    /\ \E al \in Alignments, sz \in prog.requests :
         \E o \in Linked("omemalign", <<heap, getpool(t), al, sz, FALSE>>) :
           IF o.p # Null /\ o.p % al # 0
           THEN seen' = "not aligned" /\ UNCHANGED <<heap, live>>
           ELSE Deliver(o, sz, "aligned", {}, Anything(sz))
    /\ UNCHANGED <<job, mt, prog>>

\* What the found region's pool does for a call on block j.b.
Perform(d, j) ==
    LET b == j.b
        kept == [i \in 0..(j.new - 1) |-> IF i < b.sz THEN Mark(b.a) ELSE Null]
        zeroed == [i \in 0..(j.new - 1) |-> IF i < b.sz THEN Mark(b.a) ELSE Zero]
    IN CASE j.op = "free" -> \E g \in Linked("ofree", <<heap, d, b.a, 0, FALSE>>) :
                heap' = g /\ live' = live \ {b} /\ UNCHANGED seen
         [] j.op = "freezero" -> \E g \in Linked("ofree", <<heap, d, b.a, b.sz, TRUE>>) :
                heap' = g /\ live' = live \ {b} /\ UNCHANGED seen
         [] j.op = "realloc" -> \E o \in Linked("orealloc", <<heap, d, b.a, j.new>>) :
                Deliver(o, j.new, "sized", {b}, kept)
         [] j.op = "recallocarray" -> \E o \in Linked("orecallocarray", <<heap, d, b.a, b.sz, j.new>>) :
                Deliver(o, j.new, "sized", {b}, zeroed)

\* One pool of findpool's search, under that pool's lock; no lock is held between
\* two of them.
findpool(t, j) ==
    LET d == (getpool(t) + j.i) % nmutexes
    IN IF Find(heap, d, j.b.a) # NoRegion
       THEN Perform(d, j) /\ job' = [job EXCEPT ![t] = NoJob]
       ELSE IF j.i + 1 < nmutexes
       THEN job' = [job EXCEPT ![t] = [j EXCEPT !.i = @ + 1]] /\ UNCHANGED <<heap, live, seen>>
       ELSE heap' = Fail(heap, "bogus pointer") /\ UNCHANGED <<live, job, seen>>

Idle(b) == ~\E u \in prog.threads : job[u] # NoJob /\ job[u].b = b

Begin(t, op, hows, news) ==
    /\ Enter(t, op)
    /\ \E b \in live, new \in news :
         b.how \in hows /\ Idle(b) /\ findpool(t, [op |-> op, b |-> b, new |-> new, i |-> 0])
    /\ UNCHANGED <<mt, prog>>

free(t) == Begin(t, "free", {"sized", "aligned"}, {0})
freezero(t) == Begin(t, "freezero", {"sized", "aligned"}, {0})
realloc(t) == Begin(t, "realloc", {"sized", "aligned"}, prog.requests)

\* Only for a block whose recorded size is the one asked for: aligned_alloc records
\* the size it rounded to, which recallocarray then refuses.
recallocarray(t) == Begin(t, "recallocarray", {"sized"}, prog.requests)

Search(t) ==
    /\ job[t] # NoJob /\ heap.err = ""
    /\ findpool(t, job[t])
    /\ UNCHANGED <<mt, calls, prog>>

\* _malloc_init(1), before the program's second thread starts: every pool is used.
_malloc_init ==
    /\ ~mt /\ Cardinality(prog.threads) > 1 /\ \A t \in prog.threads : job[t] = NoJob
    /\ mt' = TRUE
    /\ UNCHANGED <<heap, live, job, seen, calls, prog>>

Next ==
    \/ \E t \in prog.threads : malloc(t) \/ calloc(t) \/ aligned_alloc(t) \/ free(t)
                          \/ freezero(t) \/ realloc(t) \/ recallocarray(t) \/ Search(t)
    \/ _malloc_init

Spec == Init /\ [][Next]_vars

-----------------------------------------------------------------------------

PagesOf(h, r) == PageSet(r.p, IF IsChunks(r) THEN 1 ELSE Pages(r.size))
Cached(h, d) ==
    {PageSet(e.page, e.psize) : e \in h.pool[d].cache}
TablePages(h, d) == IF h.pool[d].total = 0 THEN {}
                    ELSE {PageSet(h.pool[d].table, Pages(h.pool[d].total * EntrySize))}

\* The owners of pages: regions, cached runs and tables, of every pool.
Owners(h) == UNION {{PagesOf(h, r) : r \in Regions(h, d)} \cup Cached(h, d)
                    \cup TablePages(h, d) : d \in DOMAIN h.pool}
Count(h) == FoldSet(LAMBDA d, n : n + Cardinality(Regions(h, d)) + Cardinality(TablePages(h, d))
                                  + Cardinality(Cached(h, d)), 0, DOMAIN h.pool)

\* Live blocks do not overlap and keep what the program wrote in them, whatever
\* the allocator junks, clears, protects or moves.
BlocksApart ==
    \A b \in live :
        /\ \A c \in live \ {b} :
             b.a # c.a /\ Bytes(b.a, b.sz) \cap Bytes(c.a, c.sz) = {}
        /\ \A a \in Bytes(b.a, b.sz) :
             heap.kern[a \div PageSize] = "rw" /\ heap.mem[a] = Mark(b.a)
        /\ b.a % MinSize = 0

\* Every mapped page has exactly one owner, so that nothing is leaked or used twice,
\* and the table finds every region (delete leaves no broken probe sequence).
PagesAccounted ==
    /\ UNION Owners(heap) = {p \in DOMAIN heap.kern : heap.kern[p] # "free"}
    /\ Cardinality(Owners(heap)) = Count(heap)
    /\ \A P \in Owners(heap), Q \in Owners(heap) : P = Q \/ P \cap Q = {}
    /\ \A d \in DOMAIN heap.pool : \A r \in Regions(heap, d) : Find(heap, d, r.p * PageSize) = r

\* A chunk page is on exactly one list while it has a free chunk; a delayed chunk is
\* still taken, and a chunk of a live block is never delayed.
ChunksAccounted ==
    \A d \in DOMAIN heap.pool : LET q == heap.pool[d] IN
        /\ \A r \in Regions(heap, d) : IsChunks(r) =>
             Cardinality({<<l, i>> \in (0..(ChunkLists - 1)) \X DOMAIN heap.kern :
                 i \in DOMAIN q.dir[r.bucket][l] /\ q.dir[r.bucket][l][i] = r.p})
             = (IF r.bits = {} THEN 0 ELSE 1)
        /\ \A a \in q.delayed :
             /\ \A b \in live : b.a # a
             /\ LET r == Find(heap, d, a)
                IN r # NoRegion /\ IsChunks(r) /\ ChunkNum(r, a) \notin r.bits

\* A program that only frees what it owns never meets one of the allocator's
\* consistency errors, nor a fault inside the allocator.
NoFalseAlarm == heap.err = ""

\* calloc's memory is zero, realloc and recallocarray keep the common part, alignments
\* are kept.
ReturnsAsPromised == seen = "as promised"
=============================================================================
