------------------------------- MODULE MCHeap -------------------------------
(***************************************************************************)
(* Memory and who owns it: the allocator with programs and option strings  *)
(* of several kinds; thread-specific data; the environment; and the        *)
(* streams on memory.  setup says which one a behaviour follows; the       *)
(* variables of the others keep their initial values or are Unused.        *)
(***************************************************************************)
EXTENDS Keys

CONSTANT Linked(_, _)

VARIABLES setup,
          heap, live, job, mt, seen, calls, prog,   \* the allocator
          env, orphans,                          \* the environment
          want,                                  \* of the environment and of the streams
          how, c, f, ret                         \* streams on memory

Unused == 0

-----------------------------------------------------------------------------
(* The allocator *)

PageShift == 3
MinShift == 1
Linear == 3
Subbin == 2
SizeBits == 6
SmallMax == 1
BigMax == 3
DefaultCache == 4
MaxCache == 4
InitialRegions == 8
EntrySize == 1
ChunkLists == 1
DelayMask == 0
CheckLength == 2
MaxMutexes == 4
Alignments == {4, 16}
AnyPlace == FALSE

Usual == {"malloc", "free", "realloc"}
Alone(options, requests, uses, n) ==
    [options |-> options, mutexes |-> 2, pages |-> 10, threads |-> {1},
     requests |-> requests, uses |-> uses, calls |-> n, live |-> 2]
\* the system's options: guard pages, canaries, some junk
Plain == Alone(<<>>, {0, 3, 5}, Usual, 5)
\* every check on, no cache, freed pages protected
Strict == Alone(<<"S">>, {0, 3, 9}, Usual, 5)
\* no guard pages, so that blocks are resized in place
Guardless == Alone(<<"g">>, {3, 5, 9, 17}, Usual, 5)
\* full junk, the other entry points, sizes and products that overflow
Zeroing == Alone(<<"J">>, {0, 9, 34, 60}, {"calloc", "freezero", "recallocarray", "aligned_alloc"}, 4)
\* two threads with a pool each, found by the other one's free
Shared == [Alone(<<"<", "<">>, {3, 8}, {"malloc", "free"}, 6) EXCEPT !.mutexes = 4, !.pages = 8, !.threads = {1, 2}]
\* enough regions that the table grows and entries collide
Crowded == [Alone(<<"g", "<", "<", "<">>, {8}, {"malloc", "free"}, 16) EXCEPT !.pages = 14, !.live = 8]
Programs == {Plain, Strict, Guardless, Zeroing, Shared, Crowded}

Mal == INSTANCE Malloc
Real == INSTANCE Malloc WITH PageShift <- 12, MinShift <- 4, Linear <- 6, SizeBits <- 16

\* The functions behind the constant Linked: a program calls them through it, so that TLC
\* does not unfold them at every place of a call.
Linkage(name, a) ==
    LET value == CASE name = "omalloc" -> Mal!omalloc(a[1], a[2], a[3], a[4])
                   [] name = "omemalign" -> Mal!omemalign(a[1], a[2], a[3], a[4], a[5])
                   [] name = "ofree" -> Mal!ofree(a[1], a[2], a[3], a[4], a[5])
                   [] name = "orealloc" -> Mal!orealloc(a[1], a[2], a[3], a[4])
                   [] name = "orecallocarray" -> Mal!orecallocarray(a[1], a[2], a[3], a[4], a[5])
    IN value

\* With the code's own constants every chunk size fits its bucket with less than a
\* quarter lost, buckets are within their bound, and a bucket's size is in that bucket.
ASSUME BucketsFit ==
    \A size \in 1..Real!MaxChunk :
        LET b == Real!find_bucket([maxcache |-> DefaultCache], size) IN
        /\ size <= Real!B2SIZE(b) /\ b <= Real!BUCKETS
        /\ 4 * (Real!B2SIZE(b) - size) < size \/ Real!B2SIZE(b) - size < Real!MinSize
        /\ Real!find_bucket([maxcache |-> DefaultCache], Real!B2SIZE(b)) = b

-----------------------------------------------------------------------------
(* The environment and the streams on memory *)

Env == INSTANCE Environ WITH Names <- {"A", "B", "C"}, Values <- {"1"}, Chunk <- 2, MaxStrings <- 4,
          Arrays <- {<<>>, <<[name |-> "A", value |-> "1"], [name |-> "B", value |-> "1"], [name |-> "A", value |-> "2"]>>}

fmem(mode, plus, bufsize, array) == [kind |-> "fmem", mode |-> mode, plus |-> plus, bufsize |-> bufsize, array |-> array]
Mem == INSTANCE MemStream WITH Bytes <- {"a", "0"}, NUL <- "0", SizeLimit <- 6, MaxSize <- 4,
          Opens <- {fmem(m, p, b, a) : m \in {"r", "w", "a"}, p \in BOOLEAN, b \in {0, 2}, a \in {<<"a", "0", "b">>, <<"b">>}}
                   \cup {[kind |-> "ms", mode |-> "w", plus |-> FALSE, bufsize |-> b, array |-> <<>>] : b \in {0, 2}}

-----------------------------------------------------------------------------

allocator == <<heap, live, job, mt, seen, calls, prog>>
environ == <<env, orphans>>
streams == <<how, c, f, ret>>
NoAllocator == heap = Unused /\ live = Unused /\ job = Unused /\ mt = Unused /\ seen = Unused /\ calls = Unused /\ prog = Unused
NoEnviron == env = Unused /\ orphans = Unused
NoStream == how = Unused /\ c = Unused /\ f = Unused /\ ret = Unused

MemoryInit ==
    /\ Init
    /\ \/ setup = "malloc" /\ Mal!Init /\ NoEnviron /\ NoStream /\ want = Unused
       \/ setup = "keys" /\ NoAllocator /\ NoEnviron /\ NoStream /\ want = Unused
       \/ setup = "environ" /\ Env!Init /\ NoAllocator /\ NoStream
       \/ setup = "streams" /\ Mem!Init /\ NoAllocator /\ NoEnviron

MemoryNext ==
    /\ UNCHANGED setup
    /\ \/ setup = "malloc" /\ Mal!Next /\ UNCHANGED <<vars, environ, want, streams>>
       \/ setup = "keys" /\ Next /\ UNCHANGED <<allocator, environ, want, streams>>
       \/ setup = "environ" /\ Env!Next /\ UNCHANGED <<vars, allocator, streams>>
       \/ setup = "streams" /\ Mem!Next /\ UNCHANGED <<vars, allocator, environ>>

MemorySpec == MemoryInit /\ [][MemoryNext]_<<setup, vars, allocator, environ, want, streams>>
-----------------------------------------------------------------------------
\* Live blocks stay apart and keep what was written in them, whatever the options.
BlocksApart == setup = "malloc" => Mal!BlocksApart

\* Every mapped page has one owner and the region table finds every region; a chunk
\* page is listed while it has a free chunk, and delayed chunks stay taken.
PagesAccounted == setup = "malloc" => Mal!PagesAccounted /\ Mal!ChunksAccounted

\* calloc's zeroes, realloc's common part and the alignments are what the caller gets,
\* and a correct program never meets an internal error or a fault.
ServesCorrectPrograms == setup = "malloc" => Mal!NoFalseAlarm /\ Mal!ReturnsAsPromised

\* setenv, putenv, unsetenv and clearenv leave the environment the calls made, and free
\* the library's own strings exactly when they leave it.
EnvironTrue == setup = "environ" => Env!EnvironTrue

\* The bytes of a stream on memory are those written, one by one, whatever was gathered
\* in between; the position and the length the caller sees are true.
MemoryStreamsTrue == setup = "streams" => Mem!MemoryStreamsTrue
=============================================================================
