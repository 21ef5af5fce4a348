-------------------------------- MODULE Paths --------------------------------
(***************************************************************************)
(* realpath.c, ftw.c and dirent.c: resolving names, walking trees and      *)
(* reading directories.  A file system is a function from the names that   *)
(* lead to a file, from the root and through no link, to what is there.  A *)
(* path is its components, with whether it starts and whether it ends with *)
(* a slash; a name has one letter.                                         *)
(***************************************************************************)
EXTENDS Integers, Sequences, FiniteSets, SequencesExt

CONSTANTS
    Systems,       \* [tree |-> [names -> [type, to, dev, mode]], cwd |-> names, order |-> names of entries]
    Resolved,      \* paths given to realpath: [abs, comps, slash]
    Walked,        \* calls of nftw: [path, flags, stop, nomem, fds], see walk
    PATH_MAX, MAXLINKS,
    SeenChunk,     \* directories the first array of those seen holds (32)
    Scanned(_),    \* calls of scandir in a file system: [op, at, sel, noisy, mem, fails], see scandir
    Listed(_),     \* directories of a file system that are read as streams
    Rank,          \* what alphasort compares: the place of a name among all
    GetdentsMax,   \* entries the buffer of a stream holds
    ScanChunk      \* entries the first list of scandir holds (32)

VARIABLES fs, call, res
vars == <<fs, call, res>>

Root == <<>>
Exists(at) == at \in DOMAIN fs.tree
IsDir(at) == Exists(at) /\ fs.tree[at].type = "dir"
IsLink(at) == Exists(at) /\ fs.tree[at].type = "link"
May(m, at) == m \in fs.tree[at].mode
Parent(at) == IF at = Root THEN Root ELSE Front(at)
Letters(comps) == FoldLeft(LAMBDA n, x : n + (IF x = ".." THEN 2 ELSE 1), 0, comps)
strlen(p) == Letters(p.comps) + (IF p.comps = <<>> THEN 0 ELSE Len(p.comps) - 1) + (IF p.abs THEN 1 ELSE 0)
             + (IF p.slash /\ p.comps # <<>> THEN 1 ELSE 0)
Found(at) == [ok |-> TRUE, err |-> "", at |-> at]
Error(e) == [ok |-> FALSE, err |-> e, at |-> Root]

\* The kernel's lookup of comps from at: n is how many links it still follows, last
\* whether the last component is followed too.
RECURSIVE namei(_, _, _, _)
namei(at, comps, n, last) ==
    LET next == Append(at, Head(comps))
        to == fs.tree[next].to
        t == namei(IF to.abs THEN Root ELSE at, to.comps, n - 1, TRUE)
    IN IF comps = <<>> THEN [ok |-> TRUE, err |-> "", at |-> at, n |-> n]
       ELSE IF ~IsDir(at) THEN Error("ENOTDIR")
       ELSE IF ~May("x", at) THEN Error("EACCES")
       ELSE IF Head(comps) = "." THEN namei(at, Tail(comps), n, last)
       ELSE IF Head(comps) = ".." THEN namei(Parent(at), Tail(comps), n, last)
       ELSE IF ~Exists(next) THEN Error("ENOENT")
       ELSE IF ~IsLink(next) \/ (~last /\ Len(comps) = 1) THEN namei(next, Tail(comps), n, last)
       ELSE IF n = 0 THEN Error("ELOOP")
       ELSE IF ~t.ok THEN t
       ELSE IF to.slash /\ ~IsDir(t.at) THEN Error("ENOTDIR")
       ELSE namei(t.at, Tail(comps), t.n, last)
Readable(t) == IF t.ok /\ fs.tree[t.at].type = "broken" THEN Error("EIO") ELSE t
Looked(cwd, p, last) == IF p.comps = <<>> /\ ~p.abs THEN Error("ENOENT")
                        ELSE Readable(namei(IF p.abs THEN Root ELSE cwd, p.comps, MAXLINKS, last))
stat(cwd, p) == Looked(cwd, p, TRUE)
lstat(cwd, p) == Looked(cwd, p, FALSE)

-----------------------------------------------------------------------------
(* realpath: out is the resolved prefix, rest the components left and slash *)
(* whether a slash ends them.                                               *)

readlink(out) == lstat(Root, [abs |-> TRUE, comps |-> out, slash |-> FALSE])
OutLen(out) == IF out = Root THEN 1 ELSE 2 * Len(out)
RECURSIVE resolve(_, _, _, _)
\* Mutant: the target of a relative link is looked up below the link.
resolveBelow(out, rest, slash, links) ==
    LET next == Append(out, Head(rest))
        to == fs.tree[next].to
        found == readlink(next)
    IN IF rest = <<>> THEN Found(out)
       ELSE IF Head(rest) \in {".", ".."} THEN resolve(IF Head(rest) = "." THEN out ELSE Parent(out), Tail(rest), slash, links)
       ELSE IF ~found.ok THEN Error(found.err)
       ELSE IF ~IsLink(next) THEN resolve(next, Tail(rest), slash, links)
       ELSE IF links = MAXLINKS THEN Error("ELOOP")
       ELSE resolve(IF to.abs THEN Root ELSE next, to.comps \o Tail(rest), slash, links + 1)
resolve(out, rest, slash, links) ==
    LET next == Append(out, Head(rest))
        to == fs.tree[next].to
        tail == Letters(Tail(rest)) + Len(Tail(rest)) + (IF slash THEN 1 ELSE 0)
        found == readlink(next)
    IN IF rest = <<>> THEN Found(out)
       ELSE IF Head(rest) = "." THEN resolve(out, Tail(rest), slash, links)
       ELSE IF Head(rest) = ".." THEN resolve(Parent(out), Tail(rest), slash, links)
       ELSE IF OutLen(next) >= PATH_MAX THEN Error("ENAMETOOLONG")
       ELSE IF ~found.ok THEN Error(found.err)
       ELSE IF ~IsLink(next) THEN resolve(next, Tail(rest), slash, links)
       ELSE IF links = MAXLINKS THEN Error("ELOOP")
       ELSE IF strlen(to) + tail + 1 > PATH_MAX THEN Error("ENAMETOOLONG")
       ELSE resolve(IF to.abs THEN Root ELSE out, to.comps \o Tail(rest),
                    slash \/ (to.slash /\ Tail(rest) = <<>>), links + 1)
realpath(p) ==
    LET r == resolve(IF p.abs THEN Root ELSE fs.cwd, p.comps, p.slash, 0)
        dir == namei(Root, Append(r.at, "."), 0, FALSE)
    IN IF ~p.abs /\ p.comps = <<>> THEN Error("ENOENT")
       ELSE IF strlen(p) >= PATH_MAX THEN Error("ENAMETOOLONG")
       ELSE IF r.ok /\ p.slash /\ ~dir.ok THEN Error(dir.err) ELSE r

-----------------------------------------------------------------------------
(* nftw.  The walk w: calls made, directories seen and the room for them,  *)
(* the device and directory it is in, descriptors open, and what walk      *)
(* returned.  how.stop is the call whose function returns 1, how.nomem the *)
(* growth of seen that fails, how.fds the limit on descriptors.            *)

Has(w, flag) == flag \in w.how.flags
Tell(w, at, type, p, level) ==
    LET calls == Append(w.calls, [at |-> at, type |-> type, path |-> p.comps, level |-> level, cwd |-> w.cwd])
    IN [w EXCEPT !.calls = calls, !.r = IF Len(calls) = w.how.stop THEN 1 ELSE 0]
Entries(at) == SelectSeq(fs.order, LAMBDA n : Exists(Append(at, n)))
Below(p, n) == [p EXCEPT !.comps = Append(@, n), !.slash = FALSE]

RECURSIVE walk(_, _, _, _)
\* The entries of the directory at, open as d.
Inside(w, p, at, level, up) ==
    FoldLeft(LAMBDA v, n : IF v.r # 0 THEN v
                           ELSE IF strlen(Below(p, n)) > PATH_MAX THEN [v EXCEPT !.r = -1]
                           ELSE walk(v, Below(p, n), level + 1, up \cup {at}),
             w, Entries(at))
\* Mutant: the way back is not taken when the walk was stopped.
walkStays(w, p, at, level, up) ==
    LET opened == [w EXCEPT !.open = @ + 1]
        told == IF Has(w, "DEPTH") THEN opened ELSE Tell(opened, at, "D", p, level)
        there == IF Has(w, "CHDIR") THEN [told EXCEPT !.cwd = at, !.open = @ + 1] ELSE told
        done == Inside(there, p, at, level, up)
        back == [done EXCEPT !.open = w.open, !.cwd = IF done.r = 0 THEN w.cwd ELSE @]
    IN IF told.r # 0 THEN [told EXCEPT !.open = w.open]
       ELSE IF Has(w, "CHDIR") /\ (told.open >= w.how.fds \/ ~May("r", w.cwd) \/ ~May("x", at)) THEN [told EXCEPT !.open = w.open, !.r = -1]
       ELSE IF back.r = 0 /\ Has(w, "DEPTH") THEN Tell(back, at, "DP", p, level) ELSE back
\* walk, from the open directory on
walkDir(w, p, at, level, up) ==
    LET opened == [w EXCEPT !.open = @ + 1]
        told == IF Has(w, "DEPTH") THEN opened ELSE Tell(opened, at, "D", p, level)
        there == IF Has(w, "CHDIR") THEN [told EXCEPT !.cwd = at, !.open = @ + 1] ELSE told
        done == Inside(there, p, at, level, up)
        back == [done EXCEPT !.open = @ - (IF Has(w, "CHDIR") THEN 2 ELSE 1), !.cwd = w.cwd]
    IN IF told.r # 0 THEN [told EXCEPT !.open = @ - 1]
       ELSE IF Has(w, "CHDIR") /\ (told.open >= w.how.fds \/ ~May("r", w.cwd) \/ ~May("x", at)) THEN [told EXCEPT !.open = @ - 1, !.r = -1]
       ELSE IF back.r = 0 /\ Has(w, "DEPTH") THEN Tell(back, at, "DP", p, level) ELSE back
\* walk, from the results of lstat and stat on
walkOn(w, p, level, up, l, s) ==
    LET st == IF s.ok THEN s ELSE l
        type == IF s.ok THEN (IF IsDir(s.at) THEN "D" ELSE IF IsLink(s.at) THEN "SL" ELSE "F")
                ELSE IF ~Has(w, "PHYS") /\ l.ok /\ IsLink(l.at) THEN "SLN" ELSE "NS"
        dev == IF type = "NS" THEN 0 ELSE fs.tree[st.at].dev
        v == IF level = 0 THEN [w EXCEPT !.dev = dev] ELSE w
        full == Len(v.seen) = v.cap
        u == IF Has(w, "PHYS") THEN v
             ELSE [v EXCEPT !.seen = Append(@, st.at), !.cap = IF full THEN (IF @ = 0 THEN SeenChunk ELSE 2 * @) ELSE @,
                            !.grown = IF full THEN @ + 1 ELSE @]
    IN IF type = "NS" /\ st.err = "EIO" THEN [w EXCEPT !.r = -1]
       ELSE IF level > 0 /\ Has(w, "MOUNT") /\ type # "NS" /\ dev # v.dev THEN v
       ELSE IF type # "D" THEN Tell(v, st.at, type, p, level)
       ELSE IF st.at \in up \/ (~Has(w, "PHYS") /\ Contains(v.seen, st.at)) THEN v
       ELSE IF ~Has(w, "PHYS") /\ full /\ v.grown + 1 = w.how.nomem THEN [v EXCEPT !.r = -1]
       ELSE IF u.open >= w.how.fds THEN [u EXCEPT !.r = -1]
       ELSE IF ~May("r", st.at) THEN Tell(u, st.at, "DNR", p, level)
       ELSE walkDir(u, p, st.at, level, up)
walk(w, p, level, up) ==
    LET name == IF Has(w, "CHDIR") /\ level > 0 THEN [abs |-> FALSE, comps |-> <<Last(p.comps)>>, slash |-> FALSE] ELSE p
    IN walkOn(w, p, level, up, lstat(w.cwd, name), Looked(w.cwd, name, ~Has(w, "PHYS")))
\* start, which takes the slashes at the end of the path off
nftw(c) == walk([how |-> c, calls |-> <<>>, seen |-> <<>>, cap |-> 0, grown |-> 0, dev |-> 0, cwd |-> fs.cwd, open |-> 0, r |-> 0],
                [c.path EXCEPT !.slash = FALSE], 0, {})

-----------------------------------------------------------------------------
(***************************************************************************)
(* Directory streams.  off is the kernel's place in the directory, buf the *)
(* entries (by their number, which is also their d_off) read from there,   *)
(* pos how many of them were returned.  last, r and errno are what the     *)
(* last call left; mark is a value of telldir that the program kept, next  *)
(* the entry due at the place of the stream and due the one at the mark;   *)
(* was and kept are next and errno before the last call, op.               *)
(***************************************************************************)
Listing(at) == <<".", "..">> \o Entries(at)
Fresh(errno) == [off |-> 0, buf |-> <<>>, pos |-> 0, tell |-> 0, last |-> 0, r |-> "", errno |-> errno,
                 kernel |-> "", mark |-> 0, next |-> 1, due |-> 1, op |-> "", was |-> 1, kept |-> errno]
Drained(d) == d.pos >= Len(d.buf)
\* What getdents64 may answer: some entries, none at the end, or an error
Answers(d, at) ==
    LET left == Len(Listing(at)) - d.off
    IN IF ~Drained(d) THEN {[n |-> 0, e |-> ""]}
       ELSE {[n |-> 0, e |-> e] : e \in {"EIO", "ENOENT"}}
            \cup IF left = 0 THEN {[n |-> 0, e |-> ""]} ELSE {[n |-> n, e |-> ""] : n \in {k \in 1..GetdentsMax : k <= left}}
readdir(d, a) ==
    LET buf == IF Drained(d) THEN [k \in 1..a.n |-> d.off + k] ELSE d.buf
        pos == IF Drained(d) THEN 0 ELSE d.pos
        c == [d EXCEPT !.kernel = a.e]
    IN IF buf = <<>> \/ (Drained(d) /\ a.n = 0) THEN [c EXCEPT !.last = 0, !.errno = IF a.e \in {"", "ENOENT"} THEN @ ELSE a.e]
       ELSE [c EXCEPT !.off = IF Drained(d) THEN @ + a.n ELSE @, !.buf = buf, !.pos = pos + 1,
                      !.tell = buf[pos + 1], !.last = buf[pos + 1], !.next = @ + 1]
\* Mutant: what errno held before the call is returned.
readdir_rStale(d, a) == LET c == readdir(d, a) IN [c EXCEPT !.r = c.errno]
readdir_r(d, a) == LET c == readdir([d EXCEPT !.errno = ""], a) IN [c EXCEPT !.r = c.errno, !.errno = d.errno]
rewinddir(d) == [d EXCEPT !.off = 0, !.buf = <<>>, !.pos = 0, !.tell = 0, !.next = 1]
\* Mutant: what was read ahead stays.
seekdirKeeps(d, off) == [d EXCEPT !.off = off, !.tell = off, !.next = d.due]
seekdir(d, off) == [d EXCEPT !.off = off, !.buf = <<>>, !.pos = 0, !.tell = off, !.next = d.due]
telldir(d) == d.tell
\* opendir closes the descriptor it opened when there is no memory for the stream
opendir(at, mem) == IF ~IsDir(at) THEN "ENOTDIR" ELSE IF ~May("r", at) THEN "EACCES" ELSE IF ~mem THEN "ENOMEM" ELSE ""

alphasort(at, i, j) == Rank[Listing(at)[i]] - Rank[Listing(at)[j]]

\* One entry of scandir: x is the state of its loop, how.mem the allocations that succeed
Scan(x, i, how) ==
    LET chosen == Listing(how.at)[i] \in how.sel
        full == x.n = x.cap
        grown == [x EXCEPT !.cap = IF x.cap = 0 THEN ScanChunk ELSE 2 * x.cap, !.live = IF x.cap = 0 THEN @ + 1 ELSE @, !.mem = @ - 1]
        y == IF full THEN grown ELSE x
        z == [x EXCEPT !.errno = IF how.noisy THEN "ENOTTY" ELSE @]
    IN IF x.stop THEN x
       ELSE IF ~chosen THEN z
       ELSE IF full /\ x.mem = 0 THEN [z EXCEPT !.stop = TRUE, !.errno = "ENOMEM"]
       ELSE IF y.mem = 0 THEN [y EXCEPT !.stop = TRUE, !.errno = "ENOMEM"]
       ELSE [y EXCEPT !.n = @ + 1, !.live = @ + 1, !.mem = @ - 1, !.list = Append(@, i), !.errno = z.errno]
\* how.fails is the entry at which getdents64 fails, 0 for none; the list is sorted by alphasort
scandir(how) ==
    LET err == opendir(how.at, how.mem > 0)
        all == Len(Listing(how.at))
        first == [n |-> 0, cap |-> 0, live |-> 0, mem |-> how.mem - 1, list |-> <<>>, errno |-> "", stop |-> FALSE]
        some == FoldLeft(LAMBDA x, i : Scan(x, i, how), first, [i \in 1..(IF how.fails = 0 THEN all ELSE how.fails - 1) |-> i])
        read == IF how.fails # 0 /\ ~some.stop THEN [some EXCEPT !.errno = "EIO"] ELSE some
    IN IF err # "" THEN [r |-> -1, errno |-> err, live |-> 0, list |-> <<>>]
       ELSE IF read.errno # "" THEN [r |-> -1, errno |-> read.errno, live |-> read.live - read.n - (IF read.cap > 0 THEN 1 ELSE 0), list |-> <<>>]
       ELSE [r |-> read.n, errno |-> "", live |-> read.live, list |-> SortSeq(read.list, LAMBDA i, j : alphasort(how.at, i, j) < 0)]

-----------------------------------------------------------------------------

None == [op |-> "none"]
Init == fs \in Systems /\ call = None /\ res = None
Realpath(p) == call' = [op |-> "realpath", path |-> p] /\ res' = realpath(p)
Nftw(c) == call' = c /\ res' = nftw(c)
Scandir(c) == call' = c /\ res' = scandir(c)
Opendir(at, mem, e) == LET err == opendir(at, mem)
                       IN call' = [op |-> IF err = "" THEN "stream" ELSE "opendir", at |-> at] /\ res' = IF err = "" THEN Fresh(e) ELSE Error(err)
Stream(op, d) == UNCHANGED call /\ res' = [d EXCEPT !.op = op, !.was = res.next, !.kept = res.errno]
Readdir == \E a \in Answers(res, call.at) : Stream("readdir", readdir(res, a)) \/ Stream("readdir_r", readdir_r(res, a))
Rewinddir == Stream("rewinddir", rewinddir(res))
Telldir == Stream("telldir", [res EXCEPT !.mark = telldir(res), !.due = res.next])
Seekdir == Stream("seekdir", seekdir(res, res.mark))
Closedir == call' = None /\ res' = None
Next == \/ /\ call = None /\ UNCHANGED fs
           /\ \/ \E p \in Resolved : Realpath(p)
              \/ \E c \in Walked : Nftw(c)
              \/ \E c \in Scanned(fs) : Scandir(c)
              \/ \E at \in Listed(fs), mem \in BOOLEAN : Opendir(at, mem, "EBUSY")
        \/ /\ call.op = "stream" /\ UNCHANGED fs
           /\ Readdir \/ Rewinddir \/ Telldir \/ Seekdir \/ Closedir
Spec == Init /\ [][Next]_vars

\* realpath names the file the kernel would find, through directories only and no link,
\* so that resolving its result again changes nothing; it gives up only for a path that
\* is too long, or that ends with a slash in a directory it may not search, and it never makes up a missing file or a way out of a loop of links.
RealpathTrue ==
    call.op = "realpath" =>
        LET p == call.path
            k == stat(fs.cwd, p)
            kernel == IF k.ok /\ p.slash /\ ~IsDir(k.at) THEN Error("ENOTDIR") ELSE k
        IN /\ kernel.ok => res.err \in {"", "ENAMETOOLONG"} \/ (p.slash /\ res.err = "EACCES" /\ ~May("x", kernel.at))
           /\ res.ok => /\ Exists(res.at) /\ ~IsLink(res.at)
                        /\ \A n \in 0..Len(res.at) - 1 : IsDir(SubSeq(res.at, 1, n))
                        /\ kernel.ok => res.at = kernel.at
                        /\ kernel.err \notin {"ENOENT", "ELOOP"}

\* A walk reports the root of the tree and then, of every directory it enters, each entry
\* once, by its path and as what it is, before or after its contents as FTW_DEPTH says;
\* when links are followed every directory is entered once, and loops are not.  However
\* the walk ends, it has closed its descriptors and is back where it started, and no call
\* follows one that returned non-zero.  Under FTW_CHDIR each call is made in the
\* directory of the object.
WalkTrue ==
    call.op = "nftw" =>
        LET calls == res.calls
            n == Len(calls)
            Dirs == {i \in 1..n : calls[i].type \in {"D", "DP"}}
            Under(i) == {j \in 1..n : j # i /\ calls[j].path # <<>> /\ Front(calls[j].path) = calls[i].path
                                      /\ calls[j].level = calls[i].level + 1}
            Node(i, name) == LET e == Append(calls[i].at, name)
                                 t == namei(calls[i].at, <<name>>, MAXLINKS, ~Has(res, "PHYS"))
                             IN IF t.ok THEN t.at ELSE e
            Skipped(i, name) == \/ ~Has(res, "PHYS") /\ \E j \in 1..n : calls[j].at = Node(i, name) /\ IsDir(calls[j].at)
                                \/ Has(res, "MOUNT") /\ fs.tree[Node(i, name)].dev # res.dev
        IN /\ res.open = 0 /\ res.cwd = fs.cwd
           /\ \A i \in 1..n : i = call.stop => i = n
           /\ res.r = 1 <=> n > 0 /\ n = call.stop
           /\ \A i, j \in 1..n : i # j => calls[i].path # calls[j].path
           /\ \A i, j \in 1..n : i # j /\ IsDir(calls[i].at) /\ calls[i].type # "NS" /\ calls[j].type # "NS" => calls[i].at # calls[j].at
           /\ \A i \in 1..n : /\ calls[i].type \in {"D", "DP", "DNR"} => IsDir(calls[i].at)
                              /\ calls[i].type \in {"SL", "SLN"} => IsLink(calls[i].at)
                              /\ calls[i].type \in {"D", "DP"} => (calls[i].type = "DP") = Has(res, "DEPTH")
                              /\ ~Has(res, "CHDIR") => calls[i].cwd = fs.cwd
           /\ ~Has(res, "DEPTH") /\ n > 0 => calls[1].level = 0 /\ \A j \in 2..n : \E i \in Dirs : i < j /\ j \in Under(i)
           /\ Has(res, "DEPTH") => \A i \in Dirs : \A j \in Under(i) : j < i
           /\ Has(res, "CHDIR") => \A i \in Dirs : \A j \in Under(i) : calls[j].cwd = calls[i].at
           /\ res.r = 0 => /\ n > 0 /\ (Has(res, "DEPTH") => calls[n].level = 0)
                           /\ \A i \in Dirs : \A k \in DOMAIN Entries(calls[i].at) :
                                LET name == Entries(calls[i].at)[k] IN
                                (\E j \in Under(i) : Last(calls[j].path) = name) \/ Skipped(i, name)

\* A stream returns the entry due at its place, each in turn from the beginning, from the
\* place of rewinddir and from that of a value of telldir, though the kernel is ahead of it
\* by what the buffer holds; after a failed read it goes on where it was.  readdir_r
\* reports the failure of its own read and keeps errno.
StreamTrue ==
    call.op = "stream" =>
        /\ res.tell = res.next - 1
        /\ res.op \in {"readdir", "readdir_r"} =>
             /\ res.last # 0 => res.last = res.was
             /\ res.last = 0 => res.kernel # "" \/ res.was > Len(Listing(call.at))
        /\ res.op = "readdir_r" => res.errno = res.kept /\ res.r = IF res.kernel = "ENOENT" THEN "" ELSE res.kernel

\* scandir returns the entries its function chose, in order, or fails and leaves nothing
\* allocated; it fails only for want of memory, for an error of the directory, or because
\* the function it was given left errno set.
ScandirTrue ==
    call.op = "scandir" =>
        LET all == Listing(call.at)
            chosen == {i \in DOMAIN all : all[i] \in call.sel}
        IN IF res.r = -1 THEN /\ res.live = 0 /\ res.errno # ""
                              /\ IsDir(call.at) /\ May("r", call.at) /\ call.fails = 0 /\ ~call.noisy =>
                                   res.errno = "ENOMEM" /\ call.mem <= 2 * Len(all)
           ELSE /\ res.r = Cardinality(chosen) /\ ToSet(res.list) = chosen /\ Len(res.list) = res.r
                /\ \A i \in 2..Len(res.list) : Rank[all[res.list[i - 1]]] < Rank[all[res.list[i]]]
                /\ res.live = IF res.r = 0 THEN 0 ELSE res.r + 1
=============================================================================
