----------------------------- MODULE MemStream -----------------------------
(***************************************************************************)
(* memstream.c: streams on memory.  fmemopen works on an array of fixed    *)
(* size, open_memstream on one that grows; both sit under the buffer of a  *)
(* stream, which gathers bytes before it passes them on.                   *)
(***************************************************************************)
EXTENDS Integers, Sequences, SequencesExt

CONSTANTS
    Opens,         \* how streams are opened: [kind, mode, plus, bufsize, array]
    Bytes, NUL,    \* bytes written, and the zero byte
    SizeLimit,           \* SSIZE_MAX and SIZE_MAX / 2
    MaxSize        \* bound on the memory stream's size

VARIABLES how,     \* the member of Opens
          c,       \* the cookie: pos, len, size (space, of open_memstream), buf, append; sizep
          f,       \* FILE: rd, rbuf, wr, wbuf, eof, err; open
          want,    \* the memory the program has written: mem, len, and the position it is at
          ret      \* what getc returned, when that was the last call
vars == <<how, c, f, want, ret>>

Junk == "junk"
EOF == "EOF"
Smaller(a, b) == IF a < b THEN a ELSE b
Larger(a, b) == IF a > b THEN a ELSE b
strnlen(a) == LET zeros == {k \in DOMAIN a : a[k] = NUL}
              IN IF zeros = {} THEN Len(a) ELSE (CHOOSE k \in zeros : \A j \in zeros : k <= j) - 1

fmemopen(h) ==
    LET len == IF h.mode = "r" THEN Len(h.array) ELSE IF h.mode = "a" THEN strnlen(h.array) ELSE 0
    IN [pos |-> IF h.mode = "a" THEN len ELSE 0, len |-> len, size |-> Len(h.array),
        buf |-> IF h.mode = "w" THEN [h.array EXCEPT ![1] = NUL] ELSE h.array, append |-> h.mode = "a", sizep |-> 0]
open_memstream == [pos |-> 0, len |-> 0, size |-> 1, buf |-> <<NUL>>, append |-> FALSE, sizep |-> 0]
F_NORD == ~how.plus /\ how.mode # "r"
F_NOWR == ~how.plus /\ how.mode = "r"

\* Mutant: the terminator is put after the bytes written, not after the contents.
fmem_raw_writeEnds(k, s) ==
    LET at == IF k.append THEN k.len ELSE k.pos
        n == Smaller(Len(s), k.size - at)
        len == Larger(k.len, at + n)
    IN [n |-> n, c |-> [k EXCEPT !.pos = at + n, !.len = len,
          !.buf = [i \in DOMAIN @ |-> IF i > at /\ i <= at + n THEN s[i - at] ELSE IF i = at + n + 1 THEN NUL ELSE @[i]]]]
fmem_raw_write(k, s) ==
    LET at == IF k.append THEN k.len ELSE k.pos
        n == Smaller(Len(s), k.size - at)
        len == Larger(k.len, at + n)
    IN [n |-> n, c |-> [k EXCEPT !.pos = at + n, !.len = len,
          !.buf = [i \in DOMAIN @ |-> IF i > at /\ i <= at + n THEN s[i - at] ELSE IF i = len + 1 THEN NUL ELSE @[i]]]]

\* Mutant: the gap a seek left is not filled.
ms_raw_writeGap(k, s, nomem) ==
    LET end == k.pos + Len(s)
        space == IF end + 1 > k.size THEN Larger(2 * k.size, end + 1) ELSE k.size
        len == Larger(k.len, end)
    IN IF end >= SizeLimit \/ (space > k.size /\ nomem) THEN [n |-> 0, c |-> k]
       ELSE [n |-> Len(s), c |-> [k EXCEPT !.size = space, !.pos = end, !.len = len, !.sizep = Smaller(end, len),
          !.buf = [i \in 1..space |-> IF i > k.pos /\ i <= end THEN s[i - k.pos]
                                      ELSE IF i = len + 1 THEN NUL
                                      ELSE IF i <= k.size THEN @[i] ELSE Junk]]]
ms_raw_write(k, s, nomem) ==
    LET end == k.pos + Len(s)
        space == IF end + 1 > k.size THEN Larger(2 * k.size, end + 1) ELSE k.size
        len == Larger(k.len, end)
    IN IF end >= SizeLimit \/ (space > k.size /\ nomem) THEN [n |-> 0, c |-> k]
       ELSE [n |-> Len(s), c |-> [k EXCEPT !.size = space, !.pos = end, !.len = len, !.sizep = Smaller(end, len),
          !.buf = [i \in 1..space |-> IF i > k.pos /\ i <= end THEN s[i - k.pos]
                                      ELSE IF i = len + 1 \/ (i > k.len /\ i <= k.pos) THEN NUL
                                      ELSE IF i <= k.size THEN @[i] ELSE Junk]]]

raw(k, s, nomem) == IF how.kind = "fmem" THEN fmem_raw_write(k, s) ELSE ms_raw_write(k, s, nomem)
\* nomem: which of the two calls of raw finds no memory, 0 for none
After(first, s, nomem) ==
    LET second == IF s = <<>> THEN [n |-> 0, c |-> first.c] ELSE raw(first.c, s, nomem = 2)
    IN IF first.n < Len(f.wbuf) THEN [ok |-> FALSE, c |-> first.c]
       ELSE [ok |-> second.n = Len(s), c |-> second.c]
buffered_write(s, nomem) == After(IF f.wbuf = <<>> THEN [n |-> 0, c |-> c] ELSE raw(c, f.wbuf, nomem = 1), s, nomem)

new_pos(base, off, max) == IF base + off \in 0..max THEN base + off ELSE -1
\* fmem_seek, ms_seek: the new cookie, or the old one with ok = FALSE
seek(k, off, whence) ==
    LET base == IF whence = "SET" THEN 0 ELSE IF whence = "CUR" THEN k.pos ELSE k.len
        p == new_pos(base, off, IF how.kind = "fmem" THEN k.size ELSE SizeLimit)
    IN [ok |-> p >= 0, c |-> IF p < 0 THEN k
                             ELSE [k EXCEPT !.pos = p, !.sizep = IF how.kind = "fmem" THEN @ ELSE Smaller(p, k.len)]]

-----------------------------------------------------------------------------
(* What the program wrote: one byte at a time, with nothing in between.    *)
(* A byte refused at the end of fmemopen's array still makes the contents  *)
(* reach that end.                                                         *)

Mem(k) == [mem |-> IF how.kind = "fmem" THEN k.buf ELSE SubSeq(k.buf, 1, k.len), len |-> k.len, pos |-> k.pos]
Put(w, b) ==
    LET at == IF c.append THEN w.len ELSE w.pos
        len == Larger(w.len, at + 1)
        Byte(i) == IF i = at + 1 THEN b ELSE IF i = len + 1 THEN NUL ELSE w.mem[i]
    IN IF how.kind = "fmem"
         THEN IF at = c.size THEN [w EXCEPT !.pos = at, !.len = at]
              ELSE [mem |-> [i \in 1..c.size |-> Byte(i)], len |-> len, pos |-> at + 1]
         ELSE [mem |-> [i \in 1..len |-> IF i # at + 1 /\ i > w.len THEN NUL ELSE Byte(i)], len |-> len, pos |-> at + 1]
Written(w, s) == FoldLeft(Put, w, s)

Init == /\ how \in Opens
        /\ c = IF how.kind = "fmem" THEN fmemopen(how) ELSE open_memstream
        /\ f = [rd |-> FALSE, rbuf |-> <<>>, wr |-> FALSE, wbuf |-> <<>>, eof |-> FALSE, err |-> FALSE, open |-> TRUE]
        /\ want = Mem(c) /\ ret = ""

\* What is pending is passed on; if that fails it is lost.
Flushed(nomem) == IF f.wbuf = <<>> THEN [ok |-> TRUE, c |-> c] ELSE buffered_write(<<>>, nomem)

\* __fwritex, putc: s is gathered if it fits, passed on with what was gathered otherwise.
Fwrite(s, nomem) ==
    LET r == buffered_write(s, nomem)
    IN /\ f.open /\ f.rbuf = <<>> /\ ret' = "" /\ UNCHANGED how
       /\ IF F_NOWR THEN f' = [f EXCEPT !.err = TRUE] /\ UNCHANGED <<c, want>>
          ELSE IF Len(s) <= how.bufsize - Len(f.wbuf)
            THEN f' = [f EXCEPT !.rd = FALSE, !.wr = TRUE, !.wbuf = @ \o s] /\ want' = Written(want, s) /\ UNCHANGED c
            ELSE /\ c' = r.c /\ f' = [f EXCEPT !.rd = FALSE, !.wr = r.ok, !.wbuf = <<>>, !.err = @ \/ ~r.ok]
                 /\ want' = IF r.ok \/ how.kind = "fmem" THEN Written(want, s) ELSE Mem(r.c)

\* getc: __uflow on an empty buffer, with __toread before it
Getc(nomem) ==
    LET r == Flushed(nomem)
        n == Smaller(IF how.bufsize = 0 THEN 1 ELSE how.bufsize, r.c.len - r.c.pos)
        g == [f EXCEPT !.wr = FALSE, !.wbuf = <<>>, !.err = @ \/ ~r.ok]
        w == IF r.ok \/ how.kind = "fmem" THEN want ELSE Mem(r.c)
    IN /\ f.open /\ UNCHANGED how
       /\ IF f.rbuf # <<>>
            THEN /\ f' = [f EXCEPT !.rbuf = Tail(@)] /\ ret' = Head(f.rbuf) /\ want' = [want EXCEPT !.pos = @ + 1]
                 /\ UNCHANGED c
          ELSE IF F_NORD THEN f' = [g EXCEPT !.err = TRUE] /\ c' = r.c /\ want' = w /\ ret' = EOF
          ELSE IF f.eof \/ n <= 0
            THEN f' = [g EXCEPT !.rd = TRUE, !.eof = TRUE] /\ c' = r.c /\ want' = w /\ ret' = EOF
          ELSE /\ c' = [r.c EXCEPT !.pos = @ + n] /\ want' = [w EXCEPT !.pos = @ + 1] /\ ret' = r.c.buf[r.c.pos + 1]
               /\ f' = [g EXCEPT !.rd = TRUE, !.rbuf = SubSeq(r.c.buf, r.c.pos + 2, r.c.pos + n)]

\* __fflush_unlocked, and fclose, which goes on to close the stream whatever the flush said
Fflush(nomem, close) ==
    LET r == Flushed(nomem)
        back == seek(r.c, -Len(f.rbuf), "CUR").c
    IN /\ f.open /\ ret' = "" /\ UNCHANGED how
       /\ c' = IF r.ok /\ f.rbuf # <<>> THEN back ELSE r.c
       /\ f' = [f EXCEPT !.rd = FALSE, !.rbuf = <<>>, !.wr = FALSE, !.wbuf = <<>>, !.err = @ \/ ~r.ok, !.open = ~close]
       /\ want' = IF r.ok \/ how.kind = "fmem" THEN want ELSE Mem(r.c)

\* __fseeko_unlocked
Fseek(off, whence, nomem) ==
    LET r == Flushed(nomem)
        s == seek(r.c, IF whence = "CUR" THEN off - Len(f.rbuf) ELSE off, whence)
        w == IF r.ok \/ how.kind = "fmem" THEN want ELSE Mem(r.c)
    IN /\ f.open /\ ret' = "" /\ UNCHANGED how
       /\ c' = IF r.ok THEN s.c ELSE r.c
       /\ IF r.ok /\ s.ok
            THEN /\ f' = [f EXCEPT !.rd = FALSE, !.rbuf = <<>>, !.wr = FALSE, !.wbuf = <<>>, !.eof = FALSE]
                 /\ want' = [want EXCEPT !.pos = off + (IF whence = "SET" THEN 0 ELSE IF whence = "CUR" THEN @ ELSE want.len)]
            ELSE f' = [f EXCEPT !.wr = FALSE, !.wbuf = <<>>, !.err = @ \/ ~r.ok] /\ want' = w

\* __ftello_unlocked: its seek leaves the cookie as it is.
Tell == c.pos + (IF f.rd THEN -Len(f.rbuf) ELSE Len(f.wbuf))

Strings == {<<b>> : b \in Bytes} \cup {<<a, b>> : a, b \in Bytes}
Next == \/ \E s \in Strings, n \in 0..2 : c.size <= MaxSize /\ Fwrite(s, n)
        \/ \E n \in 0..1 : Getc(n)
        \/ \E n \in 0..1, close \in BOOLEAN : Fflush(n, close)
        \/ \E off \in -1..1, whence \in {"SET", "CUR", "END"}, n \in 0..1 : Fseek(off, whence, n)
        \/ \E n \in 0..1 : Fseek(SizeLimit, "SET", n)
Spec == Init /\ [][Next]_vars

\* However the bytes were gathered, the memory is what writing them one at a time
\* would have left, its terminator and the zeroes of a gap included, until there is no
\* memory; input is what the memory holds; the position is the program's; and what
\* open_memstream's caller sees after a flush is the contents, their length, and a zero.
MemoryStreamsTrue ==
    /\ LET w == IF f.rd THEN [Mem(c) EXCEPT !.pos = @ - Len(f.rbuf)] ELSE Written(Mem(c), f.wbuf) IN w = want
    /\ \A i \in DOMAIN f.rbuf : f.rbuf[i] = want.mem[want.pos + i]
    /\ ret \notin {"", EOF} => ret = want.mem[want.pos]
    /\ ret = EOF => F_NORD \/ want.pos >= want.len
    /\ ~(f.rd /\ f.wbuf # <<>>) /\ Len(f.wbuf) <= how.bufsize
    /\ f.wbuf = <<>> \/ (~c.append /\ (how.kind = "ms" \/ c.pos + Len(f.wbuf) <= c.size)) => Tell = want.pos
    /\ how.kind = "fmem" => c.pos <= c.size /\ c.len <= c.size
    /\ how.kind = "ms" => /\ c.len < c.size /\ c.sizep = Smaller(c.pos, c.len)
                          /\ c.buf[c.len + 1] = NUL /\ \A i \in 1..c.len : c.buf[i] # Junk
=============================================================================
