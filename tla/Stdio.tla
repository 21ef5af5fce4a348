-------------------------------- MODULE Stdio --------------------------------
(***************************************************************************)
(* The buffer of one stream on a regular file (stdio.c, stdio_io.c): in    *)
(* read mode it holds bytes read ahead, in write mode bytes not written    *)
(* yet, and each call may switch the mode.  A call is one step, since the  *)
(* stream is locked; the kernel decides how much a read or a write moves   *)
(* and when it fails.                                                      *)
(*                                                                         *)
(* The auxiliary variables follow what the program was promised: want is   *)
(* the file as the program has written it, lpos the position it is at and  *)
(* back the bytes it has pushed back.                                      *)
(***************************************************************************)
EXTENDS Integers, Sequences

CONSTANTS Bytes, Newline,
          BufSize,           \* f->buf_size
          Unget,             \* UNGET
          LineBuffered,      \* f->lbf
          AppendMode,            \* F_APP, on a descriptor opened with O_APPEND
          MaxLen             \* longest file

VARIABLES file, pos,         \* the file and the descriptor's offset
          rd, rbuf, gap,     \* rpos # 0; [rpos, rend); rpos - buf
          wr, wbuf,          \* wend # 0; [wbase, wpos)
          eof, err,          \* F_EOF, F_ERR
          need,              \* bytes fread still wants, 0 when no fread is going on
          ret,               \* the count the last write call returned
          want, lpos, back

vars == <<file, pos, rd, rbuf, gap, wr, wbuf, eof, err, need, ret, want, lpos, back>>
promise == <<want, lpos, back>>

Short(n) == UNION {[1..k -> Bytes] : k \in 0..n}
Overlay(f, at, s) == [k \in 1..(IF at + Len(s) > Len(f) THEN at + Len(s) ELSE Len(f)) |->
                        IF k > at /\ k <= at + Len(s) THEN s[k - at] ELSE f[k]]
\* Where the kernel puts a write.
At(f, p) == IF AppendMode THEN Len(f) ELSE p

Init == /\ file \in Short(2) /\ pos = 0
        /\ rd = FALSE /\ rbuf = <<>> /\ gap = 0 /\ wr = FALSE /\ wbuf = <<>>
        /\ eof = FALSE /\ err = FALSE /\ need = 0 /\ ret = 0
        /\ want = file /\ lpos = 0 /\ back = <<>>

\* f_write: the buffer and then s are written; after k bytes of it the kernel
\* fails, unless that was all.
Moved(s, k) == SubSeq(wbuf \o s, 1, k)
Whole(s) == Len(wbuf \o s)
FileAfter(s, k) == Overlay(file, At(file, pos), Moved(s, k))
PosAfter(s, k) == IF k = 0 THEN pos ELSE At(file, pos) + k
\* Mutant: the bytes of the buffer are counted too.
CountAll(s, k) == IF k = Whole(s) THEN Len(s) ELSE k
Count(s, k) == IF k = Whole(s) THEN Len(s)
               ELSE IF k < Len(wbuf) THEN 0 ELSE k - Len(wbuf)

\* Mutant: what follows the last newline is not buffered.
WriteThroughOnly(s, i, k) ==
  LET head == SubSeq(s, 1, i) ok == k = Whole(head) IN
  /\ file' = FileAfter(head, k) /\ pos' = PosAfter(head, k)
  /\ wr' = ok /\ wbuf' = <<>> /\ err' = (err \/ ~ok)
  /\ ret' = IF ok THEN Len(s) ELSE Count(head, k)
  /\ want' = IF ok THEN Overlay(want, IF AppendMode THEN Len(want) ELSE lpos, s) ELSE file'
  /\ lpos' = IF ok THEN (IF AppendMode THEN Len(want) ELSE lpos) + Len(s) ELSE pos'

\* The program writes s: its first i bytes are written through and the others
\* buffered, or all are buffered.  The promise follows, unless the write fails.
WriteThrough(s, i, k) ==
  LET head == SubSeq(s, 1, i) tail == SubSeq(s, i + 1, Len(s)) ok == k = Whole(head) IN
  /\ file' = FileAfter(head, k) /\ pos' = PosAfter(head, k)
  /\ wr' = ok /\ wbuf' = (IF ok THEN tail ELSE <<>>) /\ err' = (err \/ ~ok)
  /\ ret' = IF ok THEN Len(s) ELSE Count(head, k)
  /\ want' = IF ok THEN Overlay(want, IF AppendMode THEN Len(want) ELSE lpos, s) ELSE file'
  /\ lpos' = IF ok THEN (IF AppendMode THEN Len(want) ELSE lpos) + Len(s) ELSE pos'
WriteBuffered(s) ==
  /\ wr' = TRUE /\ wbuf' = wbuf \o s
  /\ ret' = Len(s)
  /\ want' = Overlay(want, IF AppendMode THEN Len(want) ELSE lpos, s)
  /\ lpos' = (IF AppendMode THEN Len(want) ELSE lpos) + Len(s)
  /\ UNCHANGED <<file, pos, err>>

\* C allows output after input only when the input is used up.
MayWrite(n) == need = 0 /\ rbuf = <<>> /\ Len(want) + n <= MaxLen
\* __towrite
Towrite == rd' = FALSE /\ gap' = 0 /\ back' = <<>> /\ UNCHANGED <<rbuf, eof, need>>

\* Mutant: a newline is buffered like any byte.
PutcAny(c) ==
  /\ MayWrite(1) /\ Towrite
  /\ IF Len(wbuf) < BufSize THEN WriteBuffered(<<c>>)
                            ELSE \E k \in 0..Whole(<<c>>) : WriteThrough(<<c>>, 1, k)
\* putc_unlocked_, __overflow
Putc(c) ==
  /\ MayWrite(1) /\ Towrite
  /\ IF Len(wbuf) < BufSize /\ ~(LineBuffered /\ c = Newline)
       THEN WriteBuffered(<<c>>)
       ELSE \E k \in 0..Whole(<<c>>) : WriteThrough(<<c>>, 1, k)

\* Through the last newline of s, 0 if it has none.
LastNewline(s) == IF \E i \in 1..Len(s) : s[i] = Newline
                    THEN CHOOSE i \in 1..Len(s) : s[i] = Newline /\ \A j \in (i + 1)..Len(s) : s[j] # Newline
                    ELSE 0
\* Mutant: one byte too many is thought to fit.
FwritexOver(s) ==
  LET i == IF Len(s) > BufSize - Len(wbuf) + 1 THEN Len(s)
           ELSE IF LineBuffered THEN LastNewline(s) ELSE 0
  IN /\ MayWrite(Len(s)) /\ s # <<>> /\ Towrite
     /\ IF i = 0 THEN WriteBuffered(s)
                 ELSE \E k \in 0..Whole(SubSeq(s, 1, i)) : WriteThrough(s, i, k)
\* fwrite, fputs: __fwritex
Fwritex(s) ==
  LET i == IF Len(s) > BufSize - Len(wbuf) THEN Len(s)
           ELSE IF LineBuffered THEN LastNewline(s) ELSE 0
  IN /\ MayWrite(Len(s)) /\ s # <<>> /\ Towrite
     /\ IF i = 0 THEN WriteBuffered(s)
                 ELSE \E k \in 0..Whole(SubSeq(s, 1, i)) : WriteThrough(s, i, k)
-----------------------------------------------------------------------------
\* What is pending is written before the stream is read, flushed or moved: k bytes of
\* it, and if that is not all the rest is lost and the promise is cut down to the file.
PosNow(k) == PosAfter(<<>>, k)
LposNow(k) == IF k = Len(wbuf) THEN lpos ELSE PosNow(k)
ErrNow(k) == err \/ k < Len(wbuf)
\* Mutant: the buffer is not emptied.
FlushKeeps(k) == /\ file' = FileAfter(<<>>, k)
                 /\ want' = IF k = Len(wbuf) THEN want ELSE file'
                 /\ UNCHANGED <<wr, wbuf>>
Flush(k) == /\ file' = FileAfter(<<>>, k)
            /\ want' = IF k = Len(wbuf) THEN want ELSE file'
            /\ wr' = FALSE /\ wbuf' = <<>>

\* Mutant: what is pending is kept.
ToreadKeeps(k) == /\ k = Len(wbuf) /\ rd' = TRUE /\ UNCHANGED <<file, want, wr, wbuf>>
\* __toread, which ignores a failed write
Toread(k) == Flush(k) /\ rd' = TRUE
GapNow == IF rd THEN gap ELSE 0

Smaller(a, b) == IF a < b THEN a ELSE b
\* How many bytes f_read may return of the n it is asked for.
Readable(n, p) == 1..Smaller(n, IF Len(file') > p THEN Len(file') - p ELSE 0)
\* It returns none: the end of the file, or an error.
ReadNone(k) == \/ Readable(1, PosNow(k)) = {} /\ eof' = TRUE /\ err' = ErrNow(k)
               \/ err' = TRUE /\ UNCHANGED eof

\* Bytes come out of the buffer.
Take(n) == /\ rbuf' = SubSeq(rbuf, n + 1, Len(rbuf)) /\ gap' = gap + n
           /\ lpos' = lpos + n
           /\ back' = SubSeq(back, n + 1, Len(back))

\* getc_unlocked_, when the buffer has a byte
Getc ==
  /\ need = 0 /\ rbuf # <<>> /\ Take(1) /\ ret' = 0
  /\ UNCHANGED <<file, pos, rd, wr, wbuf, eof, err, need, want>>

\* ... and when it has none: __uflow.
Uflow ==
  /\ need = 0 /\ rbuf = <<>>
  /\ \E k \in 0..Len(wbuf) :
       /\ Toread(k)
       /\ \/ /\ ~eof
             /\ \E n \in Readable(IF BufSize = 0 THEN 1 ELSE BufSize, PosNow(k)) :
                  /\ rbuf' = SubSeq(file', PosNow(k) + 2, PosNow(k) + n) /\ gap' = 1
                  /\ pos' = PosNow(k) + n /\ lpos' = LposNow(k) + 1
             /\ err' = ErrNow(k) /\ UNCHANGED eof
          \/ /\ IF eof THEN err' = ErrNow(k) /\ UNCHANGED eof ELSE ReadNone(k)
             /\ pos' = PosNow(k) /\ lpos' = LposNow(k) /\ gap' = GapNow
             /\ UNCHANGED rbuf
  /\ ret' = 0
  /\ UNCHANGED <<need, back>>

\* fread: from the buffer, into the buffer, or past it; need is what it still wants.
FreadCall(n) ==
  /\ need = 0 /\ need' = n /\ ret' = 0
  /\ UNCHANGED <<file, pos, rd, rbuf, gap, wr, wbuf, eof, err, promise>>
FreadCopy ==
  /\ need > 0 /\ rbuf # <<>>
  /\ LET n == Smaller(need, Len(rbuf)) IN Take(n) /\ need' = need - n
  /\ UNCHANGED <<file, pos, rd, wr, wbuf, eof, err, ret, want>>
\* Mutant: a large read fills the buffer as well.
FreadFillTwice ==
  /\ need > 0 /\ rbuf = <<>> /\ ~eof
  /\ \E k \in 0..Len(wbuf) :
       /\ Toread(k) /\ err' = ErrNow(k)
       /\ \E n \in Readable(IF need >= BufSize THEN need ELSE BufSize, PosNow(k)) :
            /\ pos' = PosNow(k) + n
            /\ rbuf' = SubSeq(file', PosNow(k) + 1, PosNow(k) + n) /\ gap' = 0
            /\ IF need >= BufSize THEN need' = need - n /\ lpos' = LposNow(k) + n
                                  ELSE lpos' = LposNow(k) /\ UNCHANGED need
  /\ UNCHANGED <<eof, ret, back>>
FreadFill ==
  /\ need > 0 /\ rbuf = <<>> /\ ~eof
  /\ \E k \in 0..Len(wbuf) :
       /\ Toread(k) /\ err' = ErrNow(k)
       /\ \E n \in Readable(IF need >= BufSize THEN need ELSE BufSize, PosNow(k)) :
            /\ pos' = PosNow(k) + n
            /\ IF need >= BufSize
                 THEN need' = need - n /\ lpos' = LposNow(k) + n /\ gap' = GapNow /\ UNCHANGED rbuf
                 ELSE /\ rbuf' = SubSeq(file', PosNow(k) + 1, PosNow(k) + n) /\ gap' = 0
                      /\ lpos' = LposNow(k) /\ UNCHANGED need
  /\ UNCHANGED <<eof, ret, back>>
FreadEnd ==
  /\ need > 0 /\ rbuf = <<>> /\ need' = 0
  /\ \E k \in 0..Len(wbuf) :
       /\ Toread(k) /\ pos' = PosNow(k) /\ lpos' = LposNow(k) /\ gap' = GapNow
       /\ IF eof THEN err' = ErrNow(k) /\ UNCHANGED eof ELSE ReadNone(k)
  /\ UNCHANGED <<rbuf, ret, back>>

\* ungetc; the program does not push back more than precedes its position.
Ungetc(c) ==
  /\ need = 0 /\ lpos > 0
  /\ \E k \in 0..Len(wbuf) :
       /\ LposNow(k) > 0
       /\ Toread(k) /\ err' = ErrNow(k) /\ pos' = PosNow(k)
       /\ IF GapNow <= -Unget
            THEN UNCHANGED <<rbuf, gap, eof, lpos, back>>
            ELSE /\ rbuf' = <<c>> \o rbuf /\ gap' = GapNow - 1 /\ eof' = FALSE
                 /\ lpos' = LposNow(k) - 1 /\ back' = <<c>> \o back
  /\ ret' = 0
  /\ UNCHANGED need
-----------------------------------------------------------------------------
\* Mutant: the input read ahead is dropped.
FflushDrops ==
  /\ need = 0
  /\ \E k \in 0..Len(wbuf) :
       /\ Flush(k) /\ err' = ErrNow(k) /\ lpos' = LposNow(k) /\ pos' = PosNow(k)
  /\ rd' = FALSE /\ rbuf' = <<>> /\ gap' = 0 /\ back' = <<>> /\ ret' = 0
  /\ UNCHANGED <<eof, need>>
\* __fflush_unlocked: pending output is written, unread input is given back.
Fflush ==
  /\ need = 0
  /\ \E k \in 0..Len(wbuf) :
       /\ Flush(k) /\ err' = ErrNow(k) /\ lpos' = LposNow(k) /\ pos' = PosNow(k) - Len(rbuf)
  /\ rd' = FALSE /\ rbuf' = <<>> /\ gap' = 0 /\ back' = <<>> /\ ret' = 0
  /\ UNCHANGED <<eof, need>>

\* Mutant: the bytes read ahead are not taken off a relative offset.
SeekTargetAhead(whence, off, p, f) ==
  IF whence = "SET" THEN off ELSE IF whence = "END" THEN Len(f) + off ELSE p + off
\* The offset lseek is asked for, when p is the descriptor's offset.
SeekTarget(whence, off, p, f) ==
  IF whence = "SET" THEN off ELSE IF whence = "END" THEN Len(f) + off
                             ELSE p + off - Len(rbuf)

\* __fseeko_unlocked: if what is pending cannot be written, or lseek refuses, it fails.
Fseek(whence, off) ==
  /\ need = 0
  /\ \E k \in 0..Len(wbuf) :
       LET target == SeekTarget(whence, off, PosNow(k), file') IN
       /\ Flush(k) /\ err' = ErrNow(k) /\ target <= Len(file')
       /\ IF k < Len(wbuf) \/ target < 0
            THEN /\ pos' = PosNow(k) /\ lpos' = LposNow(k)
                 /\ UNCHANGED <<rd, rbuf, gap, eof, back>>
            ELSE /\ pos' = target
                 /\ lpos' = IF whence = "CUR" THEN lpos + off
                            ELSE IF whence = "END" THEN Len(want) + off ELSE off
                 /\ rd' = FALSE /\ rbuf' = <<>> /\ gap' = 0 /\ eof' = FALSE /\ back' = <<>>
  /\ ret' = 0
  /\ UNCHANGED need

\* __ftello_unlocked: the position it returns, and what it does to the descriptor.
Tell == IF wbuf # <<>> /\ AppendMode THEN Len(file) + Len(wbuf)
        ELSE IF rd THEN pos - Len(rbuf) ELSE IF wr THEN pos + Len(wbuf) ELSE pos
Ftell ==
  /\ need = 0 /\ wbuf # <<>> /\ AppendMode /\ pos' = Len(file) /\ ret' = 0
  /\ UNCHANGED <<file, rd, rbuf, gap, wr, wbuf, eof, err, need, promise>>

Clearerr ==
  /\ need = 0 /\ (eof \/ err) /\ eof' = FALSE /\ err' = FALSE /\ ret' = 0
  /\ UNCHANGED <<file, pos, rd, rbuf, gap, wr, wbuf, need, promise>>
-----------------------------------------------------------------------------
Next == \/ \E c \in Bytes : Putc(c) \/ Ungetc(c)
        \/ \E s \in Short(3) : Fwritex(s)
        \/ Getc \/ Uflow
        \/ \E n \in 1..3 : FreadCall(n)
        \/ FreadCopy \/ FreadFill \/ FreadEnd
        \/ Fflush \/ Ftell \/ Clearerr
        \/ \E whence \in {"SET", "CUR", "END"}, off \in -1..1 : Fseek(whence, off)

Spec == Init /\ [][Next]_vars
-----------------------------------------------------------------------------
\* The buffer is never overrun, at either end.
TypeOK ==
  /\ file \in Seq(Bytes) /\ Len(file) <= MaxLen /\ pos \in 0..MaxLen
  /\ Len(wbuf) <= BufSize /\ gap >= -Unget
  /\ gap + Len(rbuf) <= (IF BufSize = 0 THEN 1 ELSE BufSize)
  /\ {rd, wr, eof, err} \subseteq BOOLEAN /\ need \in Nat /\ ret \in Nat /\ lpos \in Nat

\* "a stream is in read mode, write mode or neither": the two halves never hold
\* bytes together.
OneMode == ~(rd /\ wr) /\ (rbuf # <<>> => rd) /\ (wbuf # <<>> => wr)

\* No byte the program wrote is lost, doubled or out of place, until a write fails:
\* the file with the buffer laid over it is what the program has written.
NothingLost == Overlay(file, At(file, pos), wbuf) = want

\* What will be read next is what the program expects at its position: the bytes it
\* pushed back and then the file.
ReadsTrue ==
  LET next == back \o SubSeq(want, lpos + Len(back) + 1, Len(want)) IN
  rd => /\ Len(back) <= Len(rbuf) /\ Len(rbuf) <= Len(next)
        /\ \A k \in 1..Len(rbuf) : rbuf[k] = next[k]

\* ftell returns the position the program is at, whatever the buffer holds.
TellTrue == Tell = lpos

\* Of a line-buffered stream every complete line is in the file.
LinesOut == LineBuffered => \A k \in 1..Len(wbuf) : wbuf[k] # Newline

\* "returns how many argument bytes were written": a write that fails reports those
\* bytes of its argument that the file got, and no more.
CountTrue ==
  [][~wr' /\ ret' > 0 =>
       LET start == pos' - ret' - Len(wbuf) IN
       start >= 0 /\ \A k \in 1..Len(wbuf) : file'[start + k] = wbuf[k]]_vars
=============================================================================
