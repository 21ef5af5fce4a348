------------------------------- MODULE MCSync -------------------------------
(***************************************************************************)
(* The primitives of Sync for three threads, and beside them a stream as   *)
(* its user sees it, in two modes.                                         *)
(***************************************************************************)
EXTENDS Sync, Sequences, TLC

CONSTANTS t1, t2, t3,                            \* threads
          here, there, i1, i2,                   \* processes, inodes
          out, f1, f2,                           \* streams
          Bytes, Newline, BufSize, Unget, LineBuffered, AppendMode, MaxLen   \* of Stdio

MCThreads == {t1, t2, t3}
Pair == {t1, t2}
OnlyT1 == {t1}
MCProcs == {here, there}
MCInodes == {i1, i2}
MCProcOf == [a \in MCThreads |-> IF a = t1 THEN there ELSE here]
MCFiles == {f1, f2}
MCStdSeq == <<out>>
\* t1 differs from the others: it may be cancelled, and is alone in its process.
Symmetric == Permutations({t2, t3}) \cup Permutations(MCInodes) \cup Permutations(MCFiles)

VARIABLES file, pos, rd, rbuf, gap, wr, wbuf, eof, err, need, ret, want, lpos, back

Stream == INSTANCE Stdio
\* The stream in the other mode of the two.
Other == INSTANCE Stdio WITH LineBuffered <- ~LineBuffered, AppendMode <- ~AppendMode
stream == <<file, pos, rd, rbuf, gap, wr, wbuf, eof, err, need, ret, want, lpos, back>>

MCInit == /\ Init /\ Stream!Init
          /\ sys \notin {"stream", "other"} => file = <<>>   \* one value of what is not used

MCNext == \/ Next /\ UNCHANGED stream
          \/ sys = "stream" /\ Stream!Next /\ UNCHANGED vars
          \/ sys = "other" /\ Other!Next /\ UNCHANGED vars

MCSpec == MCInit /\ [][MCNext]_<<vars, stream>>

\* The condition variable alone, under the fairness of its module
\* CondVar's Fairness, as TLC needs it for the variables of a wait alone.
CondSpec ==
    /\ MCSpec /\ sys = "cond"
    /\ \A t \in Threads :
         /\ WF_cond(Cond!WaitRelease(t)) /\ WF_cond(Cond!FutexWait(t)) /\ WF_cond(Cond!TimedOut(t)) /\ SF_cond(Cond!WaitEnd(t))
         /\ WF_cond(Cond!SignalStep(t)) /\ WF_cond(Cond!DeliverCancel(t)) /\ WF_cond(Cond!Unlock(t))
         /\ WF_cond(c_pc[t] = "recheck" /\ (Cond!Take(t) \/ Cond!WaitBegin(t, FALSE)))
-----------------------------------------------------------------------------
\* pthread.c says that cancellation "is acted on at ... the condition variable
\* waits": a thread asleep in a wait with a request outstanding leaves it.
CancelEndsWait == Cond!CancelEndsWait

\* A stream, in either mode: the buffer is not overrun; no byte written is lost, doubled
\* or out of place, and of a line-buffered stream every complete line is in the file;
\* what is read is what the program expects at its position, which ftell returns; a
\* write that fails reports the bytes the file got.
StreamsTrue ==
  /\ [][/\ sys \in {"stream", "other"} => Stream!TypeOK' /\ Stream!OneMode'
        /\ sys = "stream" => /\ Stream!NothingLost' /\ Stream!LinesOut'
                             /\ Stream!ReadsTrue' /\ Stream!TellTrue'
        /\ sys = "other" => /\ Other!NothingLost' /\ Other!LinesOut'
                            /\ Other!ReadsTrue' /\ Other!TellTrue']_<<vars, stream>>
  /\ Stream!CountTrue
=============================================================================
