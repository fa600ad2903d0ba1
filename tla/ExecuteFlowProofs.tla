------------------------- MODULE ExecuteFlowProofs -------------------------
(***************************************************************************)
(* Proofs about what has gone through the pipes when infra.execute is      *)
(* through: the program's end of input comes after all of the input, and   *)
(* the call returns all of the output.                                     *)
(***************************************************************************)
EXTENDS ExecuteProofs

StartsWith(b, a) == Len(a) <= Len(b) /\ SubSeq(b, 1, Len(a)) = a

\* The call or its collector has given up: some of the data may be lost.
GivenUp == {"raised", "gc_wait", "done", "aborted"}

\* The host holds the writer of stdin until all of the input is written, and
\* a program that has seen the end of file has read all there was.
InFlow ==
    /\ child \in {"none", "forked", "failed"} => eof = "ahead"
    /\ pc \in {"raised", "gc_wait"} => result = "raised"
    /\ pc \notin {"options", "open_stdin"} \cup GivenUp => <<"stdin", "w">> \in handle \/ input = <<>>
    /\ eof = "seen" /\ result # "raised" => /\ consumed = Input
                                             /\ buf["stdin"] = <<>>
                                             /\ <<"stdin", "w">> \notin handle

\* Nothing comes out of the pipe any more, and nothing can get into it.
Dry(s) == buf[s] = <<>> /\ ~HasWriter(s)

\* Where in the call the stream s is open or dry, and where it is collected.
Unopened(s)  == {"options", "open_stdin", "open_stdout"} \cup IF s = "stderr" THEN {"open_stderr"} ELSE {}
Collected(s) == {"returned"} \cup IF s = "stdout" THEN {"drain_stderr"} ELSE {}

\* The host closes its end of a stream only when that is dry, so that after the
\* last drain it has got what was written up to the end of the program.
OutFlow ==
    \A s \in Stream :
        /\ pc \notin Unopened(s) \cup GivenUp => <<s, "r">> \in handle \/ Dry(s)
        /\ wstatus # "none" => StartsWith(written[s], atEnd[s])
        /\ pc \in Collected(s) => StartsWith(out[s], atEnd[s])

\* A filter has written a part of what it has read, and all of it when it exits.
FilterFlow ==
    /\ child \in {"none", "forked", "failed"} => orphan = "none"
    /\ kind \in Stream =>
         /\ orphan = "none"
         /\ StartsWith(consumed, written[kind])
         /\ wstatus = "exit0" => /\ eof = "seen"
                                 /\ written[kind] = consumed
                                 /\ atEnd[kind] = written[kind]

FInv == LInv /\ DInv /\ InFlow /\ OutFlow /\ FilterFlow

-----------------------------------------------------------------------------
\* Prefixes.

LEMMA PrefixOfConcat ==
  ASSUME NEW S, NEW a \in Seq(S), NEW c \in Seq(S)
  PROVE  StartsWith(a \o c, a)
<1>1. Len(a) \in Nat /\ Len(c) \in Nat
  BY LenProperties
<1>2. a \o c \in Seq(S) /\ Len(a \o c) = Len(a) + Len(c)
  BY ConcatProperties
<1>3. /\ SubSeq(a \o c, 1, Len(a)) \in Seq(S)
      /\ Len(SubSeq(a \o c, 1, Len(a))) = Len(a)
  BY <1>1, <1>2, Cut
<1>4. ASSUME NEW i \in 1..Len(a)
      PROVE  SubSeq(a \o c, 1, Len(a))[i] = a[i]
  <2>1. \A j \in 1..Len(a) : (a \o c)[j] \in S
    BY <1>1, <1>2, ElementOfSeq
  <2>2. SubSeq(a \o c, 1, Len(a))[i] = (a \o c)[i]
    BY <1>1, <2>1, SubSeqProperties
  <2>3. (a \o c)[i] = a[i]
    BY <1>1, ConcatProperties
  <2>4. QED
    BY <2>2, <2>3
<1>5. SubSeq(a \o c, 1, Len(a)) = a
  BY <1>3, <1>4, SeqEqual
<1>6. QED
  BY <1>1, <1>2, <1>5 DEF StartsWith

LEMMA PrefixAndRest ==
  ASSUME NEW S, NEW a \in Seq(S), NEW b \in Seq(S), StartsWith(b, a)
  PROVE  \E c \in Seq(S) : b = a \o c
<1>1. Len(a) \in 0..Len(b)
  BY LenProperties DEF StartsWith
<1>2. /\ SubSeq(b, Len(a) + 1, Len(b)) \in Seq(S)
      /\ SubSeq(b, 1, Len(a)) \o SubSeq(b, Len(a) + 1, Len(b)) = b
  BY <1>1, Cut
<1>3. b = a \o SubSeq(b, Len(a) + 1, Len(b))
  BY <1>2 DEF StartsWith
<1>4. QED
  BY <1>2, <1>3

LEMMA PrefixOfSelf ==
  ASSUME NEW S, NEW a \in Seq(S)
  PROVE  StartsWith(a, a)
<1>1. <<>> \in Seq(S) /\ a \o <<>> = a
  BY EmptySeq, ConcatEmptySeq
<1>2. StartsWith(a \o <<>>, a)
  BY <1>1, PrefixOfConcat
<1>3. QED
  BY <1>1, <1>2

\* A prefix stays one when there is more.
LEMMA PrefixGrows ==
  ASSUME NEW S, NEW a \in Seq(S), NEW b \in Seq(S), NEW d \in Seq(S), StartsWith(b, a)
  PROVE  StartsWith(b \o d, a)
<1>1. PICK c \in Seq(S) : b = a \o c
  BY PrefixAndRest
<1>2. (a \o c) \o d = a \o (c \o d) /\ c \o d \in Seq(S)
  BY ConcatAssociative, ConcatProperties, SMTT(30)
<1>3. StartsWith(a \o (c \o d), a)
  BY <1>2, PrefixOfConcat
<1>4. QED
  BY <1>1, <1>2, <1>3

LEMMA PrefixAppend ==
  ASSUME NEW S, NEW a \in Seq(S), NEW b \in Seq(S), NEW e \in S, StartsWith(b, a)
  PROVE  StartsWith(Append(b, e), a)
<1>1. Append(b, e) = b \o <<e>> /\ <<e>> \in Seq(S)
  BY AppendIsConcat
<1>2. QED
  BY <1>1, PrefixGrows

\* The next element after a prefix makes a longer one.
LEMMA PrefixNext ==
  ASSUME NEW S, NEW a \in Seq(S), NEW b \in Seq(S), StartsWith(b, a), Len(a) < Len(b)
  PROVE  StartsWith(b, Append(a, b[Len(a) + 1]))
<1>. DEFINE n == Len(a)
            e == b[n + 1]
<1>1. n \in Nat /\ Len(b) \in Nat /\ n + 1 \in 1..Len(b)
  BY LenProperties
<1>2. e \in S
  BY <1>1, ElementOfSeq
<1>3. Append(a, e) = a \o <<e>> /\ Len(Append(a, e)) = n + 1
  BY <1>2, AppendIsConcat, AppendProperties
<1>4. SubSeq(b, 1, n + 1) = SubSeq(b, 1, n) \o <<e>>
  <2>1. 1 \in 1..Len(b) /\ n + 1 \in 1..Len(b)
    BY <1>1
  <2>2. SubSeq(b, 1, n + 1) = SubSeq(b, 1, (n + 1) - 1) \o <<b[n + 1]>>
    BY <2>1, SubSeqRecursiveSecond
  <2>3. (n + 1) - 1 = n
    BY <1>1
  <2>4. QED
    BY <2>2, <2>3
<1>5. SubSeq(b, 1, n) = a
  BY DEF StartsWith
<1>6. QED
  BY <1>1, <1>3, <1>4, <1>5 DEF StartsWith

\* A prefix of full length is the whole.
LEMMA PrefixIsAll ==
  ASSUME NEW S, NEW a \in Seq(S), NEW b \in Seq(S), StartsWith(b, a), Len(a) = Len(b)
  PROVE  a = b
BY SubSeqFull DEF StartsWith

-----------------------------------------------------------------------------
\* Writers.

\* Only an open call makes a new writer: fork and the program hand on what
\* there is.
LEMMA WritersOfHost ==
  ASSUME TypeOK, HostRuns, NEW s \in Stream, ~OpenStdio(s), HasWriter(s)'
  PROVE  HasWriter(s)
<1>. SUFFICES ASSUME NEW q \in Proc, <<q, s, "w">> \in open'
              PROVE  <<q, s, "w">> \in open \/ HasWriter(s)
  BY DEF HasWriter
<1>1. ASSUME NEW p \in {"stdin", "stdout", "stderr"}, OpenStdio(p)
      PROVE  <<q, s, "w">> \in open
  BY <1>1 DEF OpenStdio, infra_pipe_open, pipeVars
<1>2. CASE ExecOpen
  BY <1>2 DEF ExecOpen, infra_pipe_open, pipeVars, Stream
<1>3. CASE ExecFork
  <2>1. SUFFICES ASSUME <<q, s, "w">> \notin open
                 PROVE  <<"host", s, "w">> \in open
    BY DEF HasWriter, Proc
  <2>2. PICK fd \in open : fd[1] = "host" /\ <<q, s, "w">> = <<"child", fd[2], fd[3]>>
    BY <1>3, <2>1 DEF ExecFork, HeldBy
  <2>3. fd = <<"host", s, "w">>
    BY <2>2 DEF TypeOK, PipeTypeOK, Fd
  <2>4. QED
    BY <2>3
<1>4. CASE ExecForkFails \/ ExecReadStatus \/ ExecReap \/ Poll \/ Feed \/ GcWait
  BY <1>4 DEF ExecForkFails, ExecReadStatus, ExecReap, Poll, Feed, GcWait, pipeVars
<1>5. CASE ExecCloseWriter \/ ExecFinish \/ ExecReturns \/ FeedDone \/ Gc
  BY <1>5 DEF ExecCloseWriter, ExecFinish, ExecReturns, FeedDone, Gc, CloseHandles,
              infra_pipe_close
<1>6. ASSUME NEW t \in Stream, Receive(t) \/ HandlerEnds(t)
      PROVE  <<q, s, "w">> \in open
  BY <1>6 DEF Receive, HandlerEnds, CloseHandles, infra_pipe_close
<1>7. CASE Options
  BY <1>7 DEF Options, pipeVars
<1>8. QED
  BY <1>1, <1>2, <1>3, <1>4, <1>5, <1>6, <1>7 DEF HostRuns, infra_exec

\* The steps of the program, as far as the streams know them.
LEMMA WritersOfProgram ==
  ASSUME TypeOK, Runs, NEW s \in Pipes, HasWriter(s)'
  PROVE  HasWriter(s)
<1>. SUFFICES ASSUME NEW q \in Proc, <<q, s, "w">> \in open'
              PROVE  <<q, s, "w">> \in open \/ HasWriter(s)
  BY DEF HasWriter
<1>1. CASE ProgLeavesOrphan
  <2>1. SUFFICES ASSUME <<q, s, "w">> \notin open
                 PROVE  <<"child", s, "w">> \in open
    BY DEF HasWriter, Proc
  <2>2. PICK fd \in open : fd[1] = "child" /\ <<q, s, "w">> = <<"orphan", fd[2], fd[3]>>
    BY <1>1, <2>1 DEF ProgLeavesOrphan, HeldBy
  <2>3. fd = <<"child", s, "w">>
    BY <2>2 DEF TypeOK, PipeTypeOK, Fd
  <2>4. QED
    BY <2>3
<1>2. CASE ~ProgLeavesOrphan
  BY <1>2 DEF Runs, ProgramRuns, ProgramMay, ChildExec, ChildExecFails, ChildAborts, Ends,
              ChildEnds, ChildKilled, ProgRead, ProgEof, ProgEcho, ProgWrite, ProgExit,
              ProgSigpipe, OrphanEnds, OrphanWrite, PutBlock
<1>3. QED
  BY <1>1, <1>2

\* A write, a read, or a step that moves no data; the end of the program sets
\* atEnd.
Puts(q, s, b) == /\ PutBlock(q, s, b)
                 /\ \/ q = "child" /\ child = "image"
                    \/ q = "orphan" /\ orphan = "alive"
Quiet == /\ UNCHANGED <<written, consumed>>
         /\ \A p \in Pipes \ {"status"} : buf'[p] = buf[p]
LEMMA RunsFlow ==
  ASSUME TypeOK, Runs
  PROVE  /\ \/ \E s \in Stream, b \in Byte : Puts("child", s, b) \/ Puts("orphan", s, b)
            \/ ProgRead
            \/ Quiet
         /\ \/ UNCHANGED atEnd /\ (wstatus # "none" \/ wstatus' = "none")
            \/ /\ child \in {"forked", "failed", "image"} /\ wstatus' # "none"
               /\ atEnd' = written /\ Quiet
         /\ UNCHANGED <<pc, handle, kind, input, out, result>>
<1>0. buf \in [Pipes -> Seq(Byte \cup Errno)]
  BY DEF TypeOK, PipeTypeOK, BufOK
<1>1. CASE ProgEcho
  <2>1. kind \in Stream /\ Len(written[kind]) < Len(consumed)
    BY <1>1 DEF ProgEcho
  <2>2. Len(written[kind]) \in Nat /\ Len(consumed) \in Nat /\ consumed \in Seq(Byte)
    BY <2>1, LenProperties DEF TypeOK, ProgramTypeOK
  <2>3. consumed[Len(written[kind]) + 1] \in Byte
    BY <2>1, <2>2, ElementOfSeq
  <2>4. QED
    BY <1>1, <2>1, <2>3, RunsKeepsHost DEF ProgEcho, Puts, PutBlock, TypeOK, ExecTypeOK
<1>2. ASSUME NEW s \in Stream, NEW b \in Byte, ProgWrite(s, b) \/ OrphanWrite(s, b)
      PROVE  /\ Puts("child", s, b) \/ Puts("orphan", s, b)
             /\ UNCHANGED <<atEnd, wstatus, kind>>
  BY <1>2 DEF ProgWrite, OrphanWrite, Puts, PutBlock
<1>3. CASE ProgRead
  BY <1>3, RunsKeepsHost DEF ProgRead
<1>4. CASE \/ (\E e \in Errno : ChildExecFails(e)) /\ UNCHANGED progVars
           \/ ChildExec /\ UNCHANGED progVars
           \/ ProgEof \/ ProgLeavesOrphan \/ OrphanEnds
  <2>1. Quiet /\ UNCHANGED <<atEnd, wstatus, kind>>
    BY <1>0, <1>4 DEF Quiet, ChildExecFails, uv__write_int, ChildExec, progVars, ProgEof,
                      ProgLeavesOrphan, OrphanEnds, Pipes
  <2>2. QED
    BY <2>1, RunsKeepsHost
<1>5. CASE ((ChildAborts \/ ChildKilled) /\ LastWords) \/ ProgExit \/ ProgSigpipe
  <2>1. /\ Quiet /\ atEnd' = written /\ wstatus' # "none" /\ UNCHANGED kind
        /\ child \in {"forked", "failed", "image"}
    BY <1>5 DEF Quiet, ChildAborts, ChildKilled, ChildEnds, LastWords, ProgExit, ProgSigpipe,
                Ends
  <2>2. QED
    BY <2>1, RunsKeepsHost
<1>6. QED
  BY <1>1, <1>2, <1>3, <1>4, <1>5, RunsKeepsHost DEF Runs, ProgramRuns, ProgramMay

-----------------------------------------------------------------------------
\* The input.

LEMMA InFlowRuns ==
  ASSUME LInv, DInv, InFlow, Runs
  PROVE  InFlow'
<1>. USE DEF LInv, DInv, TInv
<1>0. UNCHANGED <<pc, handle, input, result>>
  BY RunsKeepsHost
<1>1. CASE ProgEof
  <2>1. child = "image" /\ child' = "image" /\ UNCHANGED <<buf, consumed>>
    BY <1>1 DEF ProgEof
  <2>2. /\ buf["stdin"] = <<>> /\ ~HasWriter("stdin")
    BY <1>1 DEF ProgEof, infra_pipe_read
  <2>3. <<"host", "stdin", "w">> \notin open
    BY <2>2 DEF HasWriter, Proc
  <2>4. <<"stdin", "w">> \notin handle
    BY <2>3 DEF HandlesAreOpen, Pipes, End
  <2>5. pc \notin {"options", "open_stdin"} /\ pc \notin {"done", "aborted"}
    BY <1>1, <2>1 DEF Runs, Untouched, Life, Reaped, NotYet
  <2>6. ASSUME result # "raised"
        PROVE  consumed = Input
    <3>1. pc \notin GivenUp
      BY <2>5, <2>6 DEF InFlow, GivenUp
    <3>2. input = <<>>
      BY <2>4, <2>5, <3>1 DEF InFlow
    <3>3. Input = (consumed \o <<>>) \o <<>>
      BY <2>2, <3>1, <3>2 DEF InputIsFaithful, GivenUp
    <3>4. consumed \o <<>> = consumed
      BY ConcatEmptySeq DEF TypeOK, ProgramTypeOK
    <3>5. QED
      BY <3>3, <3>4
  <2>7. QED
    BY <1>0, <2>1, <2>2, <2>4, <2>6 DEF InFlow
<1>2. CASE ~ProgEof
  <2>1. UNCHANGED eof
    BY <1>2 DEF Runs, ProgramRuns, ProgramMay, ChildExec, ChildExecFails, ChildAborts, Ends,
                ChildEnds, ChildKilled, LastWords, progVars, ProgRead, ProgEcho, ProgWrite, ProgExit, ProgSigpipe,
                ProgLeavesOrphan, OrphanEnds, OrphanWrite, PutBlock
  <2>2. child' \in {"none", "forked", "failed"} => child \in {"none", "forked", "failed"}
    BY RunsLife DEF Begins, Fails, Dies, Lives
  <2>3. ASSUME eof = "seen", result # "raised"
        PROVE  UNCHANGED consumed /\ buf'["stdin"] = buf["stdin"]
    <3>1. buf["stdin"] = <<>>
      BY <2>3 DEF InFlow
    <3>2. ~ProgRead
      BY <3>1 DEF ProgRead, infra_pipe_read
    <3>3. ASSUME NEW q, NEW s \in Stream, NEW b, Puts(q, s, b)
          PROVE  UNCHANGED consumed /\ buf'["stdin"] = buf["stdin"]
      BY <3>3 DEF Puts, PutBlock, Stream, Pipes, TypeOK, PipeTypeOK, BufOK
    <3>4. QED
      BY <3>2, <3>3, RunsFlow DEF Quiet, Pipes
  <2>4. QED
    BY <1>0, <2>1, <2>2, <2>3 DEF InFlow
<1>3. QED
  BY <1>1, <1>2

LEMMA InFlowHost ==
  ASSUME LInv, DInv, InFlow, HostRuns
  PROVE  InFlow'
<1>. USE DEF LInv, DInv, TInv, InFlow, GivenUp, exchangeVars, progVars, pipeVars
<1>1. ASSUME NEW p \in {"stdin", "stdout", "stderr"}, OpenStdio(p)
      PROVE  InFlow'
  <2>1. pc \in {"open_stdin", "open_stdout", "open_stderr"} /\ child = "none" /\ eof = "ahead"
    BY <1>1 DEF OpenStdio, OpenAt, Untouched
  <2>2. CASE pc' = "aborted"
    BY <1>1, <2>1, <2>2 DEF OpenStdio
  <2>3. CASE pc' # "aborted"
    <3>1. handle' = handle \cup {<<p, "r">>, <<p, "w">>} /\ pc' = OpenAt[p][2]
      BY <1>1, <2>3, ErrnoIsFatal DEF OpenStdio
    <3>2. <<"stdin", "w">> \in handle' \/ input' = <<>>
      BY <1>1, <2>1, <3>1 DEF OpenStdio, OpenAt
    <3>3. pc' \notin {"raised", "gc_wait"}
      BY <3>1 DEF OpenAt
    <3>4. QED
      BY <1>1, <2>1, <3>1, <3>2, <3>3 DEF OpenStdio
  <2>4. QED
    BY <2>2, <2>3
<1>2. CASE infra_exec /\ UNCHANGED exchangeVars
  <2>1. pc \in ExecPc /\ pc' \in ExecPc \cup {"aborted"}
    BY <1>2 DEF infra_exec, ExecOpen, ExecFork, ExecForkFails, ExecCloseWriter, ExecReadStatus,
                ExecReap, ExecFinish, ExecPc, Abort, EAGAIN, ENOENT, ETIMEDOUT,
                infra_translate_sys_error
  <2>2. <<"stdin", "w">> \in handle' <=> <<"stdin", "w">> \in handle
    BY <1>2 DEF infra_exec, ExecOpen, ExecFork, ExecForkFails, ExecCloseWriter, ExecReadStatus,
                ExecReap, ExecFinish, CloseHandles
  <2>3. buf'["stdin"] = buf["stdin"]
    BY <1>2 DEF infra_exec, ExecOpen, ExecFork, ExecForkFails, ExecCloseWriter, ExecReadStatus,
                ExecReap, ExecFinish, infra_pipe_open, Pipes, TypeOK, PipeTypeOK, BufOK
  <2>4. child' \in {"none", "forked", "failed"} => child \in {"none", "forked", "failed"}
    <3>1. CASE ExecFork
      BY <3>1 DEF ExecFork, Untouched
    <3>2. CASE ~ExecFork
      BY <1>2, <3>2 DEF infra_exec, ExecOpen, ExecForkFails, ExecCloseWriter,
                        ExecReadStatus, ExecReap, ExecFinish
    <3>3. QED
      BY <3>1, <3>2
  <2>5. QED
    BY <1>2, <2>1, <2>2, <2>3, <2>4 DEF ExecPc
<1>3. CASE ExecReturns
  <2>1. /\ <<"stdin", "w">> \in handle' <=> <<"stdin", "w">> \in handle
        /\ UNCHANGED <<buf, child, eof, consumed, input>>
        /\ pc' \in {"exchange", "raised", "aborted"}
        /\ pc' = "raised" => result' = "raised"
        /\ pc' # "raised" => result' = result
    BY <1>3 DEF ExecReturns, CloseHandles, ProgramEnds, infra_raise_error, Abort, ResultIfRaised
  <2>2. pc = "exec_return"
    BY <1>3 DEF ExecReturns
  <2>3. result # "raised"
    BY <2>2 DEF Unwound
  <2>4. QED
    BY <2>1, <2>2, <2>3
<1>4. CASE Poll
  <2>1. result # "raised" /\ pc = "exchange"
    BY <1>4 DEF Poll, Unwound
  <2>2. pc' \in {"feed", "drain_stdout", "aborted"} /\ UNCHANGED <<buf, handle, eof, consumed, input>>
    BY <1>4 DEF Poll, waitpid, AfterExit, Abort
  <2>3. child' \in {"none", "forked", "failed"} => child \in {"none", "forked", "failed"}
    BY <1>4 DEF Poll, waitpid, Reap
  <2>4. QED
    BY <2>1, <2>2, <2>3
<1>5. CASE Feed
  BY <1>5 DEF Feed, Abort
<1>6. CASE FeedDone
  BY <1>6 DEF FeedDone, CloseHandles
<1>7. ASSUME NEW s \in Stream, Receive(s) \/ HandlerEnds(s)
      PROVE  InFlow'
  <2>1. /\ pc \in Drains \cup {"stdout", "stderr"}
        /\ pc' \in Drains \cup {"stdout", "stderr", "exchange", "returned", "raised"}
        /\ pc' = "raised" => result' = "raised"
        /\ pc' # "raised" => result' = result
    BY <1>7 DEF Receive, HandlerEnds, HandlerPc, After, Stream, Drains, ResultIfRaised
  <2>2. result # "raised"
    BY <2>1 DEF Unwound, Drains
  <2>3. /\ UNCHANGED <<child, eof, consumed, input>> /\ buf'["stdin"] = buf["stdin"]
        /\ <<"stdin", "w">> \in handle' <=> <<"stdin", "w">> \in handle
    BY <1>7 DEF Receive, HandlerEnds, CloseHandles, Stream, Pipes, TypeOK, PipeTypeOK, BufOK
  <2>4. QED
    BY <2>1, <2>2, <2>3 DEF Drains
<1>8. CASE Gc
  <2>1. hProcess = "pid" => result = "raised"
    BY <1>8 DEF Gc, Life, Ending, Reaped
  <2>2. QED
    BY <1>8, <2>1 DEF Gc, CloseHandles
<1>9. CASE GcWait
  <2>1. result = "raised" /\ pc' \in {"done", "aborted"} /\ UNCHANGED <<eof, result>>
    BY <1>9 DEF GcWait, Abort
  <2>2. child' \in {"none", "forked", "failed"} => child \in {"none", "forked", "failed"}
    BY <1>9 DEF GcWait, Reap
  <2>3. QED
    BY <2>1, <2>2
<1>10. CASE Options
  BY <1>10 DEF Options, Untouched, ResultIfRaised
<1>11. QED
  BY <1>1, <1>2, <1>3, <1>4, <1>5, <1>6, <1>7, <1>8, <1>9, <1>10 DEF HostRuns

-----------------------------------------------------------------------------
\* The output.

LEMMA OutFlowRuns ==
  ASSUME LInv, OutFlow, Runs
  PROVE  OutFlow'
<1>. USE DEF LInv, TInv
<1>0. UNCHANGED <<pc, handle, out>>
  BY RunsFlow
<1>. SUFFICES ASSUME NEW s \in Stream
              PROVE  /\ pc \notin Unopened(s) \cup GivenUp => <<s, "r">> \in handle \/ Dry(s)'
                     /\ wstatus' # "none" => StartsWith(written'[s], atEnd'[s])
                     /\ pc \in Collected(s) => StartsWith(out[s], atEnd'[s])
  BY <1>0 DEF OutFlow, Dry, HasWriter
<1>1. s \in Pipes \ {"status"} /\ written[s] \in Seq(Byte) /\ atEnd[s] \in Seq(Byte)
  BY DEF Stream, Pipes, TypeOK, ProgramTypeOK
<1>2. ASSUME Dry(s)
      PROVE  Dry(s)'
  <2>1. ~HasWriter(s)'
    BY <1>1, <1>2, WritersOfProgram DEF Dry
  <2>2. ASSUME NEW q \in Proc, NEW t \in Stream, NEW b, PutBlock(q, t, b)
        PROVE  buf'[s] = buf[s]
    <3>1. t # s
      BY <1>2, <2>2 DEF PutBlock, Dry, HasWriter
    <3>2. QED
      BY <1>1, <2>2, <3>1 DEF PutBlock, TypeOK, PipeTypeOK, BufOK
  <2>3. ASSUME ProgRead
        PROVE  buf'[s] = buf[s]
    BY <1>1, <2>3 DEF ProgRead, Stream, TypeOK, PipeTypeOK, BufOK
  <2>4. buf'[s] = buf[s]
    BY <1>1, <2>2, <2>3, RunsFlow DEF Puts, Quiet, Proc
  <2>5. QED
    BY <1>2, <2>1, <2>4 DEF Dry
<1>3. CASE UNCHANGED atEnd /\ (wstatus # "none" \/ wstatus' = "none")
  <2>1. ASSUME NEW q, NEW t \in Stream, NEW b \in Byte, PutBlock(q, t, b),
               StartsWith(written[s], atEnd[s])
        PROVE  StartsWith(written'[s], atEnd[s])
    <3>1. written'[s] = IF s = t THEN Append(written[s], b) ELSE written[s]
      BY <2>1 DEF PutBlock, TypeOK, ProgramTypeOK
    <3>2. StartsWith(Append(written[s], b), atEnd[s])
      BY <1>1, <2>1, PrefixAppend
    <3>3. QED
      BY <2>1, <3>1, <3>2
  <2>2. ASSUME StartsWith(written[s], atEnd[s])
        PROVE  StartsWith(written'[s], atEnd[s])
    BY <2>1, <2>2, RunsFlow DEF Puts, Quiet, ProgRead
  <2>3. QED
    BY <1>2, <1>3, <2>2 DEF OutFlow
<1>4. CASE /\ child \in {"forked", "failed", "image"} /\ wstatus' # "none"
           /\ atEnd' = written /\ Quiet
  <2>1. StartsWith(written'[s], atEnd'[s])
    BY <1>1, <1>4, PrefixOfSelf DEF Quiet
  <2>2. pc \notin Collected(s)
    BY <1>4 DEF Life, Ending, Drains, Reaped, Collected
  <2>3. QED
    BY <1>2, <2>1, <2>2 DEF OutFlow
<1>5. QED
  BY <1>3, <1>4, RunsFlow

\* The handler of s finds nothing more: the call has all that was written.
LEMMA HandlerEndsDry ==
  ASSUME LInv, DInv, OutFlow, NEW s \in Stream, HandlerEnds(s)
  PROVE  /\ buf[s] = <<>> /\ written[s] = out[s]
         /\ <<s, "r">> \in handle' \/ Dry(s)
<1>. USE DEF LInv, DInv, TInv
<1>1. pc \in HandlerPc(s) /\ pc \notin Unopened(s) \cup GivenUp /\ result # "raised"
  BY DEF HandlerEnds, HandlerPc, Unopened, GivenUp, Unwound
<1>2. buf[s] = <<>>
  BY <1>1 DEF HandlerEnds, infra_pipe_read, OutFlow, Dry
<1>3. written[s] = out[s] \o <<>>
  BY <1>1, <1>2 DEF OutputIsFaithful
<1>4. out[s] \o <<>> = out[s]
  BY ConcatEmptySeq DEF TypeOK
<1>5. <<s, "r">> \in handle' \/ Dry(s)
  BY <1>1, <1>2 DEF HandlerEnds, infra_pipe_read, OutFlow, Dry
<1>6. QED
  BY <1>2, <1>3, <1>4, <1>5

LEMMA OutFlowHost ==
  ASSUME LInv, DInv, OutFlow, HostRuns
  PROVE  OutFlow'
<1>. USE DEF LInv, DInv, TInv, exchangeVars, progVars, pipeVars
<1>0. UNCHANGED <<wstatus, written, atEnd>>
  BY DEF HostRuns, Options, OpenStdio, infra_exec, ExecOpen, ExecFork, ExecForkFails, ExecCloseWriter,
         ExecReadStatus, ExecReap, ExecFinish, ExecReturns, Poll, Feed, FeedDone, Receive,
         HandlerEnds, Gc, GcWait
<1>. SUFFICES ASSUME NEW s \in Stream
              PROVE  /\ pc' \notin Unopened(s) \cup GivenUp => <<s, "r">> \in handle' \/ Dry(s)'
                     /\ pc' \in Collected(s) => StartsWith(out'[s], atEnd[s])
  BY <1>0 DEF OutFlow
<1>1. /\ s \in Pipes \ {"status", "stdin"} /\ buf \in [Pipes -> Seq(Byte \cup Errno)]
      /\ out \in [Stream -> Seq(Byte)]
  BY DEF Stream, Pipes, TypeOK, PipeTypeOK, BufOK
<1>2. ASSUME ~OpenStdio(s), buf'[s] = buf[s], Dry(s)
      PROVE  Dry(s)'
  BY <1>2, WritersOfHost DEF Dry
<1>3. ASSUME NEW p \in {"stdin", "stdout", "stderr"}, OpenStdio(p)
      PROVE  /\ pc' \notin Unopened(s) \cup GivenUp => <<s, "r">> \in handle' \/ Dry(s)'
             /\ pc' \in Collected(s) => StartsWith(out'[s], atEnd[s])
  <2>1. CASE pc' = "aborted"
    BY <2>1 DEF GivenUp, Collected
  <2>2. CASE pc' # "aborted"
    <3>1. /\ handle' = handle \cup {<<p, "r">>, <<p, "w">>} /\ pc' = OpenAt[p][2]
          /\ infra_pipe_open("host", p, StdioFlags(p, "r"), StdioFlags(p, "w"))
          /\ pc = OpenAt[p][1]
      BY <1>3, <2>2, ErrnoIsFatal DEF OpenStdio
    <3>2. pc' \notin Collected(s)
      BY <3>1 DEF OpenAt, Collected
    <3>3. CASE p = s
      BY <3>1, <3>2, <3>3
    <3>4. CASE p # s
      <4>1. buf'[s] = buf[s] /\ ~OpenStdio(s)
        BY <1>1, <3>1, <3>4 DEF infra_pipe_open, OpenStdio, OpenAt, Stream
      <4>2. pc' \notin Unopened(s) \cup GivenUp => pc \notin Unopened(s) \cup GivenUp
        BY <3>1, <3>4 DEF OpenAt, Unopened, GivenUp, Stream
      <4>3. QED
        BY <1>2, <3>1, <3>2, <4>1, <4>2 DEF OutFlow
    <3>5. QED
      BY <3>3, <3>4
  <2>3. QED
    BY <2>1, <2>2
<1>4. ASSUME NEW t \in Stream, HandlerEnds(t)
      PROVE  /\ pc' \notin Unopened(s) \cup GivenUp => <<s, "r">> \in handle' \/ Dry(s)'
             /\ pc' \in Collected(s) => StartsWith(out'[s], atEnd[s])
  <2>1. /\ pc \notin Unopened(s) \cup GivenUp /\ ~OpenStdio(s) /\ UNCHANGED <<buf, out>>
        /\ handle' \in {handle, handle \ {<<t, "r">>}}
    BY <1>4 DEF HandlerEnds, HandlerPc, Stream, Unopened, GivenUp, OpenStdio, OpenAt,
                CloseHandles
  <2>2. <<s, "r">> \in handle' \/ Dry(s)
    <3>1. CASE t = s
      BY <1>4, <3>1, HandlerEndsDry
    <3>2. CASE t # s
      BY <2>1, <3>2 DEF OutFlow
    <3>3. QED
      BY <3>1, <3>2
  <2>3. <<s, "r">> \in handle' \/ Dry(s)'
    BY <1>2, <2>1, <2>2
  <2>4. ASSUME pc' \in Collected(s)
        PROVE  StartsWith(out[s], atEnd[s])
    <3>1. CASE t = s
      <4>1. written[s] = out[s]
        BY <1>4, <3>1, HandlerEndsDry
      <4>2. pc \in Ending
        BY <1>4, <2>4 DEF HandlerEnds, HandlerPc, After, Stream, Collected, Ending, Drains
      <4>3. wstatus # "none"
        BY <4>2 DEF Life, Reaped
      <4>4. QED
        BY <4>1, <4>3 DEF OutFlow
    <3>2. CASE t # s
      <4>1. pc \in Collected(s)
        BY <1>4, <2>4, <3>2 DEF HandlerEnds, HandlerPc, After, Stream, Drains, Collected
      <4>2. QED
        BY <4>1 DEF OutFlow
    <3>3. QED
      BY <3>1, <3>2
  <2>5. QED
    BY <2>1, <2>3, <2>4
<1>5. ASSUME NEW t \in Stream, Receive(t)
      PROVE  /\ pc' \notin Unopened(s) \cup GivenUp => <<s, "r">> \in handle' \/ Dry(s)'
             /\ pc' \in Collected(s) => StartsWith(out'[s], atEnd[s])
  <2>1. /\ pc \notin Unopened(s) \cup GivenUp /\ ~OpenStdio(s) /\ UNCHANGED handle
        /\ <<t, "r">> \in handle
    BY <1>5 DEF Receive, HandlerPc, Stream, Unopened, GivenUp, OpenStdio, OpenAt
  <2>2. <<s, "r">> \in handle' \/ Dry(s)'
    <3>1. CASE t = s
      BY <2>1, <3>1
    <3>2. CASE t # s
      <4>1. buf'[s] = buf[s]
        BY <1>1, <1>5, <3>2 DEF Receive
      <4>2. QED
        BY <1>2, <2>1, <4>1 DEF OutFlow
    <3>3. QED
      BY <3>1, <3>2
  <2>3. ASSUME pc' \in Collected(s)
        PROVE  StartsWith(out'[s], atEnd[s])
    <3>1. pc \in Collected(s) /\ t # s
      BY <1>5, <2>3 DEF Receive, HandlerPc, Stream, Collected
    <3>2. out'[s] = out[s]
      BY <1>1, <1>5, <3>1 DEF Receive
    <3>3. QED
      BY <3>1, <3>2 DEF OutFlow
  <2>4. QED
    BY <2>2, <2>3
<1>6. ASSUME pc \notin BeforeFork \ {"exec_open", "fork"},
             pc' \in ExecPc \cup Exchanging \cup GivenUp \cup {"drain_stdout", "raised"},
             pc' \notin GivenUp => pc \notin GivenUp,
             pc' \notin GivenUp => UNCHANGED out /\ buf'[s] = buf[s],
             pc' \notin GivenUp => (<<s, "r">> \in handle => <<s, "r">> \in handle')
      PROVE  /\ pc' \notin Unopened(s) \cup GivenUp => <<s, "r">> \in handle' \/ Dry(s)'
             /\ pc' \in Collected(s) => StartsWith(out'[s], atEnd[s])
  <2>1. pc \notin Unopened(s) /\ ~OpenStdio(s) /\ pc' \notin Collected(s)
    BY <1>6 DEF BeforeFork, Unopened, OpenStdio, OpenAt, Collected, ExecPc, Exchanging, GivenUp,
                Stream
  <2>2. ASSUME pc' \notin GivenUp
        PROVE  <<s, "r">> \in handle' \/ Dry(s)'
    <3>1. pc \notin GivenUp /\ buf'[s] = buf[s]
      BY <1>6, <2>2
    <3>2. <<s, "r">> \in handle \/ Dry(s)
      BY <2>1, <3>1 DEF OutFlow
    <3>3. CASE <<s, "r">> \in handle
      BY <1>6, <2>2, <3>3
    <3>4. CASE Dry(s)
      BY <1>2, <2>1, <3>1, <3>4
    <3>5. QED
      BY <3>2, <3>3, <3>4
  <2>3. QED
    BY <2>1, <2>2
<1>7. CASE infra_exec /\ UNCHANGED exchangeVars
  <2>1. pc \in ExecPc /\ pc' \in ExecPc \cup {"aborted"}
    BY <1>7 DEF infra_exec, ExecOpen, ExecFork, ExecForkFails, ExecCloseWriter, ExecReadStatus,
                ExecReap, ExecFinish, ExecPc, Abort, EAGAIN, ENOENT, ETIMEDOUT,
                infra_translate_sys_error
  <2>2. buf'[s] = buf[s] /\ (<<s, "r">> \in handle => <<s, "r">> \in handle')
    BY <1>1, <1>7 DEF infra_exec, ExecOpen, ExecFork, ExecForkFails, ExecCloseWriter, ExecReadStatus,
                ExecReap, ExecFinish, CloseHandles, infra_pipe_open
  <2>3. QED
    BY <1>6, <1>7, <2>1, <2>2 DEF ExecPc, GivenUp, BeforeFork
<1>8. CASE ExecReturns
  BY <1>1, <1>6, <1>8 DEF ExecReturns, CloseHandles, ProgramEnds, infra_raise_error, Abort, BeforeFork,
                    ExecPc, Exchanging, GivenUp
<1>9. CASE Poll
  BY <1>6, <1>9 DEF Poll, waitpid, AfterExit, Abort, BeforeFork, Exchanging, GivenUp
<1>10. CASE Feed \/ FeedDone
  BY <1>1, <1>6, <1>10 DEF Feed, FeedDone, CloseHandles, Abort, BeforeFork, Exchanging, GivenUp
<1>11. CASE Gc \/ GcWait
  BY <1>6, <1>11 DEF Gc, GcWait, Abort, BeforeFork, GivenUp
<1>12. CASE Options
  BY <1>12 DEF Options, Unopened, GivenUp, Collected
<1>13. QED
  BY <1>3, <1>4, <1>5, <1>7, <1>8, <1>9, <1>10, <1>11, <1>12 DEF HostRuns

-----------------------------------------------------------------------------
\* The filters.

LEMMA FilterFlowRuns ==
  ASSUME LInv, FilterFlow, Runs
  PROVE  FilterFlow'
<1>. USE DEF LInv, TInv
<1>0. /\ UNCHANGED kind
      /\ child' \in {"none", "forked", "failed"} => child \in {"none", "forked", "failed"}
  BY RunsLife, RunsFlow DEF Begins, Fails, Dies, Lives
<1>1. CASE UNCHANGED orphan /\ kind \notin Stream
  BY <1>0, <1>1 DEF FilterFlow
<1>2. CASE ProgLeavesOrphan \/ OrphanEnds \/ \E s \in Stream, b \in Byte : OrphanWrite(s, b)
  <2>1. kind \notin Stream
    BY <1>2 DEF FilterFlow, ProgLeavesOrphan, OrphanEnds, OrphanWrite, Stream
  <2>2. UNCHANGED child /\ (UNCHANGED orphan \/ child \notin {"none", "forked", "failed"})
    BY <1>2 DEF FilterFlow, ProgLeavesOrphan, OrphanEnds, OrphanWrite, PutBlock
  <2>3. QED
    BY <1>0, <2>1, <2>2 DEF FilterFlow
<1>3. ASSUME child = "image" \/ wstatus' # "exit0", kind \in Stream,
             UNCHANGED <<orphan, wstatus>>, StartsWith(consumed', written'[kind])
      PROVE  FilterFlow'
  BY <1>0, <1>3 DEF FilterFlow, Life
<1>4. ASSUME kind \in Stream
      PROVE  /\ written[kind] \in Seq(Byte) /\ consumed \in Seq(Byte)
             /\ Len(written[kind]) \in Nat /\ Len(consumed) \in Nat
             /\ StartsWith(consumed, written[kind]) /\ orphan = "none"
  BY <1>4, LenProperties DEF TypeOK, ProgramTypeOK, FilterFlow
<1>5. CASE ProgEcho
  <2>1. /\ kind \in Stream /\ Len(written[kind]) < Len(consumed) /\ child = "image"
        /\ PutBlock("child", kind, consumed[Len(written[kind]) + 1])
    BY <1>5 DEF ProgEcho
  <2>2. /\ written'[kind] = Append(written[kind], consumed[Len(written[kind]) + 1])
        /\ UNCHANGED <<orphan, wstatus, consumed>>
    BY <2>1 DEF PutBlock, TypeOK, ProgramTypeOK
  <2>3. StartsWith(consumed, Append(written[kind], consumed[Len(written[kind]) + 1]))
    BY <1>4, <2>1, PrefixNext
  <2>4. QED
    BY <1>3, <2>1, <2>2, <2>3
<1>6. CASE ProgRead /\ kind \in Stream
  <2>1. /\ child = "image" /\ consumed' = Append(consumed, Head(buf["stdin"]))
        /\ UNCHANGED <<orphan, wstatus, written>>
        /\ buf["stdin"] # <<>>
    BY <1>6 DEF ProgRead, infra_pipe_read
  <2>2. Head(buf["stdin"]) \in Byte
    BY <2>1, CutHead DEF TypeOK, PipeTypeOK, BufOK, Pipes, Content
  <2>3. StartsWith(Append(consumed, Head(buf["stdin"])), written[kind])
    BY <1>4, <1>6, <2>2, PrefixAppend
  <2>4. QED
    BY <1>3, <1>6, <2>1, <2>3
<1>7. CASE ProgExit /\ kind \in Stream
  <2>1. /\ eof = "seen" /\ Len(written[kind]) = Len(consumed) /\ Ends("exit0")
    BY <1>7 DEF ProgExit, Stream
  <2>2. written[kind] = consumed
    BY <1>4, <1>7, <2>1, PrefixIsAll
  <2>3. UNCHANGED <<orphan, eof, written, consumed>> /\ atEnd' = written
    BY <2>1 DEF Ends, LastWords
  <2>4. QED
    BY <1>0, <1>4, <1>7, <2>1, <2>2, <2>3 DEF FilterFlow
<1>8. CASE ((ChildAborts \/ ChildKilled) /\ LastWords) \/ ProgSigpipe
  <2>1. wstatus' \in {"signal", "abort"} /\ UNCHANGED <<orphan, consumed, written>>
    BY <1>8 DEF ChildAborts, ChildKilled, ChildEnds, ProgSigpipe, Ends, LastWords
  <2>2. QED
    BY <1>0, <1>4, <2>1 DEF FilterFlow
<1>9. CASE \/ (\E e \in Errno : ChildExecFails(e)) /\ UNCHANGED progVars
           \/ ChildExec /\ UNCHANGED progVars
           \/ ProgEof
  <2>1. /\ UNCHANGED <<orphan, consumed, written, wstatus>>
        /\ child = "image" \/ child = "forked"
    BY <1>9 DEF progVars, ProgEof, ChildExec, ChildExecFails
  <2>2. wstatus' # "exit0"
    BY <2>1 DEF Life
  <2>3. CASE kind \in Stream
    BY <1>3, <1>4, <2>1, <2>2, <2>3
  <2>4. QED
    BY <1>1, <2>1, <2>3
<1>10. CASE kind \notin Stream /\ (ProgRead \/ ProgExit)
  BY <1>1, <1>10 DEF ProgRead, ProgExit, Ends, LastWords
<1>11. ASSUME NEW s \in Stream, NEW b \in Byte, ProgWrite(s, b)
       PROVE  FilterFlow'
  <2>1. kind \notin Stream /\ UNCHANGED orphan
    BY <1>11 DEF ProgWrite, PutBlock, Stream
  <2>2. QED
    BY <1>1, <2>1
<1>12. QED
  BY <1>2, <1>5, <1>6, <1>7, <1>8, <1>9, <1>10, <1>11 DEF Runs, ProgramRuns, ProgramMay

LEMMA FilterFlowHost ==
  ASSUME LInv, FilterFlow, HostRuns
  PROVE  FilterFlow'
<1>1. UNCHANGED <<kind, consumed, eof, written, atEnd, orphan, wstatus>>
  BY DEF HostRuns, Options, OpenStdio, infra_exec, ExecOpen, ExecFork, ExecForkFails, ExecCloseWriter,
         ExecReadStatus, ExecReap, ExecFinish, ExecReturns, Poll, Feed, FeedDone, Receive,
         HandlerEnds, Gc, GcWait, exchangeVars, progVars
<1>2. child' \in {"none", "forked", "failed"} => child \in {"none", "forked", "failed"}
  <2>1. CASE ExecFork
    BY <2>1 DEF ExecFork, LInv, TInv, Untouched
  <2>2. CASE ~ExecFork
    BY <2>2 DEF HostRuns, Options, OpenStdio, infra_exec, ExecOpen, ExecForkFails, ExecCloseWriter,
         ExecReadStatus, ExecReap, ExecFinish, ExecReturns, Poll, waitpid, Reap, Feed, FeedDone,
         Receive, HandlerEnds, Gc, GcWait
  <2>3. QED
    BY <2>1, <2>2
<1>3. QED
  BY <1>1, <1>2 DEF FilterFlow

-----------------------------------------------------------------------------
\* The invariant and what it means.

LEMMA FlowInit == Init => InFlow /\ OutFlow /\ FilterFlow
<1>. SUFFICES ASSUME Init PROVE InFlow /\ OutFlow /\ FilterFlow
  OBVIOUS
<1>. USE DEF Init, PipeInit, ExecInit, ProgramInit
<1>1. InFlow
  BY DEF InFlow, GivenUp
<1>2. OutFlow
  BY DEF OutFlow, Unopened, GivenUp, Collected
<1>3. FilterFlow
  <2>1. <<>> \in Seq(Byte)
    BY EmptySeq
  <2>2. StartsWith(<<>>, <<>>)
    BY <2>1, PrefixOfSelf
  <2>3. QED
    BY <2>2 DEF FilterFlow
<1>4. QED
  BY <1>1, <1>2, <1>3

LEMMA FlowStep == FInv /\ [Next]_vars => InFlow' /\ OutFlow' /\ FilterFlow'
<1>. SUFFICES ASSUME FInv, [Next]_vars
              PROVE  InFlow' /\ OutFlow' /\ FilterFlow'
  OBVIOUS
<1>1. CASE UNCHANGED vars \/ Stopped
  BY <1>1 DEF FInv, Stopped, vars, pipeVars, execVars, progVars, InFlow, OutFlow, FilterFlow,
              Dry, HasWriter
<1>2. CASE HostRuns
  BY <1>2, InFlowHost, OutFlowHost, FilterFlowHost DEF FInv
<1>3. CASE Runs
  BY <1>3, InFlowRuns, OutFlowRuns, FilterFlowRuns DEF FInv
<1>4. QED
  BY <1>1, <1>2, <1>3 DEF Next

LEMMA FlowInv == Spec => []FInv
<1>1. Init /\ LInv /\ DInv => FInv
  BY FlowInit DEF FInv
<1>2. FInv /\ [Next]_vars /\ LInv' /\ DInv' => FInv'
  BY FlowStep DEF FInv
<1>3. QED
  BY <1>1, <1>2, LifeInv, DataInv, PTL DEF Spec

\* The program finds the end of its input only after all of opt.stdin, however
\* the writes were cut, unless the call has failed.
THEOREM EofCorrect == Spec => []EofAfterInput
<1>1. FInv => EofAfterInput
  BY DEF FInv, InFlow, EofAfterInput
<1>2. QED
  BY <1>1, FlowInv, PTL

\* When the call returns it has everything the program wrote before it ended,
\* whatever the last turn of the loop had left in the pipes.
THEOREM ReturnCorrect == Spec => []ReturnsAllOutput
<1>1. FInv => ReturnsAllOutput
  BY DEF FInv, OutFlow, Collected, StartsWith, ReturnsAllOutput
<1>2. QED
  BY <1>1, FlowInv, PTL

\* A filter that exits by itself has the whole of its input returned.
THEOREM EchoCorrect == Spec => []FilterIsEchoed
<1>1. FInv => FilterIsEchoed
  <2>1. SUFFICES ASSUME FInv, pc = "returned", kind \in Stream, wstatus = "exit0"
                 PROVE  out[kind] = Input
    BY DEF FilterIsEchoed
  <2>. USE DEF FInv, DInv, TInv
  <2>2. result # "raised"
    BY <2>1 DEF Unwound
  <2>3. /\ eof = "seen" /\ written[kind] = consumed /\ atEnd[kind] = written[kind]
        /\ consumed = Input
    BY <2>1, <2>2 DEF FilterFlow, InFlow
  <2>4. StartsWith(out[kind], Input)
    BY <2>1, <2>3 DEF OutFlow, Collected
  <2>5. Input = out[kind] \o buf[kind]
    BY <2>1, <2>2, <2>3 DEF OutputIsFaithful
  <2>6. out[kind] \in Seq(Byte) /\ buf[kind] \in Seq(Byte) /\ Input \in Seq(Byte)
    BY <2>1, InputAssumption DEF TypeOK, PipeTypeOK, BufOK, Content, Pipes, Stream
  <2>7. StartsWith(Input, out[kind])
    BY <2>5, <2>6, PrefixOfConcat
  <2>8. Len(out[kind]) = Len(Input)
    BY <2>4, <2>6, <2>7, LenProperties DEF StartsWith
  <2>9. QED
    BY <2>6, <2>7, <2>8, PrefixIsAll
<1>2. QED
  BY <1>1, FlowInv, PTL

-----------------------------------------------------------------------------
(***************************************************************************)
(* infra.execute implements ProgramRun: seen from outside, and for every   *)
(* input, program, pipe and buffer, the call is one step that comes after  *)
(* the end of the program and returns an acceptable output.                *)
(***************************************************************************)

\* The boolean of the answer is the one of the program's end.
Answer == pc \in Ending \cup {"done"} /\ result # "raised" =>
              /\ wstatus # "none"
              /\ result = IF wstatus = "exit1" THEN "false" ELSE "true"

RInv == FInv /\ Answer

LEMMA AnswerRuns ==
  ASSUME FInv, Answer, Runs
  PROVE  Answer'
<1>. USE DEF FInv, LInv, TInv
<1>1. UNCHANGED <<pc, result>>
  BY RunsKeepsHost
<1>2. pc \in Ending \cup {"done"} => UNCHANGED wstatus
  BY RunsLife DEF Life, Reaped, NotYet, Begins, Fails, Dies, Lives
<1>3. QED
  BY <1>1, <1>2 DEF Answer

LEMMA AnswerHost ==
  ASSUME FInv, Answer, HostRuns
  PROVE  Answer' /\ UNCHANGED <<wstatus, written, atEnd>>
<1>. USE DEF FInv, LInv, TInv, Answer, exchangeVars, progVars, Ending, Drains
<1>1. UNCHANGED <<wstatus, written, atEnd>>
  BY DEF HostRuns, Options, OpenStdio, infra_exec, ExecOpen, ExecFork, ExecForkFails, ExecCloseWriter,
         ExecReadStatus, ExecReap, ExecFinish, ExecReturns, Poll, Feed, FeedDone, Receive,
         HandlerEnds, Gc, GcWait
<1>. SUFFICES Answer'
  BY <1>1
<1>2. CASE Poll
  <2>1. ASSUME pc' = "drain_stdout"
        PROVE  child = "zombie" /\ result' = IF wstatus = "exit1" THEN "false" ELSE "true"
    <3>1. waitpid = "ended" /\ result' = IF exit_code(wstatus) = 0 THEN "true" ELSE "false"
      BY <1>2, <2>1 DEF Poll, waitpid, Abort
    <3>2. QED
      BY <3>1 DEF waitpid, exit_code
  <2>2. pc' \notin {"drain_stderr", "returned", "done"}
    BY <1>2 DEF Poll, waitpid, AfterExit, Abort
  <2>3. QED
    BY <1>1, <2>1, <2>2 DEF Life
<1>3. ASSUME NEW s \in Stream, Receive(s) \/ HandlerEnds(s)
      PROVE  Answer'
  <2>1. /\ pc' \in Drains \cup {"returned"} => pc \in Drains
        /\ pc' # "done" /\ result' \in {result, "raised"}
    BY <1>3 DEF Receive, HandlerEnds, HandlerPc, After, Stream, ResultIfRaised
  <2>2. QED
    BY <1>1, <2>1
<1>4. CASE Gc
  <2>1. pc \in {"returned", "raised"} /\ UNCHANGED result /\ pc' \notin Ending
    BY <1>4 DEF Gc
  <2>2. pc = "raised" => result = "raised"
    BY DEF InFlow
  <2>3. QED
    BY <1>1, <2>1, <2>2
<1>5. CASE GcWait
  <2>1. result = "raised" /\ UNCHANGED result
    BY <1>5 DEF GcWait, InFlow
  <2>2. QED
    BY <2>1
<1>6. CASE /\ ~Poll /\ ~Gc /\ ~GcWait
           /\ ~\E s \in Stream : Receive(s) \/ HandlerEnds(s)
  <2>1. pc' \notin Ending \cup {"done"}
    <3>1. ASSUME NEW p \in {"stdin", "stdout", "stderr"}, OpenStdio(p)
          PROVE  pc' \notin Ending \cup {"done"}
      BY <3>1 DEF OpenStdio, OpenAt, infra_raise_error, Abort
    <3>2. CASE infra_exec
      BY <3>2 DEF infra_exec, ExecOpen, ExecFork, ExecForkFails, ExecCloseWriter,
                  ExecReadStatus, ExecReap, ExecFinish, Abort
    <3>3. CASE ExecReturns \/ Feed \/ FeedDone
      BY <3>3 DEF ExecReturns, infra_raise_error, Feed, FeedDone, Abort
    <3>4. CASE Options
      BY <3>4 DEF Options
    <3>5. QED
      BY <1>6, <3>1, <3>2, <3>3, <3>4 DEF HostRuns
  <2>2. QED
    BY <2>1
<1>7. QED
  BY <1>1, <1>2, <1>3, <1>4, <1>5, <1>6

LEMMA AnswerInv == Spec => []RInv
<1>1. Init => Answer
  BY DEF Init, Answer, Ending, Drains
<1>2. FInv /\ Answer /\ [Next]_vars => Answer'
  <2>1. CASE UNCHANGED vars \/ Stopped
    BY <2>1 DEF Stopped, vars, execVars, Answer
  <2>2. QED
    BY <2>1, AnswerRuns, AnswerHost DEF Next
<1>3. QED
  BY <1>1, <1>2, FlowInv, PTL DEF Spec, RInv

-----------------------------------------------------------------------------
\* The initial states, and the steps.

LEMMA RefinesInit == Init => Run!Init
BY DEF Init, PipeInit, ExecInit, ProgramInit, Run!Init, Run!Nothing, Outcome, Run!Outcome

\* A step of the program is a write, its end, or nothing.
LEMMA RefinesRuns ==
  ASSUME RInv, Runs
  PROVE  [Run!Next]_Run!runVars
<1>. USE DEF RInv, FInv, LInv, TInv
<1>1. Outcome' = Outcome
  BY RunsKeepsHost DEF Outcome
<1>2. ASSUME NEW q, NEW s \in Stream, NEW b \in Byte, PutBlock(q, s, b)
      PROVE  Run!Write(s, b)
  BY <1>1, <1>2 DEF PutBlock, Run!Write
<1>3. ASSUME NEW st \in {"exit0", "exit1", "signal", "abort"}, Ends(st), child # "zombie",
             child # "reaped"
      PROVE  Run!End(st)
  <2>1. wstatus = "none"
    BY <1>3 DEF Life, TypeOK, ExecTypeOK
  <2>2. QED
    BY <1>1, <1>3, <2>1 DEF Ends, ChildEnds, LastWords, Run!End
<1>4. ASSUME UNCHANGED <<wstatus, written, atEnd>>
      PROVE  UNCHANGED Run!runVars
  BY <1>1, <1>4 DEF Run!runVars
<1>5. CASE \/ (\E e \in Errno : ChildExecFails(e)) /\ UNCHANGED progVars
           \/ ChildExec /\ UNCHANGED progVars
           \/ ProgRead \/ ProgEof \/ ProgLeavesOrphan \/ OrphanEnds
  BY <1>4, <1>5 DEF ChildExecFails, ChildExec, progVars, ProgRead, ProgEof, ProgLeavesOrphan,
                    OrphanEnds
<1>6. CASE ProgEcho
  <2>1. PICK b : PutBlock("child", kind, b) /\ b \in Byte /\ kind \in Stream
    <3>1. kind \in Stream /\ Len(written[kind]) < Len(consumed)
      BY <1>6 DEF ProgEcho
    <3>2. /\ Len(written[kind]) \in Nat /\ Len(consumed) \in Nat
          /\ consumed \in Seq(Byte)
      BY <3>1, LenProperties DEF TypeOK, ProgramTypeOK
    <3>3. consumed[Len(written[kind]) + 1] \in Byte
      BY <3>1, <3>2, ElementOfSeq
    <3>4. QED
      BY <1>6, <3>1, <3>3 DEF ProgEcho
  <2>2. QED
    BY <1>2, <2>1 DEF Run!Next
<1>7. ASSUME NEW s \in Stream, NEW b \in Byte, ProgWrite(s, b) \/ OrphanWrite(s, b)
      PROVE  Run!Next
  BY <1>2, <1>7 DEF ProgWrite, OrphanWrite, Run!Next
<1>8. CASE ((ChildAborts \/ ChildKilled) /\ LastWords) \/ ProgExit \/ ProgSigpipe
  <2>1. PICK st \in {"exit0", "exit1", "signal", "abort"} :
               Ends(st) /\ child # "zombie" /\ child # "reaped"
    BY <1>8 DEF ChildAborts, ChildKilled, ProgExit, ProgSigpipe, Ends
  <2>2. QED
    BY <1>3, <2>1 DEF Run!Next
<1>9. QED
  BY <1>4, <1>5, <1>6, <1>7, <1>8 DEF Runs, ProgramRuns, ProgramMay

\* What the call returns is acceptable.
LEMMA OutIsAcceptable ==
  ASSUME RInv, result # "raised", \A s \in Stream : StartsWith(out[s], atEnd[s])
  PROVE  out \in Run!Acceptable
<1>. USE DEF RInv, FInv, LInv, DInv, TInv
<1>1. ASSUME NEW s \in Stream
      PROVE  /\ StartsWith(out[s], atEnd[s]) /\ StartsWith(written[s], out[s])
             /\ out[s] \in Seq(Byte) /\ written[s] \in Seq(Byte) /\ atEnd[s] \in Seq(Byte)
  <2>1. out[s] \in Seq(Byte) /\ buf[s] \in Seq(Byte)
    BY DEF TypeOK, PipeTypeOK, BufOK, Content, Pipes, Stream
  <2>2. written[s] = out[s] \o buf[s]
    BY DEF OutputIsFaithful
  <2>3. StartsWith(written[s], out[s])
    BY <2>1, <2>2, PrefixOfConcat
  <2>4. QED
    BY <2>1, <2>3 DEF TypeOK, ProgramTypeOK
<1>2. ASSUME NEW s \in Stream
      PROVE  /\ Run!IsPrefix(atEnd[s], out[s]) /\ Run!IsPrefix(out[s], written[s])
             /\ out[s] \in Run!Prefixes(written[s])
  <2>1. atEnd[s] = SubSeq(atEnd[s], 1, Len(atEnd[s])) /\ out[s] = SubSeq(out[s], 1, Len(out[s]))
    BY <1>1, SubSeqFull
  <2>2. Len(out[s]) \in 0..Len(written[s])
    BY <1>1, LenProperties DEF StartsWith
  <2>3. QED
    BY <1>1, <2>1, <2>2 DEF StartsWith, Run!IsPrefix, Run!Prefixes
<1>3. out \in [Stream -> UNION {Run!Prefixes(written[s]) : s \in Stream}]
  BY <1>2 DEF TypeOK
<1>4. QED
  BY <1>2, <1>3 DEF Run!Acceptable

\* The host's steps with its collector left out: where the call stands.
LEMMA CallSteps ==
  ASSUME RInv, RInv', HostRuns, ~Gc, ~GcWait
  PROVE  /\ pc \notin {"returned", "raised", "gc_wait", "done", "aborted"}
         /\ pc' \notin {"gc_wait", "done"}
         /\ result # "raised"
         /\ pc' = "returned" => UNCHANGED <<out, result>>
<1>1. ASSUME NEW p \in {"stdin", "stdout", "stderr"}, OpenStdio(p)
      PROVE  /\ pc \notin {"returned", "raised", "gc_wait", "done", "aborted"}
             /\ pc' \notin {"gc_wait", "done", "returned"}
  BY <1>1 DEF OpenStdio, OpenAt, infra_raise_error, Abort
<1>2. CASE infra_exec
  BY <1>2 DEF infra_exec, ExecOpen, ExecFork, ExecForkFails, ExecCloseWriter, ExecReadStatus,
              ExecReap, ExecFinish, Abort, RInv, FInv, DInv, Unwound
<1>3. CASE ExecReturns \/ Poll \/ Feed \/ FeedDone
  BY <1>3 DEF ExecReturns, infra_raise_error, Poll, waitpid, AfterExit, Feed, FeedDone, Abort,
              RInv, FInv, DInv, Unwound
<1>4. ASSUME NEW s \in Stream, Receive(s) \/ HandlerEnds(s)
      PROVE  /\ pc \notin {"returned", "raised", "gc_wait", "done", "aborted"}
             /\ pc' \notin {"gc_wait", "done"}
             /\ pc' = "returned" => UNCHANGED <<out, result>>
  BY <1>4 DEF Receive, HandlerEnds, HandlerPc, After, Stream, Drains, exchangeVars
<1>5. CASE Options
  BY <1>5 DEF Options, RInv, FInv, DInv, Unwound
<1>6. QED
  BY <1>1, <1>2, <1>3, <1>4, <1>5 DEF HostRuns, RInv, FInv, DInv, Unwound

\* A step of the host returns, raises, takes the process down, or is not seen.
LEMMA RefinesHost ==
  ASSUME RInv, RInv', HostRuns
  PROVE  [Run!Next]_Run!runVars
<1>. USE DEF RInv, FInv
<1>0. UNCHANGED <<wstatus, written, atEnd>>
  BY AnswerHost
<1>1. ASSUME pc' = "aborted", pc # "aborted", result = "raised" \/ pc \notin {"returned", "done"}
      PROVE  Run!Die
  <2>1. Outcome.is \in {"none", "raised"}
    BY <1>1 DEF Outcome
  <2>2. Outcome' = Run!Outcome("dead", FALSE, Run!Nothing)
    BY <1>1 DEF Outcome, Run!Outcome, Run!Nothing
  <2>3. QED
    BY <1>0, <2>1, <2>2 DEF Run!Die
<1>2. CASE Gc
  <2>1. pc = "raised" => result = "raised"
    BY DEF InFlow
  <2>2. CASE result = "raised"
    <3>1. pc # "aborted" /\ pc' # "aborted" /\ UNCHANGED result
      BY <1>2 DEF Gc
    <3>2. QED
      BY <1>0, <2>2, <3>1 DEF Outcome, Run!runVars
  <2>3. CASE result # "raised"
    <3>1. pc = "returned" /\ hProcess = "INVALID"
      BY <1>2, <2>1, <2>3 DEF Gc, LInv, Life, Ending, Reaped
    <3>2. pc' = "done" /\ UNCHANGED <<result, out>>
      BY <1>2, <3>1 DEF Gc
    <3>3. QED
      BY <1>0, <3>1, <3>2 DEF Outcome, Run!runVars
  <2>4. QED
    BY <2>2, <2>3
<1>3. CASE GcWait
  <2>1. pc = "gc_wait" /\ result = "raised" /\ pc' \in {"done", "aborted"} /\ UNCHANGED result
    BY <1>3 DEF GcWait, Abort, exchangeVars, InFlow
  <2>2. CASE pc' = "aborted"
    BY <1>1, <2>1, <2>2 DEF Run!Next
  <2>3. CASE pc' = "done"
    BY <1>0, <2>1, <2>3 DEF Outcome, Run!runVars
  <2>4. QED
    BY <2>1, <2>2, <2>3
<1>4. CASE ~Gc /\ ~GcWait
  <2>1. /\ pc \notin {"returned", "raised", "gc_wait", "done", "aborted"}
        /\ pc' \notin {"gc_wait", "done"} /\ result # "raised"
    BY <1>4, CallSteps
  <2>2. Outcome = Run!Outcome("none", FALSE, Run!Nothing)
    BY <2>1 DEF Outcome, Run!Outcome, Run!Nothing
  <2>3. CASE pc' = "aborted"
    BY <1>1, <2>1, <2>3 DEF Run!Next
  <2>4. CASE pc' = "raised"
    <3>1. result' = "raised"
      BY <2>4 DEF InFlow
    <3>2. Outcome' = Run!Outcome("raised", FALSE, Run!Nothing)
      BY <2>4, <3>1 DEF Outcome, Run!Outcome, Run!Nothing
    <3>3. Run!Raise
      BY <1>0, <2>2, <3>2 DEF Run!Raise, Run!Outcome
    <3>4. QED
      BY <3>3 DEF Run!Next
  <2>5. CASE pc' = "returned"
    <3>1. UNCHANGED <<out, result>>
      BY <1>4, <2>5, CallSteps
    <3>2. out \in Run!Acceptable
      BY <1>0, <2>1, <2>5, <3>1, OutIsAcceptable DEF OutFlow, Collected
    <3>3. /\ wstatus \in {"exit0", "exit1", "signal", "abort"}
          /\ result' = IF wstatus = "exit1" THEN "false" ELSE "true"
      BY <1>0, <2>1, <2>5, <3>1 DEF Answer, Ending, LInv, TInv, TypeOK, ExecTypeOK
    <3>4. Outcome' = Run!Outcome("returned", wstatus # "exit1", out)
      <4>1. (result' = "true") = (wstatus # "exit1")
        BY <3>3
      <4>2. result' # "raised"
        BY <2>1, <3>1
      <4>3. QED
        BY <2>5, <3>1, <4>1, <4>2 DEF Outcome, Run!Outcome
    <3>5. Run!Return
      BY <1>0, <2>2, <3>2, <3>3, <3>4 DEF Run!Return, Run!Outcome
    <3>6. QED
      BY <3>5 DEF Run!Next
  <2>6. CASE pc' \notin {"aborted", "raised", "returned"}
    <3>1. result' # "raised"
      BY <2>1, <2>6 DEF DInv, Unwound
    <3>2. Outcome' = Outcome
      BY <2>1, <2>6, <3>1 DEF Outcome
    <3>3. QED
      BY <1>0, <3>2 DEF Run!runVars
  <2>7. QED
    BY <2>3, <2>4, <2>5, <2>6
<1>5. QED
  BY <1>2, <1>3, <1>4

\* Seen from outside infra.execute is one step of ProgramRun: it answers once,
\* after the end of the program, with the truth about its end and with all the
\* program wrote; or it raises; or the process dies.
THEOREM Refinement == Spec => ImplementsProgramRun
<1>1. RInv /\ RInv' /\ [Next]_vars => [Run!Next]_Run!runVars
  <2>1. SUFFICES ASSUME RInv, RInv', [Next]_vars
                 PROVE  [Run!Next]_Run!runVars
    OBVIOUS
  <2>2. CASE UNCHANGED vars \/ Stopped
    BY <2>2 DEF Stopped, vars, execVars, progVars, Outcome, Run!runVars
  <2>3. QED
    BY <2>1, <2>2, RefinesRuns, RefinesHost DEF Next
<1>2. QED
  BY <1>1, RefinesInit, AnswerInv, PTL DEF Spec, ImplementsProgramRun, Run!Spec

=============================================================================
