--------------------------- MODULE ExecuteProofs ---------------------------
(***************************************************************************)
(* Proofs about infra.execute, for every input, every program, every       *)
(* capacity of the pipes and every size of the buffer.                     *)
(***************************************************************************)
EXTENDS Execute, SequenceTheorems, TLAPS

\* Before the fork nothing has moved.
Untouched ==
    pc \in {"options", "open_stdin", "open_stdout", "open_stderr", "exec_open", "fork"} =>
        /\ child = "none" /\ orphan = "none" /\ hProcess = "INVALID"
        /\ \A p \in Pipes : buf[p] = <<>>
        /\ \A s \in Stream : written[s] = <<>> /\ out[s] = <<>>
        /\ consumed = <<>> /\ input = Input /\ result = "none"

\* The child writes to the status pipe once.
StatusEmpty == child = "forked" => buf["status"] = <<>>

TInv == TypeOK /\ Untouched /\ StatusEmpty

-----------------------------------------------------------------------------
\* Sequences.

LEMMA LeastBounds ==
  ASSUME NEW m \in Nat, NEW n \in Nat
  PROVE  Least(m, n) \in 0..m /\ Least(m, n) \in 0..n
BY DEF Least

\* A prefix and the rest.
LEMMA Cut ==
  ASSUME NEW S, NEW s \in Seq(S), NEW n \in 0..Len(s)
  PROVE  /\ SubSeq(s, 1, n) \in Seq(S)
         /\ SubSeq(s, n + 1, Len(s)) \in Seq(S)
         /\ Len(SubSeq(s, 1, n)) = n
         /\ Len(SubSeq(s, n + 1, Len(s))) = Len(s) - n
         /\ SubSeq(s, 1, n) \o SubSeq(s, n + 1, Len(s)) = s
<1>1. Len(s) \in Nat /\ \A i \in 1..Len(s) : s[i] \in S
  BY LenProperties
<1>2. SubSeq(s, 1, n) \in Seq(S) /\ Len(SubSeq(s, 1, n)) = n
  <2>1. \A i \in 1..n : s[i] \in S
    BY <1>1
  <2>2. QED
    BY <1>1, <2>1, SubSeqProperties
<1>3. /\ SubSeq(s, n + 1, Len(s)) \in Seq(S)
      /\ Len(SubSeq(s, n + 1, Len(s))) = Len(s) - n
  <2>1. \A i \in n + 1..Len(s) : s[i] \in S
    BY <1>1
  <2>2. QED
    BY <1>1, <2>1, SubSeqProperties
<1>4. SubSeq(s, 1, n) \o SubSeq(s, n + 1, Len(s)) = SubSeq(s, 1, Len(s))
  <2>1. /\ 1 \in 1..Len(s) + 1
        /\ n \in 1 - 1..Len(s)
        /\ Len(s) \in n..Len(s)
    BY <1>1
  <2>2. QED
    BY <2>1, ConcatAdjacentSubSeq, Zenon
<1>5. QED
  BY <1>2, <1>3, <1>4, SubSeqFull

\* The first element and the rest.
LEMMA CutHead ==
  ASSUME NEW S, NEW s \in Seq(S), s # <<>>
  PROVE  /\ Head(s) \in S
         /\ Tail(s) \in Seq(S)
         /\ Len(Tail(s)) = Len(s) - 1
         /\ <<Head(s)>> \o Tail(s) = s
<1>1. Head(s) \in S /\ Tail(s) \in Seq(S) /\ Len(Tail(s)) = Len(s) - 1
  BY HeadTailProperties
<1>2. <<Head(s)>> \o Tail(s) = s
  BY <1>1
<1>3. QED
  BY <1>1, <1>2

-----------------------------------------------------------------------------
\* Type correctness.

LEMMA BufUpdate ==
  ASSUME BufOK(buf), NEW p \in Pipes, NEW v \in Seq(Content(p)), Len(v) <= Cap
  PROVE  BufOK([buf EXCEPT ![p] = v])
<1>1. v \in Seq(Byte \cup Errno)
  <2>1. Content(p) \subseteq Byte \cup Errno
    BY DEF Content
  <2>2. QED
    BY <2>1, SeqMonotonic
<1>2. QED
  BY <1>1 DEF BufOK

LEMMA BufInit == BufOK([p \in Pipes |-> <<>>])
<1>1. Len(<<>>) = 0 /\ \A S : <<>> \in Seq(S)
  BY EmptySeq
<1>2. QED
  BY <1>1, CapAssumption DEF BufOK

LEMMA TypeInit == Init => TInv
<1>. SUFFICES ASSUME Init PROVE TInv
  OBVIOUS
<1>. USE DEF Init, PipeInit, ExecInit, ProgramInit
<1>1. \A S : <<>> \in Seq(S)
  BY EmptySeq
<1>2. PipeTypeOK
  <2>1. flags \in [Pipes -> [End -> SUBSET Flag]]
    OBVIOUS
  <2>2. QED
    BY <2>1, BufInit DEF PipeTypeOK
<1>3. ExecTypeOK
  BY DEF ExecTypeOK
<1>4. ProgramTypeOK
  BY <1>1 DEF ProgramTypeOK
<1>5. TypeOK
  BY <1>1, <1>2, <1>3, <1>4, InputAssumption DEF TypeOK, Pc
<1>6. Untouched /\ StatusEmpty
  BY DEF Untouched, StatusEmpty, Pipes, Stream
<1>7. QED
  BY <1>5, <1>6 DEF TInv

\* The read of the status pipe ends in one of three ways.
LEMMA ReadStatusEnds ==
  ASSUME ExecReadStatus
  PROVE  \/ infra_pipe_read("status") \in {"eof", "data"} /\ UNCHANGED cause
         \/ Abort("status") /\ UNCHANGED <<buf, ret>>
BY DEF ExecReadStatus, infra_pipe_read

\* The options, the actions of infra_exec and of opening the standard streams.
LEMMA TypeStart ==
  ASSUME TypeOK, Untouched, StatusEmpty,
         \/ Options
         \/ \E p \in {"stdin", "stdout", "stderr"} : OpenStdio(p)
         \/ infra_exec /\ UNCHANGED exchangeVars
         \/ ExecReturns
  PROVE  TypeOK'
<1>. USE DEF TypeOK, PipeTypeOK, ExecTypeOK
<1>. USE DEF exchangeVars, pipeVars, progVars, ProgramTypeOK
<1>1. ASSUME NEW p \in {"stdin", "stdout", "stderr"}, OpenStdio(p)
      PROVE  TypeOK'
  <2>1. CASE UNCHANGED <<pipeVars, handle>> /\ infra_raise_error(EMFILE)
    BY <1>1, <2>1 DEF OpenStdio, ResultIfRaised, infra_raise_error, Abort, Pc
  <2>2. CASE /\ infra_pipe_open("host", p, StdioFlags(p, "r"), StdioFlags(p, "w"))
             /\ handle' = handle \cup {<<p, "r">>, <<p, "w">>}
             /\ pc' = OpenAt[p][2]
             /\ UNCHANGED cause
    <3>1. p \in Pipes /\ <<>> \in Seq(Content(p)) /\ Len(<<>>) <= Cap
      BY EmptySeq, CapAssumption DEF Pipes
    <3>2. BufOK(buf')
      BY <2>2, <3>1, BufUpdate DEF infra_pipe_open
    <3>3. open' \subseteq Fd /\ flags' \in [Pipes -> [End -> SUBSET Flag]]
      BY <2>2, <3>1 DEF infra_pipe_open, Fd, Proc, End, Flag, StdioFlags, HostEnd
    <3>4. handle' \subseteq Pipes \X End
      BY <2>2, <3>1 DEF End
    <3>5. pc' \in Pc /\ pc' # "raised"
      BY <2>2 DEF Pc, ExecPc, OpenAt
    <3>6. result' = result
      BY <1>1, <3>5 DEF OpenStdio, ResultIfRaised
    <3>7. QED
      BY <1>1, <2>2, <3>2, <3>3, <3>4, <3>5, <3>6 DEF OpenStdio
  <2>3. QED
    BY <1>1, <2>1, <2>2 DEF OpenStdio
<1>2. CASE ExecOpen /\ UNCHANGED exchangeVars
  <2>1. CASE UNCHANGED <<pipeVars, handle>> /\ ret' = EMFILE /\ pc' = "exec_return"
    BY <1>2, <2>1 DEF ExecOpen, Pc, ExecPc, EMFILE
  <2>2. CASE /\ infra_pipe_open("host", "status", {"CLOEXEC"}, {"CLOEXEC"})
             /\ handle' = handle \cup {<<"status", "r">>, <<"status", "w">>}
             /\ pc' = "fork"
             /\ UNCHANGED ret
    <3>1. "status" \in Pipes /\ <<>> \in Seq(Content("status")) /\ Len(<<>>) <= Cap
      BY EmptySeq, CapAssumption DEF Pipes
    <3>2. BufOK(buf')
      BY <2>2, <3>1, BufUpdate DEF infra_pipe_open
    <3>3. open' \subseteq Fd /\ flags' \in [Pipes -> [End -> SUBSET Flag]]
      BY <2>2, <3>1 DEF infra_pipe_open, Fd, Proc, End, Flag
    <3>4. handle' \subseteq Pipes \X End
      BY <2>2, <3>1 DEF End
    <3>5. QED
      BY <1>2, <2>2, <3>2, <3>3, <3>4 DEF ExecOpen, Pc, ExecPc
  <2>3. QED
    BY <1>2, <2>1, <2>2 DEF ExecOpen
<1>3. CASE ExecFork /\ UNCHANGED exchangeVars
  <2>1. open' \subseteq Fd
    BY <1>3 DEF ExecFork, HeldBy, Fd, Proc
  <2>2. QED
    BY <1>3, <2>1 DEF ExecFork, Pc, ExecPc
<1>4. CASE ExecForkFails /\ UNCHANGED exchangeVars
  <2>1. EAGAIN \notin DOMAIN infra_translate_sys_error
    BY DEF EAGAIN, ENOENT, ETIMEDOUT, infra_translate_sys_error
  <2>2. QED
    BY <1>4, <2>1 DEF ExecForkFails, Abort, Pc
<1>5. CASE ExecCloseWriter /\ UNCHANGED exchangeVars
  BY <1>5 DEF ExecCloseWriter, CloseHandles, infra_pipe_close, Pc, ExecPc
<1>6. CASE ExecReadStatus /\ UNCHANGED exchangeVars
  <2>1. CASE infra_pipe_read("status") = "eof"
    BY <1>6, <2>1 DEF ExecReadStatus, Pc, ExecPc
  <2>2. CASE infra_pipe_read("status") = "data"
    <3>1. "status" \in Pipes /\ buf["status"] \in Seq(Errno) /\ Len(buf["status"]) <= Cap
      BY DEF Pipes, BufOK, Content
    <3>2. buf["status"] # <<>>
      BY <2>2 DEF infra_pipe_read
    <3>3. /\ Head(buf["status"]) \in Errno
          /\ Tail(buf["status"]) \in Seq(Content("status"))
          /\ Len(Tail(buf["status"])) <= Cap
      <4>1. Len(buf["status"]) \in Nat
        BY <3>1, LenProperties
      <4>2. /\ Head(buf["status"]) \in Errno
            /\ Tail(buf["status"]) \in Seq(Errno)
            /\ Len(Tail(buf["status"])) = Len(buf["status"]) - 1
        BY <3>1, <3>2, CutHead
      <4>3. Len(buf["status"]) - 1 <= Cap
        BY <3>1, <4>1, CapAssumption
      <4>4. Content("status") = Errno
        BY DEF Content
      <4>5. QED
        BY <4>2, <4>3, <4>4, Zenon
    <3>4. buf' = [buf EXCEPT !["status"] = Tail(buf["status"])] /\ ret' \in Int
      <4>1. /\ buf' = [buf EXCEPT !["status"] = Tail(buf["status"])]
            /\ ret' = Head(buf["status"])
        BY <1>6, <2>2 DEF ExecReadStatus
      <4>2. \A e \in Errno : e \in Int
        BY ErrnoAssumption
      <4>3. QED
        BY <3>3, <4>1, <4>2, Zenon
    <3>5. BufOK(buf')
      BY <3>1, <3>3, <3>4, BufUpdate
    <3>6. QED
      BY <1>6, <2>2, <3>4, <3>5 DEF ExecReadStatus, Pc, ExecPc
  <2>3. QED
    BY <1>6, <2>1, <2>2, ReadStatusEnds DEF ExecReadStatus, Abort, Pc
<1>7. CASE ExecReap /\ UNCHANGED exchangeVars
  BY <1>7 DEF ExecReap, Pc, ExecPc
<1>8. CASE ExecFinish /\ UNCHANGED exchangeVars
  BY <1>8 DEF ExecFinish, CloseHandles, infra_pipe_close, Pc, ExecPc
<1>9. CASE ExecReturns
  <2>1. pc' \in Pc /\ cause' \in {cause, "strerror"}
    BY <1>9 DEF ExecReturns, infra_raise_error, Abort, Pc
  <2>2. open' \subseteq Fd /\ handle' \subseteq Pipes \X End
    BY <1>9 DEF ExecReturns, CloseHandles, infra_pipe_close
  <2>3. QED
    BY <1>9, <2>1, <2>2 DEF ExecReturns, ResultIfRaised
<1>10. CASE Options
  BY <1>10 DEF Options, ResultIfRaised, Pc
<1>11. QED
  BY <1>1, <1>2, <1>3, <1>4, <1>5, <1>6, <1>7, <1>8, <1>9, <1>10 DEF infra_exec

\* The actions of the exchange and of the collector.
LEMMA TypeExchange ==
  ASSUME TypeOK,
         \/ Poll \/ Feed \/ FeedDone
         \/ \E s \in Stream : Receive(s) \/ HandlerEnds(s)
         \/ Gc \/ GcWait
  PROVE  TypeOK'
<1>. USE DEF TypeOK, PipeTypeOK, ExecTypeOK
<1>. USE DEF exchangeVars, pipeVars, progVars, ProgramTypeOK
<1>1. CASE Poll
  <2>1. CASE waitpid = "ended"
    BY <1>1, <2>1 DEF Poll, Reap, AfterExit, Pc, Drains
  <2>2. CASE waitpid = "running"
    BY <1>1, <2>2 DEF Poll, Pc
  <2>3. CASE waitpid = "ECHILD"
    BY <1>1, <2>3 DEF Poll, Abort, Pc
  <2>4. QED
    BY <2>1, <2>2, <2>3 DEF waitpid
<1>2. CASE Feed
  <2>1. CASE infra_pipe_write("stdin") = "sent"
    <3>. DEFINE n == Fits("stdin", input)
    <3>1. "stdin" \in Pipes /\ buf["stdin"] \in Seq(Byte) /\ Len(buf["stdin"]) \in 0..Cap
      BY LenProperties DEF Pipes, BufOK, Content
    <3>2. n \in 0..Cap - Len(buf["stdin"]) /\ n \in 0..Len(input)
      <4>1. Cap - Len(buf["stdin"]) \in Nat /\ Len(input) \in Nat
        BY <3>1, CapAssumption, LenProperties
      <4>2. QED
        BY <4>1, LeastBounds DEF Fits
    <3>. HIDE DEF n
    <3>3. /\ SubSeq(input, 1, n) \in Seq(Byte) /\ Len(SubSeq(input, 1, n)) = n
          /\ SubSeq(input, n + 1, Len(input)) \in Seq(Byte)
      BY <3>2, Cut
    <3>4. /\ buf["stdin"] \o SubSeq(input, 1, n) \in Seq(Content("stdin"))
          /\ Len(buf["stdin"] \o SubSeq(input, 1, n)) <= Cap
      <4>1. Content("stdin") = Byte
        BY DEF Content
      <4>2. /\ buf["stdin"] \o SubSeq(input, 1, n) \in Seq(Byte)
            /\ Len(buf["stdin"] \o SubSeq(input, 1, n)) = Len(buf["stdin"]) + n
        BY <3>1, <3>3, ConcatProperties
      <4>3. Len(buf["stdin"]) + n <= Cap
        BY <3>1, <3>2, CapAssumption
      <4>4. QED
        BY <4>1, <4>2, <4>3, Zenon
    <3>5. /\ buf' = [buf EXCEPT !["stdin"] = buf["stdin"] \o SubSeq(input, 1, n)]
          /\ input' = SubSeq(input, n + 1, Len(input))
          /\ UNCHANGED <<pc, cause>>
      BY <1>2, <2>1 DEF Feed, Left, n
    <3>6. BufOK(buf')
      BY <3>1, <3>4, <3>5, BufUpdate
    <3>7. QED
      BY <1>2, <3>3, <3>5, <3>6 DEF Feed
  <2>2. CASE infra_pipe_write("stdin") = "again"
    BY <1>2, <2>2 DEF Feed, Pc
  <2>3. CASE infra_pipe_write("stdin") = "broken"
    BY <1>2, <2>3 DEF Feed, Abort, Pc
  <2>4. QED
    BY <1>2, <2>1, <2>2, <2>3 DEF Feed
<1>3. CASE FeedDone
  BY <1>3 DEF FeedDone, CloseHandles, infra_pipe_close, Pc
<1>4. ASSUME NEW s \in Stream, Receive(s)
      PROVE  TypeOK'
  <2>. DEFINE n == Least(ReadSz, Len(buf[s]))
  <2>1. s \in Pipes /\ buf[s] \in Seq(Byte) /\ Len(buf[s]) \in 0..Cap
    BY LenProperties DEF Stream, Pipes, BufOK, Content
  <2>2. n \in 0..Len(buf[s])
    <3>1. ReadSz \in Nat /\ Len(buf[s]) \in Nat
      BY <2>1, ReadSzAssumption
    <3>2. QED
      BY <3>1, LeastBounds
  <2>. HIDE DEF n
  <2>3. /\ SubSeq(buf[s], 1, n) \in Seq(Byte)
        /\ SubSeq(buf[s], n + 1, Len(buf[s])) \in Seq(Content(s))
        /\ Len(SubSeq(buf[s], n + 1, Len(buf[s]))) <= Cap
    <3>1. Content(s) = Byte
      BY DEF Stream, Content
    <3>2. /\ SubSeq(buf[s], 1, n) \in Seq(Byte)
          /\ SubSeq(buf[s], n + 1, Len(buf[s])) \in Seq(Byte)
          /\ Len(SubSeq(buf[s], n + 1, Len(buf[s]))) = Len(buf[s]) - n
      BY <2>1, <2>2, Cut
    <3>3. QED
      BY <3>1, <3>2, <2>1, <2>2, CapAssumption
  <2>4. Chunk(s) = SubSeq(buf[s], 1, n) /\ Rest(s) = SubSeq(buf[s], n + 1, Len(buf[s]))
    BY DEF Chunk, Rest, n
  <2>5. BufOK(buf')
    BY <1>4, <2>1, <2>3, <2>4, BufUpdate DEF Receive
  <2>6. Appended(s) \in Seq(Byte)
    BY <2>3, <2>4, ConcatProperties DEF Appended
  <2>7. out' \in [Stream -> Seq(Byte)] /\ pc' \in Pc
    BY <1>4, <2>6 DEF Receive, Pc
  <2>8. QED
    BY <1>4, <2>5, <2>7 DEF Receive, ResultIfRaised
<1>5. ASSUME NEW s \in Stream, HandlerEnds(s)
      PROVE  TypeOK'
  <2>1. pc' \in Pc
    BY <1>5 DEF HandlerEnds, HandlerPc, After, Drains, Stream, Pc
  <2>2. open' \subseteq Fd /\ handle' \subseteq Pipes \X End
    BY <1>5 DEF HandlerEnds, CloseHandles, infra_pipe_close
  <2>3. QED
    BY <1>5, <2>1, <2>2 DEF HandlerEnds
<1>6. CASE Gc
  <2>1. input' \in Seq(Byte)
    BY <1>6, EmptySeq DEF Gc
  <2>2. QED
    BY <1>6, <2>1 DEF Gc, CloseHandles, infra_pipe_close, Pc
<1>7. CASE GcWait
  BY <1>7 DEF GcWait, Reap, Abort, Pc
<1>8. QED
  BY <1>1, <1>2, <1>3, <1>4, <1>5, <1>6, <1>7

\* What the program's actions do to the pipes.
LEMMA TypePutBlock ==
  ASSUME TypeOK, NEW q, NEW s \in Stream, NEW b \in Byte, PutBlock(q, s, b),
         UNCHANGED <<input, out, result>>
  PROVE  TypeOK'
<1>1. s \in Pipes /\ Content(s) = Byte /\ buf[s] \in Seq(Byte) /\ Len(buf[s]) \in Nat
  BY LenProperties DEF TypeOK, PipeTypeOK, BufOK, Stream, Pipes, Content
<1>2. Len(buf[s]) < Cap
  BY DEF PutBlock, infra_pipe_write
<1>3. Append(buf[s], b) \in Seq(Content(s)) /\ Len(Append(buf[s], b)) <= Cap
  BY <1>1, <1>2, CapAssumption, AppendProperties
<1>4. buf' = [buf EXCEPT ![s] = Append(buf[s], b)]
  BY DEF PutBlock
<1>5. BufOK(buf')
  BY <1>1, <1>3, <1>4, BufUpdate DEF TypeOK, PipeTypeOK
<1>6. written' \in [Stream -> Seq(Byte)]
  BY AppendProperties DEF PutBlock, TypeOK, ProgramTypeOK
<1>7. QED
  BY <1>5, <1>6 DEF PutBlock, hostVars, TypeOK, PipeTypeOK, ExecTypeOK, ProgramTypeOK

LEMMA TypeEnds ==
  ASSUME TypeOK, NEW st \in {"exit0", "exit1", "signal", "abort"}, Ends(st),
         UNCHANGED <<input, out, result>>
  PROVE  TypeOK'
BY DEF Ends, ChildEnds, LastWords, TypeOK, PipeTypeOK, ExecTypeOK, ProgramTypeOK

LEMMA TypeProgram ==
  ASSUME TypeOK, StatusEmpty, Runs
  PROVE  TypeOK'
<1>. USE DEF TypeOK, PipeTypeOK, ExecTypeOK, ProgramTypeOK
<1>0. UNCHANGED <<input, out, result>>
  BY DEF Runs
<1>1. CASE ChildExec /\ UNCHANGED progVars
  BY <1>0, <1>1 DEF ChildExec, progVars
<1>2. ASSUME NEW e \in Errno, ChildExecFails(e), UNCHANGED progVars
      PROVE  TypeOK'
  <2>1. /\ "status" \in Pipes
        /\ Append(buf["status"], e) \in Seq(Content("status"))
        /\ Len(Append(buf["status"], e)) <= Cap
    <3>1. buf["status"] = <<>> /\ buf["status"] \in Seq(Errno)
      BY <1>2 DEF ChildExecFails, StatusEmpty, Pipes, BufOK, Content
    <3>2. Append(buf["status"], e) \in Seq(Errno) /\ Len(Append(buf["status"], e)) = 1
      BY <3>1, AppendProperties, EmptySeq
    <3>3. QED
      BY <3>2, CapAssumption DEF Pipes, Content
  <2>2. BufOK(buf')
    BY <1>2, <2>1, BufUpdate DEF ChildExecFails, uv__write_int
  <2>3. QED
    BY <1>0, <1>2, <2>2 DEF ChildExecFails, progVars
<1>3. CASE ((ChildAborts \/ ChildKilled) /\ LastWords)
  BY <1>0, <1>3, TypeEnds DEF ChildAborts, ChildKilled, Ends
<1>4. CASE ProgRead
  <2>1. "stdin" \in Pipes /\ buf["stdin"] \in Seq(Byte) /\ Len(buf["stdin"]) <= Cap
    BY DEF Pipes, BufOK, Content
  <2>2. buf["stdin"] # <<>>
    BY <1>4 DEF ProgRead, infra_pipe_read
  <2>3. /\ Head(buf["stdin"]) \in Byte
        /\ Tail(buf["stdin"]) \in Seq(Byte)
        /\ Len(Tail(buf["stdin"])) = Len(buf["stdin"]) - 1
    BY <2>1, <2>2, CutHead
  <2>4. Tail(buf["stdin"]) \in Seq(Content("stdin")) /\ Len(Tail(buf["stdin"])) <= Cap
    <3>1. Len(buf["stdin"]) \in Nat
      BY <2>1, LenProperties
    <3>2. QED
      BY <2>1, <2>3, <3>1, CapAssumption DEF Content
  <2>5. BufOK(buf')
    BY <1>4, <2>1, <2>4, BufUpdate DEF ProgRead
  <2>6. consumed' \in Seq(Byte)
    BY <1>4, <2>3, AppendProperties DEF ProgRead
  <2>7. QED
    BY <1>0, <1>4, <2>5, <2>6 DEF ProgRead, hostVars
<1>5. CASE ProgEof
  BY <1>0, <1>5 DEF ProgEof, hostVars
<1>6. CASE ProgEcho
  <2>1. Len(written[kind]) + 1 \in 1..Len(consumed) /\ kind \in Stream
    <3>1. kind \in Stream /\ Len(written[kind]) < Len(consumed)
      BY <1>6 DEF ProgEcho
    <3>2. Len(written[kind]) \in Nat /\ Len(consumed) \in Nat
      BY <3>1, LenProperties
    <3>3. QED
      BY <3>1, <3>2
  <2>2. consumed[Len(written[kind]) + 1] \in Byte
    BY <2>1, LenProperties
  <2>3. QED
    BY <1>0, <1>6, <2>1, <2>2, TypePutBlock DEF ProgEcho
<1>7. ASSUME NEW s \in Stream, NEW b \in Byte, ProgWrite(s, b) \/ OrphanWrite(s, b)
      PROVE  TypeOK'
  BY <1>0, <1>7, TypePutBlock DEF ProgWrite, OrphanWrite
<1>8. CASE ProgExit \/ ProgSigpipe
  BY <1>0, <1>8, TypeEnds DEF ProgExit, ProgSigpipe
<1>9. CASE ProgLeavesOrphan
  <2>1. open' \subseteq Fd
    BY <1>9 DEF ProgLeavesOrphan, HeldBy, Fd, Proc
  <2>2. QED
    BY <1>0, <1>9, <2>1 DEF ProgLeavesOrphan, hostVars
<1>10. CASE OrphanEnds
  BY <1>0, <1>10 DEF OrphanEnds, hostVars
<1>11. QED
  BY <1>1, <1>2, <1>3, <1>4, <1>5, <1>6, <1>7, <1>8, <1>9, <1>10
     DEF Runs, ProgramRuns, ProgramMay

\* Before the fork there is no program, and only the host opens pipes.
LEMMA UntouchedStep ==
  ASSUME TypeOK, Untouched, StatusEmpty, Next
  PROVE  Untouched' /\ StatusEmpty'
<1>. USE DEF exchangeVars, progVars, hostVars, pipeVars, execVars
<1>1. ASSUME NEW p \in {"stdin", "stdout", "stderr"}, OpenStdio(p)
      PROVE  Untouched' /\ StatusEmpty'
  <2>1. pc \in {"open_stdin", "open_stdout", "open_stderr"}
    BY <1>1 DEF OpenStdio, OpenAt
  <2>2. \A r \in Pipes : buf'[r] = <<>>
    BY <1>1, <2>1 DEF OpenStdio, Untouched, infra_pipe_open, TypeOK, PipeTypeOK, BufOK
  <2>3. pc' = "raised" \/ pc' = "aborted" \/ result' = result
    BY <1>1 DEF OpenStdio, ResultIfRaised, infra_raise_error, Abort, OpenAt
  <2>4. QED
    BY <1>1, <2>1, <2>2, <2>3 DEF OpenStdio, Untouched, StatusEmpty
<1>2. CASE ExecOpen /\ UNCHANGED exchangeVars
  <2>1. \A r \in Pipes : buf'[r] = <<>>
    BY <1>2 DEF ExecOpen, Untouched, infra_pipe_open, TypeOK, PipeTypeOK, BufOK
  <2>2. QED
    BY <1>2, <2>1 DEF ExecOpen, Untouched, StatusEmpty
<1>3. CASE infra_exec /\ ~ExecOpen /\ UNCHANGED exchangeVars
  BY <1>3 DEF infra_exec, ExecFork, ExecForkFails, ExecCloseWriter, ExecReadStatus, ExecReap,
              ExecFinish, Abort, infra_pipe_read, Untouched, StatusEmpty, Pipes, EAGAIN, ENOENT, ETIMEDOUT,
              infra_translate_sys_error
<1>4. CASE ExecReturns
  BY <1>4 DEF ExecReturns, infra_raise_error, Abort, Untouched, StatusEmpty
<1>5. CASE Poll
  BY <1>5 DEF Poll, Reap, AfterExit, Abort, waitpid, Untouched, StatusEmpty
<1>6. CASE Feed
  BY <1>6 DEF Feed, Abort, Untouched, StatusEmpty, Pipes, TypeOK, PipeTypeOK, BufOK
<1>7. CASE FeedDone \/ Gc \/ GcWait
  BY <1>7 DEF FeedDone, Gc, GcWait, Reap, Abort, Untouched, StatusEmpty
<1>8. ASSUME NEW s \in Stream, Receive(s) \/ HandlerEnds(s)
      PROVE  Untouched' /\ StatusEmpty'
  BY <1>8 DEF Receive, HandlerEnds, HandlerPc, After, Drains, Untouched, StatusEmpty, Stream,
              Pipes, TypeOK, PipeTypeOK, BufOK
<1>9. CASE Runs
  <2>1. child # "none" \/ orphan # "none"
    BY <1>9 DEF Runs, ProgramRuns, ProgramMay, ChildExec, ChildExecFails, ChildAborts,
                ChildKilled, ProgRead, ProgEof, ProgEcho, ProgWrite, ProgExit, ProgSigpipe,
                ProgLeavesOrphan, OrphanEnds, OrphanWrite
  <2>2. pc \notin {"options", "open_stdin", "open_stdout", "open_stderr", "exec_open", "fork"}
    BY <2>1 DEF Untouched
  <2>3. pc' = pc
    BY <1>9 DEF Runs, ProgramRuns, ProgramMay, ChildExec, ChildExecFails, ChildAborts, Ends,
                ChildEnds, ChildKilled, ProgRead, ProgEof, ProgEcho, ProgWrite, ProgExit,
                ProgSigpipe, ProgLeavesOrphan, OrphanEnds, OrphanWrite, PutBlock
  <2>4. StatusEmpty'
    <3>1. child' = "forked" => child = "forked" /\ buf'["status"] = buf["status"]
      <4>1. ASSUME NEW q, NEW s \in Stream, NEW b, PutBlock(q, s, b)
            PROVE  child' = child /\ buf'["status"] = buf["status"]
        BY <4>1 DEF PutBlock, Stream, Pipes, TypeOK, PipeTypeOK, BufOK
      <4>2. QED
        BY <1>9, <4>1
           DEF Runs, ProgramRuns, ProgramMay, ChildExec, ChildExecFails, ChildAborts, Ends,
               ChildEnds, ChildKilled, ProgRead, ProgEof, ProgEcho, ProgWrite, ProgExit,
               ProgSigpipe, ProgLeavesOrphan, OrphanEnds, OrphanWrite
    <3>2. QED
      BY <3>1 DEF StatusEmpty
  <2>5. QED
    BY <2>2, <2>3, <2>4 DEF Untouched
<1>10. CASE Stopped
  BY <1>10 DEF Stopped, vars, Untouched, StatusEmpty
<1>11. CASE Options
  BY <1>11 DEF Options, Untouched, StatusEmpty, ResultIfRaised
<1>12. QED
  BY <1>1, <1>2, <1>3, <1>4, <1>5, <1>6, <1>7, <1>8, <1>9, <1>10, <1>11 DEF Next, HostRuns

LEMMA TypeStep == TInv /\ [Next]_vars => TInv'
<1>. SUFFICES ASSUME TInv, [Next]_vars PROVE TInv'
  OBVIOUS
<1>. USE DEF TInv
<1>1. CASE Next
  <2>1. CASE Stopped
    BY <2>1 DEF Stopped, vars, pipeVars, execVars, progVars, TypeOK, PipeTypeOK, ExecTypeOK,
                ProgramTypeOK, Untouched, StatusEmpty
  <2>2. TypeOK'
    BY <1>1, <2>1, TypeStart, TypeExchange, TypeProgram DEF Next, HostRuns
  <2>3. QED
    BY <1>1, <2>2, UntouchedStep
<1>2. CASE UNCHANGED vars
  BY <1>2 DEF vars, pipeVars, execVars, progVars, TypeOK, PipeTypeOK, ExecTypeOK,
              ProgramTypeOK, Untouched, StatusEmpty
<1>3. QED
  BY <1>1, <1>2

\* Every variable has its type, and no pipe ever holds more than it can: in
\* particular infra_exec's status pipe and what Feed writes fit.
THEOREM TypeCorrect == Spec => []TypeOK
<1>1. TInv => TypeOK
  BY DEF TInv
<1>2. QED
  BY TypeInit, TypeStep, <1>1, PTL DEF Spec

-----------------------------------------------------------------------------
\* Descriptors.

LEMMA CloseHandlesKeeps ==
  ASSUME HandlesAreOpen, NEW hs, hs \subseteq Pipes \X End, CloseHandles(hs)
  PROVE  HandlesAreOpen'
<1>. SUFFICES ASSUME NEW p \in Pipes, NEW e \in End
              PROVE  <<p, e>> \in handle' <=> <<"host", p, e>> \in open'
  BY DEF HandlesAreOpen
<1>1. <<"host", p, e>> \in {<<"host", h[1], h[2]>> : h \in hs} <=> <<p, e>> \in hs
  <2>1. \A h \in hs : h = <<h[1], h[2]>>
    OBVIOUS
  <2>2. ASSUME NEW h \in hs, <<"host", p, e>> = <<"host", h[1], h[2]>>
        PROVE  <<p, e>> \in hs
    BY <2>1, <2>2
  <2>3. ASSUME <<p, e>> \in hs
        PROVE  \E h \in hs : <<"host", p, e>> = <<"host", h[1], h[2]>>
    BY <2>3
  <2>4. QED
    BY <2>2, <2>3
<1>2. QED
  BY <1>1 DEF CloseHandles, infra_pipe_close, HandlesAreOpen

\* The program and the orphan touch no descriptor of the host.
LEMMA RunsKeepsHost ==
  ASSUME Runs, NEW p, NEW e
  PROVE  /\ <<"host", p, e>> \in open' <=> <<"host", p, e>> \in open
         /\ UNCHANGED <<handle, pc, hProcess, ret, cause, input, out, result>>
<1>1. ASSUME NEW st, ChildEnds(st)
      PROVE  <<"host", p, e>> \in open' <=> <<"host", p, e>> \in open
  BY <1>1 DEF ChildEnds, HeldBy
<1>2. <<"host", p, e>> \in open' <=> <<"host", p, e>> \in open
  BY <1>1 DEF Runs, ProgramRuns, ProgramMay, ChildExec, ChildExecFails, ChildAborts, Ends,
              ChildKilled, ProgRead, ProgEof, ProgEcho, ProgWrite, ProgExit, ProgSigpipe,
              ProgLeavesOrphan, OrphanEnds, OrphanWrite, PutBlock, HeldBy
<1>3. UNCHANGED <<handle, pc, hProcess, ret, cause, input, out, result>>
  BY DEF Runs, ProgramRuns, ProgramMay, ChildExec, ChildExecFails, ChildAborts, Ends,
         ChildEnds, ChildKilled, ProgRead, ProgEof, ProgEcho, ProgWrite, ProgExit, ProgSigpipe,
         ProgLeavesOrphan, OrphanEnds, OrphanWrite, PutBlock, hostVars
<1>4. QED
  BY <1>2, <1>3

LEMMA HandlesStep ==
  ASSUME TypeOK, HandlesAreOpen, Next
  PROVE  HandlesAreOpen'
<1>. USE DEF exchangeVars, progVars, pipeVars, execVars
<1>0. handle \subseteq Pipes \X End
  BY DEF TypeOK, ExecTypeOK
<1>1. ASSUME NEW p \in Pipes, NEW r, NEW w,
             infra_pipe_open("host", p, r, w),
             handle' = handle \cup {<<p, "r">>, <<p, "w">>}
      PROVE  HandlesAreOpen'
  BY <1>1 DEF HandlesAreOpen, infra_pipe_open, Pipes, End
<1>2. ASSUME UNCHANGED <<open, handle>>
      PROVE  HandlesAreOpen'
  BY <1>2 DEF HandlesAreOpen
<1>3. ASSUME NEW p \in {"stdin", "stdout", "stderr"}, OpenStdio(p)
      PROVE  HandlesAreOpen'
  <2>1. p \in Pipes
    BY DEF Pipes
  <2>2. QED
    BY <1>1, <1>2, <1>3, <2>1 DEF OpenStdio
<1>4. CASE ExecOpen
  BY <1>1, <1>2, <1>4 DEF ExecOpen, Pipes
<1>5. CASE ExecFork
  BY <1>5 DEF ExecFork, HandlesAreOpen
<1>6. CASE ExecForkFails \/ ExecReadStatus \/ ExecReap \/ Poll \/ Feed \/ GcWait
  BY <1>2, <1>6 DEF ExecForkFails, ExecReadStatus, ExecReap, Poll, Feed, GcWait
<1>7. CASE ExecCloseWriter
  BY <1>7, CloseHandlesKeeps DEF ExecCloseWriter, Pipes, End
<1>8. CASE ExecFinish \/ Gc
  BY <1>0, <1>8, CloseHandlesKeeps DEF ExecFinish, Gc, GcCloses
<1>9. CASE ExecReturns
  BY <1>2, <1>9, CloseHandlesKeeps DEF ExecReturns, ProgramEnds, Pipes, End
<1>10. CASE FeedDone
  BY <1>0, <1>10, CloseHandlesKeeps DEF FeedDone
<1>11. ASSUME NEW s \in Stream, Receive(s) \/ HandlerEnds(s)
       PROVE  HandlesAreOpen'
  <2>1. <<s, "r">> \in Pipes \X End
    BY DEF Stream, Pipes, End
  <2>2. QED
    BY <1>2, <1>11, <2>1, CloseHandlesKeeps DEF Receive, HandlerEnds
<1>12. CASE Runs
  BY <1>12, RunsKeepsHost DEF HandlesAreOpen
<1>13. CASE Stopped
  BY <1>2, <1>13 DEF Stopped, vars
<1>14. CASE Options
  BY <1>2, <1>14 DEF Options, pipeVars
<1>15. QED
  BY <1>3, <1>4, <1>5, <1>6, <1>7, <1>8, <1>9, <1>10, <1>11, <1>12, <1>13, <1>14
     DEF Next, HostRuns, infra_exec

\* Whatever fails and whenever the collector runs, the handles of the userdata
\* and of infra_exec name exactly the descriptors the host has open.
THEOREM HandlesCorrect == Spec => []HandlesAreOpen
<1>1. Init => HandlesAreOpen
  BY DEF Init, PipeInit, ExecInit, HandlesAreOpen
<1>2. TInv /\ HandlesAreOpen /\ [Next]_vars => HandlesAreOpen'
  <2>1. CASE UNCHANGED vars
    BY <2>1 DEF vars, pipeVars, execVars, HandlesAreOpen
  <2>2. QED
    BY <2>1, HandlesStep DEF TInv
<1>3. QED
  BY <1>1, <1>2, TypeInit, TypeStep, PTL DEF Spec

-----------------------------------------------------------------------------
\* Data.

\* A raised error is final.
Unwound == result = "raised" => pc \in {"raised", "gc_wait", "done", "aborted"}

DInv == TInv /\ Unwound /\ OutputIsFaithful /\ InputIsFaithful

LEMMA UnwoundStep ==
  ASSUME TypeOK, Untouched, Unwound, Next
  PROVE  Unwound'
<1>. USE DEF exchangeVars, progVars, pipeVars, execVars, Unwound
<1>1. ASSUME NEW p \in {"stdin", "stdout", "stderr"}, OpenStdio(p)
      PROVE  Unwound'
  <2>1. result = "none"
    BY <1>1 DEF OpenStdio, OpenAt, Untouched
  <2>2. QED
    BY <1>1, <2>1 DEF OpenStdio, ResultIfRaised
<1>2. CASE infra_exec /\ UNCHANGED exchangeVars
  BY <1>2 DEF infra_exec, ExecOpen, ExecFork, ExecForkFails, ExecCloseWriter, ExecReadStatus,
              ExecReap, ExecFinish
<1>3. CASE ExecReturns
  BY <1>3 DEF ExecReturns, ResultIfRaised
<1>4. CASE Poll
  <2>1. result' # "raised"
    BY <1>4 DEF Poll, waitpid
  <2>2. QED
    BY <2>1
<1>5. CASE Feed \/ FeedDone
  BY <1>5 DEF Feed, FeedDone
<1>6. ASSUME NEW s \in Stream, Receive(s) \/ HandlerEnds(s)
      PROVE  Unwound'
  BY <1>6 DEF Receive, HandlerEnds, HandlerPc, ResultIfRaised
<1>7. CASE Gc \/ GcWait
  BY <1>7 DEF Gc, GcWait, Abort
<1>8. CASE Runs
  BY <1>8, RunsKeepsHost
<1>9. CASE Stopped
  BY <1>9 DEF Stopped, vars
<1>10. CASE Options
  BY <1>10 DEF Options, Untouched, ResultIfRaised
<1>11. QED
  BY <1>1, <1>2, <1>3, <1>4, <1>5, <1>6, <1>7, <1>8, <1>9, <1>10 DEF Next, HostRuns

\* What one write by the program or the orphan does to the stream.
LEMMA PutBlockFaithful ==
  ASSUME TypeOK, OutputIsFaithful, NEW q, NEW s \in Stream, NEW b \in Byte, PutBlock(q, s, b),
         UNCHANGED <<input, out, result>>
  PROVE  OutputIsFaithful' /\ UNCHANGED <<buf["stdin"], consumed>>
<1>1. /\ buf \in [Pipes -> Seq(Byte \cup Errno)] /\ s \in Pipes
      /\ buf[s] \in Seq(Byte) /\ out[s] \in Seq(Byte)
      /\ written \in [Stream -> Seq(Byte)]
  BY DEF TypeOK, PipeTypeOK, BufOK, ProgramTypeOK, Content, Stream, Pipes
<1>2. Append(out[s] \o buf[s], b) = out[s] \o Append(buf[s], b)
  <2>1. out[s] \o buf[s] \in Seq(Byte) /\ <<b>> \in Seq(Byte)
    BY <1>1, ConcatProperties
  <2>2. /\ Append(out[s] \o buf[s], b) = (out[s] \o buf[s]) \o <<b>>
        /\ Append(buf[s], b) = buf[s] \o <<b>>
    BY <1>1, <2>1, AppendIsConcat
  <2>3. \A a, c, d \in Seq(Byte) : (a \o c) \o d = a \o (c \o d)
    BY ConcatAssociative
  <2>4. (out[s] \o buf[s]) \o <<b>> = out[s] \o (buf[s] \o <<b>>)
    BY <1>1, <2>1, <2>3
  <2>5. QED
    BY <2>2, <2>4, Zenon
<1>3. ASSUME NEW t \in Stream, result' # "raised"
      PROVE  written'[t] = out'[t] \o buf'[t]
  <2>1. written[t] = out[t] \o buf[t]
    BY <1>3 DEF OutputIsFaithful
  <2>2. CASE t = s
    BY <1>1, <1>2, <2>1, <2>2 DEF PutBlock
  <2>3. CASE t # s
    BY <1>1, <2>1, <2>3 DEF PutBlock, Stream, Pipes
  <2>4. QED
    BY <2>2, <2>3
<1>4. UNCHANGED <<buf["stdin"], consumed>>
  BY <1>1 DEF PutBlock, Stream, Pipes
<1>5. QED
  BY <1>3, <1>4 DEF OutputIsFaithful

\* Everything that leaves the streams and stdin alone.
LEMMA DataUnmoved ==
  ASSUME OutputIsFaithful, InputIsFaithful, result # "raised" \/ result' = result,
         UNCHANGED <<written, out, consumed, input>>,
         \A p \in {"stdin", "stdout", "stderr"} : buf'[p] = buf[p],
         pc' \in {"gc_wait", "done", "aborted"} \/ pc \notin {"gc_wait", "done", "aborted"}
  PROVE  OutputIsFaithful' /\ InputIsFaithful'
<1>1. OutputIsFaithful'
  BY DEF OutputIsFaithful, Stream
<1>2. InputIsFaithful'
  BY DEF InputIsFaithful
<1>3. QED
  BY <1>1, <1>2

LEMMA ReceiveFaithful ==
  ASSUME TypeOK, OutputIsFaithful, InputIsFaithful, NEW s \in Stream, Receive(s)
  PROVE  OutputIsFaithful' /\ InputIsFaithful'
<1>. DEFINE n == Least(ReadSz, Len(buf[s]))
<1>1. /\ buf \in [Pipes -> Seq(Byte \cup Errno)] /\ s \in Pipes
      /\ buf[s] \in Seq(Byte) /\ out[s] \in Seq(Byte)
      /\ out \in [Stream -> Seq(Byte)]
  BY DEF TypeOK, PipeTypeOK, BufOK, Content, Stream, Pipes
<1>2. n \in 0..Len(buf[s])
  <2>1. ReadSz \in Nat /\ Len(buf[s]) \in Nat
    BY <1>1, ReadSzAssumption, LenProperties
  <2>2. QED
    BY <2>1, LeastBounds
<1>3. /\ Chunk(s) \in Seq(Byte) /\ Rest(s) \in Seq(Byte)
      /\ Chunk(s) \o Rest(s) = buf[s]
  <2>1. Chunk(s) = SubSeq(buf[s], 1, n) /\ Rest(s) = SubSeq(buf[s], n + 1, Len(buf[s]))
    BY DEF Chunk, Rest
  <2>. HIDE DEF n
  <2>2. \A q \in Seq(Byte), i \in 0..Len(buf[s]) :
           q = buf[s] => /\ SubSeq(q, 1, i) \in Seq(Byte)
                         /\ SubSeq(q, i + 1, Len(q)) \in Seq(Byte)
                         /\ SubSeq(q, 1, i) \o SubSeq(q, i + 1, Len(q)) = q
    BY Cut
  <2>3. QED
    BY <1>1, <1>2, <2>1, <2>2, Zenon
<1>4. Appended(s) \o Rest(s) = out[s] \o buf[s]
  <2>1. \A a, b, c \in Seq(Byte) : (a \o b) \o c = a \o (b \o c)
    BY ConcatAssociative
  <2>2. (out[s] \o Chunk(s)) \o Rest(s) = out[s] \o (Chunk(s) \o Rest(s))
    BY <1>1, <1>3, <2>1
  <2>3. QED
    BY <1>3, <2>2, Zenon DEF Appended
<1>5. ASSUME NEW t \in Stream, result' # "raised"
      PROVE  written'[t] = out'[t] \o buf'[t]
  <2>1. out' = [out EXCEPT ![s] = Appended(s)] /\ result # "raised"
    BY <1>5 DEF Receive, ResultIfRaised
  <2>2. written[t] = out[t] \o buf[t] /\ written' = written
    BY <2>1 DEF OutputIsFaithful, Receive, progVars
  <2>3. buf' = [buf EXCEPT ![s] = Rest(s)]
    BY DEF Receive
  <2>4. CASE t = s
    <3>1. out'[t] = Appended(s) /\ buf'[t] = Rest(s)
      BY <1>1, <2>1, <2>3, <2>4
    <3>2. QED
      BY <1>4, <2>2, <2>4, <3>1, Zenon
  <2>5. CASE t # s
    <3>1. out'[t] = out[t] /\ buf'[t] = buf[t]
      BY <1>1, <2>1, <2>3, <2>5 DEF Stream, Pipes
    <3>2. QED
      BY <2>2, <3>1, Zenon
  <2>6. QED
    BY <2>4, <2>5
<1>6. InputIsFaithful'
  <2>1. buf'["stdin"] = buf["stdin"] /\ UNCHANGED <<consumed, input>>
    BY <1>1 DEF Receive, progVars, Stream, Pipes
  <2>2. pc \notin {"gc_wait", "done", "aborted"}
    BY DEF Receive, HandlerPc
  <2>3. QED
    BY <2>1, <2>2 DEF InputIsFaithful
<1>7. QED
  BY <1>5, <1>6 DEF OutputIsFaithful

LEMMA FeedFaithful ==
  ASSUME TypeOK, OutputIsFaithful, InputIsFaithful, Feed
  PROVE  OutputIsFaithful' /\ InputIsFaithful'
<1>. DEFINE n == Fits("stdin", input)
<1>1. /\ buf \in [Pipes -> Seq(Byte \cup Errno)] /\ "stdin" \in Pipes
      /\ buf["stdin"] \in Seq(Byte) /\ input \in Seq(Byte) /\ consumed \in Seq(Byte)
      /\ Len(buf["stdin"]) <= Cap
  BY DEF TypeOK, PipeTypeOK, BufOK, ProgramTypeOK, Content, Pipes
<1>2. pc \notin {"gc_wait", "done", "aborted"}
  BY DEF Feed
<1>3. Input = (consumed \o buf["stdin"]) \o input
  BY <1>2 DEF InputIsFaithful
<1>4. UNCHANGED <<consumed, written, out, result>>
  BY DEF Feed, progVars
<1>5. CASE infra_pipe_write("stdin") = "sent"
  <2>. DEFINE front == SubSeq(input, 1, n)
              back  == SubSeq(input, n + 1, Len(input))
  <2>1. n \in 0..Len(input)
    <3>1. Cap - Len(buf["stdin"]) \in Nat /\ Len(input) \in Nat
      BY <1>1, CapAssumption, LenProperties
    <3>2. QED
      BY <3>1, LeastBounds DEF Fits
  <2>2. /\ buf' = [buf EXCEPT !["stdin"] = buf["stdin"] \o front]
        /\ input' = back
    BY <1>5 DEF Feed, Left
  <2>. HIDE DEF n
  <2>3. front \in Seq(Byte) /\ back \in Seq(Byte) /\ front \o back = input
    BY <1>1, <2>1, Cut
  <2>. HIDE DEF front, back
  <2>4. \A a, c, d \in Seq(Byte) : (a \o c) \o d = a \o (c \o d)
    BY ConcatAssociative
  <2>5. consumed \o buf["stdin"] \in Seq(Byte)
    BY <1>1, ConcatProperties
  <2>6. (consumed \o buf["stdin"]) \o front = consumed \o (buf["stdin"] \o front)
    BY <1>1, <2>3, <2>4, SMTT(30)
  <2>7. ((consumed \o buf["stdin"]) \o front) \o back
          = (consumed \o buf["stdin"]) \o (front \o back)
    BY <2>3, <2>4, <2>5
  <2>8. Input = (consumed \o (buf["stdin"] \o front)) \o back
    BY <1>3, <2>3, <2>6, <2>7, Zenon
  <2>9. buf'["stdin"] = buf["stdin"] \o front
    BY <1>1, <2>2
  <2>10. InputIsFaithful'
    BY <1>4, <2>2, <2>8, <2>9, Zenon DEF InputIsFaithful
  <2>11. \A s \in Stream : buf'[s] = buf[s]
    BY <1>1, <2>2 DEF Stream, Pipes
  <2>12. OutputIsFaithful'
    BY <1>4, <2>11 DEF OutputIsFaithful
  <2>13. QED
    BY <2>10, <2>12
<1>6. CASE infra_pipe_write("stdin") # "sent"
  <2>1. UNCHANGED <<buf, input>>
    BY <1>6 DEF Feed
  <2>2. QED
    BY <1>2, <1>4, <2>1, DataUnmoved
<1>7. QED
  BY <1>5, <1>6

LEMMA ReadFaithful ==
  ASSUME TypeOK, OutputIsFaithful, InputIsFaithful, ProgRead, UNCHANGED <<input, out, result>>
  PROVE  OutputIsFaithful' /\ InputIsFaithful'
<1>. DEFINE h == Head(buf["stdin"])
            r == Tail(buf["stdin"])
<1>1. /\ buf \in [Pipes -> Seq(Byte \cup Errno)] /\ "stdin" \in Pipes
      /\ buf["stdin"] \in Seq(Byte) /\ consumed \in Seq(Byte)
  BY DEF TypeOK, PipeTypeOK, BufOK, ProgramTypeOK, Content, Pipes
<1>2. buf["stdin"] # <<>>
  BY DEF ProgRead, infra_pipe_read
<1>3. h \in Byte /\ r \in Seq(Byte) /\ <<h>> \o r = buf["stdin"]
  BY <1>1, <1>2, CutHead
<1>4. /\ buf' = [buf EXCEPT !["stdin"] = r]
      /\ consumed' = Append(consumed, h)
      /\ UNCHANGED <<pc, written>>
  BY DEF ProgRead, hostVars
<1>. HIDE DEF h, r
<1>5. Append(consumed, h) = consumed \o <<h>> /\ <<h>> \in Seq(Byte)
  BY <1>1, <1>3, AppendIsConcat
<1>6. \A a, c, d \in Seq(Byte) : (a \o c) \o d = a \o (c \o d)
  BY ConcatAssociative
<1>7. (consumed \o <<h>>) \o r = consumed \o (<<h>> \o r)
  BY <1>1, <1>3, <1>5, <1>6
<1>8. consumed' \o r = consumed \o buf["stdin"]
  BY <1>3, <1>4, <1>5, <1>7, Zenon
<1>9. buf'["stdin"] = r
  BY <1>1, <1>4
<1>10. InputIsFaithful'
  BY <1>4, <1>8, <1>9, Zenon DEF InputIsFaithful
<1>11. \A s \in Stream : buf'[s] = buf[s]
  BY <1>1, <1>4 DEF Stream, Pipes
<1>12. OutputIsFaithful'
  BY <1>4, <1>11 DEF OutputIsFaithful
<1>13. QED
  BY <1>10, <1>12

\* No data: nothing is lost.
LEMMA UntouchedFaithful ==
  ASSUME \A s \in Stream : written[s] = <<>> /\ out[s] = <<>>,
         \A p \in Pipes : buf[p] = <<>>,
         consumed = <<>>, input = Input
  PROVE  OutputIsFaithful /\ InputIsFaithful
<1>1. <<>> \o <<>> = <<>>
  BY EmptySeq, ConcatEmptySeq
<1>2. (<<>> \o <<>>) \o Input = Input
  BY <1>1, InputAssumption, ConcatEmptySeq
<1>3. "stdin" \in Pipes /\ \A s \in Stream : s \in Pipes
  BY DEF Pipes, Stream
<1>4. OutputIsFaithful
  BY <1>1, <1>3, Zenon DEF OutputIsFaithful
<1>5. InputIsFaithful
  BY <1>2, <1>3, Zenon DEF InputIsFaithful
<1>6. QED
  BY <1>4, <1>5

LEMMA DataInit == Init => Unwound /\ OutputIsFaithful /\ InputIsFaithful
BY UntouchedFaithful DEF Init, PipeInit, ExecInit, ProgramInit, Unwound

LEMMA DataStep ==
  ASSUME TInv, Unwound, OutputIsFaithful, InputIsFaithful, Next
  PROVE  OutputIsFaithful' /\ InputIsFaithful'
<1>. DEFINE Goal == OutputIsFaithful' /\ InputIsFaithful'
<1>. USE DEF TInv, exchangeVars, progVars, pipeVars, execVars
<1>0. /\ buf \in [Pipes -> Seq(Byte \cup Errno)]
      /\ "status" \in Pipes /\ {"stdin", "stdout", "stderr"} \subseteq Pipes \ {"status"}
  BY DEF TypeOK, PipeTypeOK, BufOK, Pipes
<1>1. ASSUME NEW p \in {"stdin", "stdout", "stderr"}, OpenStdio(p)
      PROVE  Goal
  <2>1. pc \in {"open_stdin", "open_stdout", "open_stderr"}
    BY <1>1 DEF OpenStdio, OpenAt
  <2>2. \A q \in Pipes : buf'[q] = buf[q]
    BY <1>0, <1>1, <2>1 DEF OpenStdio, infra_pipe_open, Untouched
  <2>3. result # "raised"
    BY <2>1 DEF Untouched
  <2>4. QED
    BY <1>0, <1>1, <2>1, <2>2, <2>3, DataUnmoved DEF OpenStdio
<1>2. CASE ExecOpen /\ UNCHANGED exchangeVars
  <2>1. \A q \in Pipes : buf'[q] = buf[q]
    BY <1>0, <1>2 DEF ExecOpen, infra_pipe_open, Untouched
  <2>2. QED
    BY <1>0, <1>2, <2>1, DataUnmoved DEF ExecOpen
<1>3. CASE (ExecFork \/ ExecForkFails \/ ExecCloseWriter \/ ExecReap \/ ExecFinish)
             /\ UNCHANGED exchangeVars
  <2>1. buf' = buf /\ pc \notin {"gc_wait", "done", "aborted"}
    BY <1>3 DEF ExecFork, ExecForkFails, ExecCloseWriter, ExecReap, ExecFinish
  <2>2. QED
    BY <1>3, <2>1, DataUnmoved
<1>4. CASE ExecReadStatus /\ UNCHANGED exchangeVars
  <2>1. \A q \in {"stdin", "stdout", "stderr"} : buf'[q] = buf[q]
    BY <1>0, <1>4 DEF ExecReadStatus
  <2>2. QED
    BY <1>4, <2>1, DataUnmoved DEF ExecReadStatus
<1>5. CASE ExecReturns
  <2>1. result # "raised"
    BY <1>5 DEF ExecReturns, Unwound
  <2>2. QED
    BY <1>5, <2>1, DataUnmoved DEF ExecReturns
<1>6. CASE Poll
  <2>1. result # "raised"
    BY <1>6 DEF Poll, Unwound
  <2>2. QED
    BY <1>6, <2>1, DataUnmoved DEF Poll
<1>7. CASE Feed
  BY <1>7, FeedFaithful
<1>8. CASE FeedDone
  BY <1>8, DataUnmoved DEF FeedDone
<1>9. ASSUME NEW s \in Stream, Receive(s)
      PROVE  Goal
  BY <1>9, ReceiveFaithful
<1>10. ASSUME NEW s \in Stream, HandlerEnds(s)
       PROVE  Goal
  <2>1. pc \notin {"gc_wait", "done", "aborted"}
    BY <1>10 DEF HandlerEnds, HandlerPc
  <2>2. QED
    BY <1>10, <2>1, DataUnmoved DEF HandlerEnds
<1>11. CASE Gc
  <2>1. pc' \in {"gc_wait", "done", "aborted"} /\ UNCHANGED <<written, out, buf, result>>
    BY <1>11 DEF Gc
  <2>2. QED
    BY <2>1 DEF OutputIsFaithful, InputIsFaithful
<1>12. CASE GcWait
  <2>1. pc' \in {"gc_wait", "done", "aborted"} /\ UNCHANGED <<written, out, buf, result>>
    BY <1>12 DEF GcWait, Abort
  <2>2. QED
    BY <2>1 DEF OutputIsFaithful, InputIsFaithful
<1>13. CASE Runs
  <2>1. UNCHANGED <<pc, input, out, result>>
    BY <1>13, RunsKeepsHost
  <2>2. ASSUME NEW q, NEW s \in Stream, NEW b \in Byte, PutBlock(q, s, b)
        PROVE  Goal
    BY <2>1, <2>2, PutBlockFaithful DEF InputIsFaithful
  <2>3. CASE ProgEcho
    <3>1. kind \in Stream /\ Len(written[kind]) < Len(consumed)
      BY <2>3 DEF ProgEcho
    <3>2. Len(written[kind]) \in Nat /\ Len(consumed) \in Nat
      BY <3>1, LenProperties DEF TypeOK, ProgramTypeOK
    <3>3. Len(written[kind]) + 1 \in 1..Len(consumed)
      BY <3>1, <3>2
    <3>4. consumed[Len(written[kind]) + 1] \in Byte
      BY <3>3, LenProperties DEF TypeOK, ProgramTypeOK
    <3>5. QED
      BY <2>2, <2>3, <3>1, <3>4 DEF ProgEcho
  <2>4. ASSUME NEW s \in Stream, NEW b \in Byte, ProgWrite(s, b) \/ OrphanWrite(s, b)
        PROVE  Goal
    BY <2>2, <2>4 DEF ProgWrite, OrphanWrite
  <2>5. CASE ProgRead
    BY <2>1, <2>5, ReadFaithful
  <2>6. ASSUME NEW e \in Errno, ChildExecFails(e), UNCHANGED progVars
        PROVE  Goal
    <3>1. \A q \in {"stdin", "stdout", "stderr"} : buf'[q] = buf[q]
      BY <1>0, <2>6 DEF ChildExecFails, uv__write_int
    <3>2. QED
      BY <2>1, <2>6, <3>1, DataUnmoved
  <2>7. CASE \/ (ChildExec /\ UNCHANGED progVars)
             \/ ((ChildAborts \/ ChildKilled) /\ LastWords)
             \/ ProgEof \/ ProgExit \/ ProgSigpipe \/ ProgLeavesOrphan \/ OrphanEnds
    <3>1. UNCHANGED <<buf, written, consumed>>
      BY <2>7 DEF ChildExec, ChildAborts, ChildKilled, ChildEnds, LastWords, Ends, ProgEof,
                  ProgExit, ProgSigpipe, ProgLeavesOrphan, OrphanEnds
    <3>2. QED
      BY <2>1, <3>1, DataUnmoved
  <2>8. QED
    BY <1>13, <2>3, <2>4, <2>5, <2>6, <2>7 DEF Runs, ProgramRuns, ProgramMay
<1>14. CASE Stopped
  BY <1>14, DataUnmoved DEF Stopped, vars
<1>15. CASE Options
  BY <1>15, DataUnmoved DEF Options, Untouched
<1>16. QED
  BY <1>1, <1>2, <1>3, <1>4, <1>5, <1>6, <1>7, <1>8, <1>9, <1>10, <1>11, <1>12, <1>13, <1>14, <1>15
     DEF Next, HostRuns, infra_exec

LEMMA DataInv == Spec => []DInv
<1>1. Init => DInv
  BY TypeInit, DataInit DEF DInv
<1>2. DInv /\ [Next]_vars => DInv'
  <2>1. CASE UNCHANGED vars
    BY <2>1, TypeStep
       DEF DInv, vars, pipeVars, execVars, progVars, Unwound, OutputIsFaithful, InputIsFaithful
  <2>2. CASE Next
    BY <2>2, TypeStep, UnwoundStep, DataStep DEF DInv, TInv
  <2>3. QED
    BY <2>1, <2>2
<1>3. QED
  BY <1>1, <1>2, PTL DEF Spec

\* What is written to stdout and stderr is what the call has collected and
\* what the pipe holds, in order, through every partial read.
THEOREM OutputCorrect == Spec => []OutputIsFaithful
<1>1. DInv => OutputIsFaithful
  BY DEF DInv
<1>2. QED
  BY <1>1, DataInv, PTL

\* The program reads the input in order, whatever the pipe takes at a time.
THEOREM InputCorrect == Spec => []InputIsFaithful
<1>1. DInv => InputIsFaithful
  BY DEF DInv
<1>2. QED
  BY <1>1, DataInv, PTL

-----------------------------------------------------------------------------
(***************************************************************************)
(* Proofs about the process infra.execute starts: that it is started or    *)
(* gone for good when infra_exec says so, waited for once, and never left  *)
(* behind.                                                                 *)
(***************************************************************************)

BeforeFork == {"options", "open_stdin", "open_stdout", "open_stderr", "exec_open", "fork"}
Exchanging == {"exchange", "feed", "stdout", "stderr"}
Ending     == Drains \cup {"returned"}

\* The process runs or is a zombie, and it is known by its identifier; or it
\* has been waited for, and the identifier is forgotten; or there has been none.
NotYet == hProcess = "INVALID" /\ child = "none"
Alive  == hProcess = "pid" /\ child \in {"image", "zombie"}
Reaped == hProcess = "INVALID" /\ child = "reaped"

\* Until the status pipe is read a child that has not got through execvp holds
\* its writer, and one that has failed there has said so.
Starting ==
    /\ hProcess = "pid" /\ child \in {"forked", "failed", "image", "zombie"}
    /\ child \in {"forked", "failed"} => <<"child", "status", "w">> \in open
    /\ child = "failed" \/ wstatus = "abort" => buf["status"] # <<>>
    /\ buf["status"] # <<>> => child \in {"failed", "zombie"}

\* What infra_exec is about to return, and why.
NotForked == pc = "exec_return" /\ ret = EMFILE /\ child = "none" /\ hProcess = "INVALID"
Started   == ret = 0 /\ Alive /\ wstatus # "abort"
Failed    == ret \in Errno /\ child = "reaped" /\ hProcess = "pid"

\* The life of the process along the way of the host.
Life ==
    /\ wstatus = "none" <=> child \in {"none", "forked", "failed", "image"}
    /\ pc = "fork" => <<"status", "w">> \in handle
    /\ pc \in {"close_writer", "read_status"} => Starting
    /\ pc = "exec_reap" => ret \in Errno /\ hProcess = "pid" /\ child \in {"failed", "zombie"}
    /\ pc \in {"exec_finish", "exec_return"} => NotForked \/ Started \/ Failed
    /\ pc \in Exchanging => Alive
    /\ pc \in Ending => Reaped
    /\ pc = "raised" => Alive \/ Reaped \/ NotYet
    /\ pc = "gc_wait" => Alive /\ handle = {}
    /\ pc = "done" => (Reaped \/ NotYet) /\ handle = {}

LInv == TInv /\ HandlesAreOpen /\ Life

-----------------------------------------------------------------------------
\* The steps of the program, as far as they concern its life.

\* A child that has not been started yet, one that fails, and the end of one.
Begins == /\ child = "forked" /\ child' = "image"
          /\ UNCHANGED wstatus /\ buf'["status"] = buf["status"]
Fails  == /\ child = "forked" /\ child' = "failed" /\ UNCHANGED wstatus
          /\ <<"child", "status", "w">> \in open => <<"child", "status", "w">> \in open'
          /\ buf'["status"] # <<>>
Dies   == /\ child \in {"forked", "failed", "image"} /\ child' = "zombie"
          /\ wstatus' \in {"exit0", "exit1", "signal", "abort"}
          /\ wstatus' = "abort" => child = "failed"
          /\ buf'["status"] = buf["status"]
Lives  == /\ UNCHANGED <<child, wstatus>> /\ buf'["status"] = buf["status"]
          /\ <<"child", "status", "w">> \in open => <<"child", "status", "w">> \in open'

LEMMA RunsLife ==
  ASSUME TypeOK, Runs
  PROVE  Begins \/ Fails \/ Dies \/ Lives
<1>. USE DEF Begins, Fails, Dies, Lives
<1>0. buf \in [Pipes -> Seq(Byte \cup Errno)] /\ buf["status"] \in Seq(Errno)
  BY DEF TypeOK, PipeTypeOK, BufOK, Pipes, Content
<1>1. CASE ChildExec
  BY <1>1 DEF ChildExec
<1>2. ASSUME NEW e \in Errno, ChildExecFails(e)
      PROVE  Fails
  <2>1. buf'["status"] = Append(buf["status"], e)
    BY <1>0, <1>2 DEF ChildExecFails, uv__write_int, Pipes
  <2>2. buf'["status"] # <<>>
    BY <1>0, <2>1, AppendProperties, EmptySeq
  <2>3. QED
    BY <1>2, <2>2 DEF ChildExecFails
<1>3. CASE ChildAborts \/ ChildKilled
  BY <1>3 DEF ChildAborts, ChildKilled, ChildEnds
<1>4. CASE ProgExit \/ ProgSigpipe
  BY <1>4 DEF ProgExit, ProgSigpipe, Ends, ChildEnds
<1>5. ASSUME NEW q, NEW s \in Stream, NEW b, PutBlock(q, s, b)
      PROVE  Lives
  BY <1>0, <1>5 DEF PutBlock, Stream, Pipes
<1>6. CASE ProgRead
  BY <1>0, <1>6 DEF ProgRead, Pipes
<1>7. CASE ProgEof \/ ProgLeavesOrphan
  BY <1>7 DEF ProgEof, ProgLeavesOrphan
<1>8. CASE OrphanEnds
  BY <1>8 DEF OrphanEnds, HeldBy
<1>9. QED
  BY <1>1, <1>2, <1>3, <1>4, <1>5, <1>6, <1>7, <1>8
     DEF Runs, ProgramRuns, ProgramMay, ProgEcho, ProgWrite, OrphanWrite

LEMMA LifeInit == Init => Life
BY DEF Init, PipeInit, ExecInit, ProgramInit, Life, Exchanging, Ending, Drains

\* Whatever the program does, the host finds it as it expects.
LEMMA LifeRuns ==
  ASSUME TypeOK, Life, Runs
  PROVE  Life'
<1>1. UNCHANGED <<handle, pc, hProcess, ret>>
  BY RunsKeepsHost
<1>2. CASE Begins
  BY <1>1, <1>2 DEF Begins, Life, Starting, NotForked, Started, Failed, Alive, Reaped, NotYet
<1>3. CASE Fails
  BY <1>1, <1>3 DEF Fails, Life, Starting, NotForked, Started, Failed, Alive, Reaped, NotYet
<1>4. CASE Dies
  BY <1>1, <1>4 DEF Dies, Life, Starting, NotForked, Started, Failed, Alive, Reaped, NotYet
<1>5. CASE Lives
  BY <1>1, <1>5 DEF Lives, Life, Starting, NotForked, Started, Failed, Alive, Reaped, NotYet
<1>6. QED
  BY <1>2, <1>3, <1>4, <1>5, RunsLife

\* An errno has no text: the host does not survive it.
LEMMA ErrnoIsFatal ==
  ASSUME NEW e \in Errno \cup {EMFILE}, infra_raise_error(e)
  PROVE  pc' = "aborted"
<1>1. e \in Nat \ {0}
  BY ErrnoAssumption DEF EMFILE
<1>2. e \notin infra_strerror
  BY <1>1 DEF infra_strerror, INFRA_EOF, INFRA_UNKNOWN, INFRA_ETIMEDOUT, INFRA_ENOENT
<1>3. QED
  BY <1>2 DEF infra_raise_error, Abort

\* The steps of infra_exec.
LEMMA LifeExec ==
  ASSUME LInv, infra_exec, UNCHANGED exchangeVars
  PROVE  Life'
<1>. USE DEF LInv, TInv, Life, Exchanging, Ending, Drains
<1>1. CASE ExecOpen
  <2>1. child = "none" /\ hProcess = "INVALID"
    BY <1>1 DEF ExecOpen, Untouched
  <2>2. QED
    BY <1>1, <2>1 DEF ExecOpen, NotForked
<1>2. CASE ExecFork
  <2>1. buf["status"] = <<>> /\ child = "none"
    BY <1>2 DEF ExecFork, Untouched, Pipes
  <2>2. <<"host", "status", "w">> \in open
    BY <1>2 DEF ExecFork, HandlesAreOpen, Pipes, End
  <2>3. <<"child", "status", "w">> \in open'
    BY <1>2, <2>2 DEF ExecFork, HeldBy
  <2>4. QED
    BY <1>2, <2>1, <2>3 DEF ExecFork, Starting
<1>3. CASE ExecForkFails
  <2>1. pc' = "aborted" /\ UNCHANGED <<child, wstatus>>
    BY <1>3 DEF ExecForkFails, Abort, EAGAIN, ENOENT, ETIMEDOUT, infra_translate_sys_error
  <2>2. QED
    BY <2>1
<1>4. CASE ExecCloseWriter
  <2>1. <<"child", "status", "w">> \in open => <<"child", "status", "w">> \in open'
    BY <1>4 DEF ExecCloseWriter, CloseHandles, infra_pipe_close
  <2>2. QED
    BY <1>4, <2>1 DEF ExecCloseWriter, Starting
<1>5. CASE ExecReadStatus
  <2>1. Starting
    BY <1>5 DEF ExecReadStatus
  <2>2. CASE infra_pipe_read("status") = "eof"
    <3>1. ret' = 0 /\ pc' = "exec_finish" /\ UNCHANGED <<hProcess, child, wstatus>>
      BY <1>5, <2>2 DEF ExecReadStatus
    <3>2. buf["status"] = <<>> /\ <<"child", "status", "w">> \notin open
      BY <2>2 DEF infra_pipe_read, HasWriter, Proc
    <3>3. Started'
      BY <2>1, <3>1, <3>2 DEF Starting, Started, Alive
    <3>4. QED
      BY <3>1, <3>3
  <2>3. CASE infra_pipe_read("status") = "data"
    <3>1. buf["status"] # <<>> /\ buf["status"] \in Seq(Errno)
      BY <2>3 DEF infra_pipe_read, TypeOK, PipeTypeOK, BufOK, Pipes, Content
    <3>2. Head(buf["status"]) \in Errno
      BY <3>1, CutHead
    <3>3. /\ ret' = Head(buf["status"]) /\ pc' = "exec_reap"
          /\ UNCHANGED <<hProcess, child, wstatus>>
      BY <1>5, <2>3 DEF ExecReadStatus
    <3>4. QED
      BY <2>1, <3>1, <3>2, <3>3 DEF Starting
  <2>4. QED
    BY <1>5, <2>2, <2>3, ReadStatusEnds DEF ExecReadStatus, Abort
<1>6. CASE ExecReap
  BY <1>6 DEF ExecReap, Failed
<1>7. CASE ExecFinish
  BY <1>7 DEF ExecFinish, NotForked, Started, Failed, Alive
<1>8. QED
  BY <1>1, <1>2, <1>3, <1>4, <1>5, <1>6, <1>7 DEF infra_exec

\* All steps of the host.
LEMMA LifeHost ==
  ASSUME LInv, HostRuns
  PROVE  Life'
<1>. USE DEF LInv, TInv, Life, Exchanging, Ending, Drains
<1>1. ASSUME NEW p \in {"stdin", "stdout", "stderr"}, OpenStdio(p)
      PROVE  Life'
  BY <1>1, ErrnoIsFatal DEF OpenStdio, OpenAt
<1>2. CASE ExecReturns
  <2>1. CASE ret = 0
    <3>1. 0 \notin Errno
      BY ErrnoAssumption
    <3>2. Alive
      BY <1>2, <2>1, <3>1 DEF ExecReturns, NotForked, Started, Failed, EMFILE
    <3>3. pc' \in {"exchange", "raised"} /\ UNCHANGED <<hProcess, child, wstatus>>
      BY <1>2, <2>1 DEF ExecReturns
    <3>4. QED
      BY <3>2, <3>3 DEF Alive
  <2>2. CASE ret # 0
    <3>1. ret \in Errno \cup {EMFILE}
      BY <1>2, <2>2 DEF ExecReturns, NotForked, Started, Failed
    <3>2. pc' = "aborted" /\ UNCHANGED <<child, wstatus>>
      BY <1>2, <2>2, <3>1, ErrnoIsFatal DEF ExecReturns
    <3>3. QED
      BY <3>2
  <2>3. QED
    BY <2>1, <2>2
<1>3. CASE Poll
  BY <1>3 DEF Poll, waitpid, Reap, AfterExit, Abort, Alive, Reaped, NotYet
<1>4. CASE Feed
  BY <1>4 DEF Feed, Abort, Alive
<1>5. CASE FeedDone
  BY <1>5 DEF FeedDone, exchangeVars, Alive
<1>6. ASSUME NEW s \in Stream, Receive(s)
      PROVE  Life'
  BY <1>6 DEF Receive, HandlerPc, Stream, Alive, Reaped, NotYet
<1>7. ASSUME NEW s \in Stream, HandlerEnds(s)
      PROVE  Life'
  BY <1>7 DEF HandlerEnds, HandlerPc, After, Stream, Alive, Reaped, NotYet
<1>8. CASE Gc
  <2>1. handle' = {}
    BY <1>8 DEF Gc, GcCloses, CloseHandles
  <2>2. QED
    BY <1>8, <2>1 DEF Gc, Alive, Reaped, NotYet
<1>9. CASE GcWait
  BY <1>9 DEF GcWait, Reap, Abort, waitpid, exchangeVars, Alive, Reaped, NotYet
<1>10. CASE Options
  BY <1>10 DEF Options, Untouched, NotYet
<1>11. QED
  BY LifeExec, <1>1, <1>2, <1>3, <1>4, <1>5, <1>6, <1>7, <1>8, <1>9, <1>10 DEF HostRuns

LEMMA LifeInv == Spec => []LInv
<1>1. Init => LInv
  <2>1. Init => HandlesAreOpen
    BY DEF Init, PipeInit, ExecInit, HandlesAreOpen
  <2>2. QED
    BY <2>1, TypeInit, LifeInit DEF LInv
<1>2. LInv /\ [Next]_vars => LInv'
  <2>1. SUFFICES ASSUME LInv, [Next]_vars
                 PROVE  HandlesAreOpen' /\ Life'
    BY TypeStep DEF LInv
  <2>2. CASE UNCHANGED vars \/ Stopped
    BY <2>1, <2>2 DEF LInv, Stopped, vars, pipeVars, execVars, HandlesAreOpen, Life, Starting,
                NotForked, Started, Failed, Alive, Reaped, NotYet
  <2>3. CASE HostRuns
    BY <2>1, <2>3, HandlesStep, LifeHost DEF LInv, TInv, Next
  <2>4. CASE Runs
    BY <2>1, <2>4, HandlesStep, LifeRuns DEF LInv, TInv, Next
  <2>5. QED
    BY <2>1, <2>2, <2>3, <2>4 DEF Next
<1>3. QED
  BY <1>1, <1>2, PTL DEF Spec

-----------------------------------------------------------------------------
\* What it means.

\* When infra_exec answers 0 the program has been started, and when it answers
\* with an error the child it may have forked is gone and waited for, whatever
\* the order in which parent and child run.
THEOREM ExecCorrect == Spec => []ExecTellsTheTruth
<1>1. LInv => ExecTellsTheTruth
  <2>1. 0 \notin Errno /\ EMFILE # 0
    BY ErrnoAssumption DEF EMFILE
  <2>2. QED
    BY <2>1 DEF LInv, Life, NotForked, Started, Failed, Alive, ExecTellsTheTruth
<1>2. QED
  BY <1>1, LifeInv, PTL

\* No process is waited for twice, which might be somebody else's by then: while
\* the userdata has an identifier nobody has waited for the process.
THEOREM WaitCorrect == Spec => []WaitsOnce
<1>1. LInv => WaitsOnce
  <2>1. SUFFICES ASSUME LInv, hProcess = "pid", pc \notin ExecPc \cup {"aborted"}
                 PROVE  child \notin {"none", "reaped"}
    BY DEF WaitsOnce
  <2>2. pc \notin BeforeFork
    BY <2>1 DEF LInv, TInv, Untouched, BeforeFork
  <2>3. pc \in Exchanging \cup Ending \cup {"raised", "gc_wait", "done"}
    BY <2>1, <2>2 DEF LInv, TInv, TypeOK, Pc, ExecPc, BeforeFork, Exchanging, Ending
  <2>4. Alive
    BY <2>1, <2>3 DEF LInv, Life, Alive, Reaped, NotYet
  <2>5. QED
    BY <2>4 DEF Alive
<1>2. QED
  BY <1>1, LifeInv, PTL

\* Whatever way the call has gone, once the collector is through the host has no
\* descriptor of it open and has left no zombie.
THEOREM CollectorCorrect == Spec => []NothingLeft
<1>1. LInv => NothingLeft
  <2>1. SUFFICES ASSUME LInv, pc = "done"
                 PROVE  HeldBy("host") = {} /\ child \in {"none", "reaped"}
    BY DEF NothingLeft
  <2>2. handle = {} /\ (Reaped \/ NotYet)
    BY <2>1 DEF LInv, Life
  <2>3. \A p \in Pipes, e \in End : <<"host", p, e>> \notin open
    BY <2>1, <2>2 DEF LInv, HandlesAreOpen
  <2>4. open \subseteq Proc \X Pipes \X End
    BY <2>1 DEF LInv, TInv, TypeOK, PipeTypeOK, Fd
  <2>5. QED
    BY <2>2, <2>3, <2>4 DEF HeldBy, Reaped, NotYet
<1>2. QED
  BY <1>1, LifeInv, PTL

=============================================================================
