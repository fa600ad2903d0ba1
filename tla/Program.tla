------------------------------ MODULE Program ------------------------------
(***************************************************************************)
(* The program infra.execute runs: the other side of the three pipes.  It  *)
(* is not code of the repository; the model lets it do what a program can  *)
(* do with its standard streams, and the history variables say what it did *)
(* so that properties can speak of it.                                     *)
(*                                                                         *)
(* kind = "free": reads, writes and exits as it likes.                     *)
(* kind = s, a stream: a filter, as the echo servers of the test program:  *)
(* copies its input to s and exits with 0 at end of file.                  *)
(* Either may be killed; a free program may leave an orphan behind, a      *)
(* descendant that has inherited its descriptors and outlives it.          *)
(***************************************************************************)
EXTENDS Exec

CONSTANTS Kinds,      \* the kinds of program tried
          MaxOut,     \* bound: blocks a free program writes to a stream
          Orphans     \* whether a program may leave an orphan behind

Stream == {"stdout", "stderr"}

ASSUME KindsAssumption == Kinds \subseteq Stream \cup {"free"}

VARIABLES kind,       \* what sort of program it is
          consumed,   \* what it has read from stdin
          eof,        \* "seen" once it has read the end of file
          written,    \* what was written to each stream, by it and the orphan
          atEnd,      \* the value of written when it ended
          orphan      \* the descendant it has left behind

progVars == <<kind, consumed, eof, written, atEnd, orphan>>

ProgramTypeOK == /\ kind \in Kinds
                 /\ consumed \in Seq(Byte)
                 /\ eof \in {"ahead", "seen"}
                 /\ written \in [Stream -> Seq(Byte)]
                 /\ atEnd \in [Stream -> Seq(Byte)]
                 /\ orphan \in {"none", "alive", "gone"}

ProgramInit == /\ kind \in Kinds
               /\ consumed = <<>>
               /\ eof = "ahead"
               /\ written = [s \in Stream |-> <<>>]
               /\ atEnd = [s \in Stream |-> <<>>]
               /\ orphan = "none"

hostVars == <<pc, handle, hProcess, ret, cause, flags>>

-----------------------------------------------------------------------------
\* One write of b to s by process q.  Without a reader SIGPIPE ends q.
PutBlock(q, s, b) ==
    /\ <<q, s, "w">> \in open
    /\ infra_pipe_write(s) = "sent"
    /\ buf' = [buf EXCEPT ![s] = Append(@, b)]
    /\ written' = [written EXCEPT ![s] = Append(@, b)]
    /\ UNCHANGED <<hostVars, open, child, wstatus, kind, consumed, eof, atEnd, orphan>>

ProgRead ==
    /\ child = "image"
    /\ infra_pipe_read("stdin") = "data"
    /\ consumed' = Append(consumed, Head(buf["stdin"]))
    /\ buf' = [buf EXCEPT !["stdin"] = Tail(@)]
    /\ UNCHANGED <<hostVars, open, child, wstatus, kind, eof, written, atEnd, orphan>>

ProgEof ==
    /\ child = "image"
    /\ eof = "ahead"
    /\ infra_pipe_read("stdin") = "eof"
    /\ eof' = "seen"
    /\ UNCHANGED <<hostVars, open, buf, child, wstatus, kind, consumed, written, atEnd, orphan>>

\* A filter copies the first block it has not copied yet.
ProgEcho ==
    /\ child = "image"
    /\ kind \in Stream
    /\ Len(written[kind]) < Len(consumed)
    /\ PutBlock("child", kind, consumed[Len(written[kind]) + 1])

ProgWrite(s, b) ==
    /\ child = "image"
    /\ kind = "free"
    /\ Len(written[s]) < MaxOut
    /\ PutBlock("child", s, b)

\* The orphan shares the streams with the program it comes from.
OrphanWrite(s, b) ==
    /\ orphan = "alive"
    /\ Len(written[s]) < MaxOut
    /\ PutBlock("orphan", s, b)

\* With the program's last step, atEnd is what has been written so far.
LastWords == atEnd' = written /\ UNCHANGED <<kind, consumed, eof, written, orphan>>
Ends(status) == ChildEnds(status) /\ LastWords

ProgExit ==
    /\ child = "image"
    /\ \/ kind = "free" /\ \E status \in {"exit0", "exit1"} : Ends(status)
       \/ /\ kind \in Stream
          /\ eof = "seen"
          /\ Len(written[kind]) = Len(consumed)
          /\ Ends("exit0")

\* It writes to a stream nobody reads any more.
ProgSigpipe ==
    /\ child = "image"
    /\ \E s \in Stream : /\ infra_pipe_write(s) = "broken"
                         /\ \/ kind = "free" /\ Len(written[s]) < MaxOut
                            \/ kind = s /\ Len(written[s]) < Len(consumed)
    /\ Ends("signal")

ProgLeavesOrphan ==
    /\ Orphans
    /\ child = "image"
    /\ kind = "free"
    /\ orphan = "none"
    /\ orphan' = "alive"
    /\ open' = open \cup {<<"orphan", fd[2], fd[3]>> : fd \in HeldBy("child")}
    /\ UNCHANGED <<hostVars, buf, child, wstatus, kind, consumed, eof, written, atEnd>>

OrphanEnds ==
    /\ orphan = "alive"
    /\ orphan' = "gone"
    /\ open' = open \ HeldBy("orphan")
    /\ UNCHANGED <<hostVars, buf, child, wstatus, kind, consumed, eof, written, atEnd>>

\* Steps the program takes by itself if it is given the processor.
ProgramRuns == \/ /\ \/ ChildExec
                     \/ \E e \in Errno : ChildExecFails(e)
                  /\ UNCHANGED progVars
               \/ ChildAborts /\ LastWords
               \/ ProgRead
               \/ ProgEof
               \/ ProgEcho
               \/ \E s \in Stream, b \in Byte : ProgWrite(s, b)
               \/ ProgExit
               \/ ProgSigpipe

\* Steps nobody can count on.
ProgramMay == \/ ChildKilled /\ LastWords
              \/ ProgLeavesOrphan
              \/ OrphanEnds
              \/ \E s \in Stream, b \in Byte : OrphanWrite(s, b)
=============================================================================
