-------------------------------- MODULE Pipe --------------------------------
(***************************************************************************)
(* utils/pipe.c (POSIX half) over the kernel's pipes.                      *)
(*                                                                         *)
(* A descriptor is a triple <<process, pipe, end>>.  A process holds an    *)
(* end or it does not: fork copies the parent's descriptors, exec drops    *)
(* the ones marked CLOEXEC, exit drops them all.  A program started with   *)
(* an end dup2'ed to 0, 1 or 2 also inherits the original number of that   *)
(* end (it is not CLOEXEC), so closing descriptor 0, 1 or 2 does not make  *)
(* it let go of the pipe: it holds the end until it exits.                 *)
(*                                                                         *)
(* The unit of data is a block that the kernel moves in one piece.         *)
(***************************************************************************)
EXTENDS Naturals, Sequences

CONSTANTS Byte,     \* what travels through stdin, stdout and stderr
          Errno,    \* values of errno: what travels through the status pipe
          Cap       \* capacity of a pipe

ASSUME ErrnoAssumption == Errno \subseteq Nat \ {0}
ASSUME CapAssumption == Cap \in Nat \ {0}

VARIABLES open,     \* the descriptors in use
          flags,    \* the flags of both ends of every pipe
          buf       \* what each pipe holds

pipeVars == <<open, flags, buf>>

Proc  == {"host", "child", "orphan"}
Pipes == {"stdin", "stdout", "stderr", "status"}
End   == {"r", "w"}
Flag  == {"NONBLOCK", "CLOEXEC"}
Fd    == Proc \X Pipes \X End

Content(p) == IF p = "status" THEN Errno ELSE Byte
BufOK(b) == /\ b \in [Pipes -> Seq(Byte \cup Errno)]
            /\ \A p \in Pipes : b[p] \in Seq(Content(p)) /\ Len(b[p]) <= Cap
PipeTypeOK == /\ open \subseteq Fd
              /\ flags \in [Pipes -> [End -> SUBSET Flag]]
              /\ BufOK(buf)

PipeInit == /\ open = {}
            /\ flags = [p \in Pipes |-> [e \in End |-> {}]]
            /\ buf = [p \in Pipes |-> <<>>]

HeldBy(q)   == {fd \in open : fd[1] = q}
HasReader(p) == \E q \in Proc : <<q, p, "r">> \in open
HasWriter(p) == \E q \in Proc : <<q, p, "w">> \in open

Least(m, n) == IF m < n THEN m ELSE n

-----------------------------------------------------------------------------
\* pipe() and the four flag settings; the two new descriptors belong to q.
infra_pipe_open(q, p, r, w) ==
    /\ open'  = open \cup {<<q, p, "r">>, <<q, p, "w">>}
    /\ flags' = [flags EXCEPT ![p] = [e \in End |-> IF e = "r" THEN r ELSE w]]
    /\ buf'   = [buf EXCEPT ![p] = <<>>]

\* close() of a set of descriptors.
infra_pipe_close(fds) == open' = open \ fds

\* How a write of process data to p ends: "sent" (some of it), "again" (no
\* room, nonblocking: the function returns 0), "broken" (nobody can read).
\* A blocking write without room is "blocked".
infra_pipe_write(p) ==
    IF ~HasReader(p) THEN "broken"
    ELSE IF Len(buf[p]) < Cap THEN "sent"
    ELSE IF "NONBLOCK" \in flags[p]["w"] THEN "again" ELSE "blocked"

\* How a read from p ends: "data", "eof" (INFRA_EOF: empty and nobody can
\* write), "again" (0), or "blocked" when the end is a blocking one.
infra_pipe_read(p) ==
    IF buf[p] # <<>> THEN "data"
    ELSE IF ~HasWriter(p) THEN "eof"
    ELSE IF "NONBLOCK" \in flags[p]["r"] THEN "again" ELSE "blocked"

\* The number of blocks a "sent" write of data moves: as many as there is
\* room for.  (A slip: more than that.)
FitsAll(p, data) == Len(data)
Fits(p, data) == Least(Cap - Len(buf[p]), Len(data))
=============================================================================
