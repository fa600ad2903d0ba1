-------------------------------- MODULE Exec --------------------------------
(***************************************************************************)
(* utils/exec.c (POSIX half) and utils/compat_sys.c: starting a program    *)
(* with infra_exec, waiting for it with infra_waitpid, and what the code   *)
(* does with an error number.                                              *)
(*                                                                         *)
(* infra_exec forks; parent and child then run on their own.  The child    *)
(* reports a failed chdir or execvp by writing errno to the status pipe;   *)
(* both ends of that pipe are CLOEXEC, so a successful execvp closes it    *)
(* and the parent, blocked in read, sees end of file.                      *)
(*                                                                         *)
(* The process that calls infra_exec is "host", the forked one "child".    *)
(* When the host aborts the model stops: pc = "aborted" says it did, and   *)
(* cause says which call took it down.                                     *)
(***************************************************************************)
EXTENDS Pipe, Integers

VARIABLES pc,        \* where the host is
          handle,    \* <<pipe, end>> of the handle variables not INVALID
          hProcess,  \* self->hProcess: the identifier of the child, or INVALID
          child,     \* the process forked, as the kernel sees it
          wstatus,   \* how it ended
          ret,       \* what infra_exec is about to return
          cause      \* what made the host abort, or raise before it began

execVars == <<pc, handle, hProcess, child, wstatus, ret, cause>>

ENOENT    == 2
EAGAIN    == 11
EMFILE    == 24
ETIMEDOUT == 110

INFRA_EOF       == -4095
INFRA_UNKNOWN   == -4094
INFRA_ETIMEDOUT == -138
INFRA_ENOENT    == -2

ExecPc == {"exec_open", "fork", "close_writer", "read_status", "exec_reap",
           "exec_finish", "exec_return"}
ExecTypeOK == /\ handle \subseteq Pipes \X End
              /\ hProcess \in {"INVALID", "pid"}
              /\ child \in {"none", "forked", "failed", "image", "zombie", "reaped"}
              /\ wstatus \in {"none", "exit0", "exit1", "signal", "abort"}
              /\ ret \in Int
              /\ cause \in {"none", "memory", "opt", "strerror", "translate", "status",
                             "SIGPIPE", "waitpid"}

ExecInit == /\ handle = {}
            /\ hProcess = "INVALID"
            /\ child = "none"
            /\ wstatus = "none"
            /\ ret = 0
            /\ cause = "none"

-----------------------------------------------------------------------------
\* Error numbers.

Abort(why) == pc' = "aborted" /\ cause' = why

\* The errno values the table knows and what they become.  Every other one
\* ends in abort().
infra_translate_sys_error ==
    [e \in {0, ENOENT, ETIMEDOUT} |-> CASE e = 0         -> 0
                                        [] e = ENOENT    -> INFRA_ENOENT
                                        [] e = ETIMEDOUT -> INFRA_ETIMEDOUT]

\* The codes that have a text.  Every other one ends in abort().
infra_strerror == {INFRA_EOF, INFRA_UNKNOWN, INFRA_ETIMEDOUT, INFRA_ENOENT, 0}

\* A Lua error with the text of code; the userdata is left to the collector.
infra_raise_error(code) == IF code \in infra_strerror
                           THEN pc' = "raised" /\ UNCHANGED cause
                           ELSE Abort("strerror")

\* The host closes the handles hs and sets them to INVALID.  (A slip: it does
\* not set them.)
CloseHandlesOnly(hs) == /\ infra_pipe_close({<<"host", h[1], h[2]>> : h \in hs})
                        /\ UNCHANGED handle
CloseHandles(hs) == /\ infra_pipe_close({<<"host", h[1], h[2]>> : h \in hs})
                    /\ handle' = handle \ hs

-----------------------------------------------------------------------------
\* infra_exec, one action per system call.

\* infra_pipe_open of the status pipe, both ends CLOEXEC.
ExecOpen ==
    /\ pc = "exec_open"
    /\ \/ /\ infra_pipe_open("host", "status", {"CLOEXEC"}, {"CLOEXEC"})
          /\ handle' = handle \cup {<<"status", "r">>, <<"status", "w">>}
          /\ pc' = "fork"
          /\ UNCHANGED ret
       \/ /\ ret' = EMFILE
          /\ pc' = "exec_return"
          /\ UNCHANGED <<pipeVars, handle>>
    /\ UNCHANGED <<hProcess, child, wstatus, cause>>

\* The child starts with a copy of every descriptor of the host.
ExecFork ==
    /\ pc = "fork"
    /\ child' = "forked"
    /\ open' = open \cup {<<"child", fd[2], fd[3]>> : fd \in HeldBy("host")}
    /\ hProcess' = "pid"
    /\ pc' = "close_writer"
    /\ UNCHANGED <<flags, buf, handle, wstatus, ret, cause>>

\* fork() fails: its errno is not in infra_translate_sys_error's table.
ExecForkFails ==
    /\ pc = "fork"
    /\ IF EAGAIN \in DOMAIN infra_translate_sys_error
       THEN /\ ret' = infra_translate_sys_error[EAGAIN]
            /\ pc' = "exec_finish"
            /\ UNCHANGED cause
       ELSE Abort("translate") /\ UNCHANGED ret
    /\ UNCHANGED <<pipeVars, handle, hProcess, child, wstatus>>

\* "Close unused peer."
ExecCloseWriter ==
    /\ pc = "close_writer"
    /\ CloseHandles({<<"status", "w">>})
    /\ pc' = "read_status"
    /\ UNCHANGED <<flags, buf, hProcess, child, wstatus, ret, cause>>

\* The blocking read of the status pipe: end of file is success, an int is
\* the errno of the child, anything else ends in abort().  A signal does not show:
\* infra_pipe_read goes on after EINTR, and an int goes through a pipe in one piece.
ExecReadStatus ==
    /\ pc = "read_status"
    /\ CASE infra_pipe_read("status") = "eof"  ->
               ret' = 0 /\ pc' = "exec_finish" /\ UNCHANGED <<buf, cause>>
         [] infra_pipe_read("status") = "data" ->
               /\ ret' = Head(buf["status"])
               /\ buf' = [buf EXCEPT !["status"] = Tail(@)]
               /\ pc' = "exec_reap"
               /\ UNCHANGED cause
         [] infra_pipe_read("status") = "again" ->
               Abort("status") /\ UNCHANGED <<buf, ret>>
         [] OTHER -> FALSE
    /\ UNCHANGED <<open, flags, handle, hProcess, child, wstatus>>

\* waitpid for the child that reported a failure; *pid keeps its number.
ExecReap ==
    /\ pc = "exec_reap"
    /\ child = "zombie"
    /\ child' = "reaped"
    /\ pc' = "exec_finish"
    /\ UNCHANGED <<pipeVars, handle, hProcess, wstatus, ret, cause>>

\* The label finish: closes what is left of the status pipe.
ExecFinish ==
    /\ pc = "exec_finish"
    /\ CloseHandles({h \in handle : h[1] = "status"})
    /\ pc' = "exec_return"
    /\ UNCHANGED <<flags, buf, hProcess, child, wstatus, ret, cause>>

infra_exec == \/ ExecOpen
              \/ ExecFork
              \/ ExecForkFails
              \/ ExecCloseWriter
              \/ ExecReadStatus
              \/ ExecReap
              \/ ExecFinish

-----------------------------------------------------------------------------
\* The forked child, up to execvp, and the end of any child.

\* chdir, environ, dup2 and execvp all succeed: the program runs, with the
\* descriptors that are not CLOEXEC.
ChildExec ==
    /\ child = "forked"
    /\ child' = "image"
    /\ open' = open \ {fd \in HeldBy("child") : "CLOEXEC" \in flags[fd[2]][fd[3]]}
    /\ UNCHANGED <<flags, buf, pc, handle, hProcess, wstatus, ret, cause>>

\* The child tells the host.  (A slip: it just gives up.)
uv__write_nothing(e) == UNCHANGED buf
uv__write_int(e) == buf' = [buf EXCEPT !["status"] = Append(@, e)]

\* chdir or execvp fails with errno e.  The child has closed its copy of the
\* read end before.
ChildExecFails(e) ==
    /\ child = "forked"
    /\ child' = "failed"
    /\ open' = open \ {<<"child", "status", "r">>}
    /\ uv__write_int(e)
    /\ UNCHANGED <<flags, pc, handle, hProcess, wstatus, ret, cause>>

\* The process is gone and its descriptors are closed.
ChildEnds(status) ==
    /\ child' = "zombie"
    /\ wstatus' = status
    /\ open' = open \ HeldBy("child")
    /\ UNCHANGED <<flags, buf, pc, handle, hProcess, ret, cause>>

\* abort() after a failed execvp.
ChildAborts == child = "failed" /\ ChildEnds("abort")

\* Somebody kills it, at any time.
ChildKilled == child \in {"forked", "failed", "image"} /\ ChildEnds("signal")

-----------------------------------------------------------------------------
\* infra_waitpid.

\* What waitpid(pid, WNOHANG) answers.
waitpid == CASE child = "zombie" -> "ended"
             [] child \in {"none", "reaped"} -> "ECHILD"
             [] OTHER -> "running"

\* The wait has succeeded: the process identifier is free, and forgotten.
\* (A slip: it is remembered.)
ReapOnly == child' = "reaped" /\ UNCHANGED hProcess
Reap     == child' = "reaped" /\ hProcess' = "INVALID"

\* WEXITSTATUS(wstatus), which is what *code ends up with: the -1 of a child
\* that did not exit by itself is overwritten by the next statement, and the
\* exit byte of a killed child is 0.  (A slip: only WIFEXITED is looked at.)
exit_code_ignored(status) == 0
exit_code(status) == IF status = "exit1" THEN 1 ELSE 0
=============================================================================
