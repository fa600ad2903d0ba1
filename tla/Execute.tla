------------------------------ MODULE Execute ------------------------------
(***************************************************************************)
(* function/execute.c: infra.execute(file [, opt]) and the collector of    *)
(* its userdata.                                                           *)
(*                                                                         *)
(* The call reads its options, opens three pipes, starts the program with infra_exec, then    *)
(* exchanges data with it until infra_waitpid says it has ended: each turn *)
(* of the loop waits 10 ms for the program, feeds its stdin and drains its *)
(* stdout and stderr without blocking.  Each system call is an action, so  *)
(* the program's own steps come between any two of them.                   *)
(*                                                                         *)
(* pc "returned": the call has returned its three values.  "raised": it    *)
(* has raised a Lua error.  In both cases the userdata is garbage, and     *)
(* sooner or later (lua_close at the latest) its __gc runs: Gc, GcWait.    *)
(***************************************************************************)
EXTENDS Program

CONSTANTS Input,       \* opt.stdin, block by block
          ReadSz,      \* size of the temporary buffer, in blocks
          Interrupts   \* the application has signal handlers without SA_RESTART

ASSUME InputAssumption == Input \in Seq(Byte)
ASSUME ReadSzAssumption == ReadSz \in Nat \ {0}

VARIABLES input,    \* what is left of self->input (until that is set, what it will be)
          out,      \* the Lua strings at idx_stdout and idx_stderr
          result    \* the boolean at idx_ret ("none" until it is set), or "raised"

vars == <<pipeVars, execVars, progVars, input, out, result>>

Drains == {"drain_stdout", "drain_stderr"}
Pc == {"options", "open_stdin", "open_stdout", "open_stderr"} \cup ExecPc
        \cup {"exchange", "feed", "stdout", "stderr"} \cup Drains
        \cup {"returned", "raised", "gc_wait", "done", "aborted"}

TypeOK == /\ PipeTypeOK /\ ExecTypeOK /\ ProgramTypeOK
          /\ pc \in Pc
          /\ input \in Seq(Byte)
          /\ out \in [Stream -> Seq(Byte)]
          /\ result \in {"none", "true", "false", "raised"}

Init == /\ PipeInit /\ ExecInit /\ ProgramInit
        /\ pc = "options"
        /\ input = Input
        /\ out = [s \in Stream |-> <<>>]
        /\ result = "none"

\* What infra_exec leaves alone.
exchangeVars == <<progVars, input, out, result>>

\* A raised error unwinds the call's Lua stack.
ResultIfRaised == result' = IF pc' = "raised" THEN "raised" ELSE result

-----------------------------------------------------------------------------
\* _infra_execute_init_self and _infra_execute_init_args: file, args, envs, cwd and
\* stdin are copied, or an error is raised because there is no memory for them.
\* It is always raised in a call with no opt, though the synopsis has it optional
\* (function/execute.c:466): index 2 is the userdata of the call
\* then, or nil, and lua_getfield raises for both.
Options ==
    /\ pc = "options"
    /\ \/ pc' = "open_stdin" /\ UNCHANGED cause
       \/ pc' = "raised" /\ cause' \in {"memory", "opt"}
    /\ ResultIfRaised
    /\ UNCHANGED <<pipeVars, handle, hProcess, child, wstatus, ret, progVars, input, out>>

-----------------------------------------------------------------------------
\* _infra_execute_open_pip_stdio and _infra_execute_exec.

\* The host's end of each pipe is nonblocking and not inherited, the
\* program's end is blocking and inherited.  (Slips: a flag is forgotten.)
HostEndBlocking  == {"CLOEXEC"}
HostEnd == {"NONBLOCK", "CLOEXEC"}
HostEndOf(p) == IF p = "stdin" THEN "w" ELSE "r"
StdioFlags(p, e) == IF e = HostEndOf(p) THEN HostEnd ELSE {}
OpenAt == [p \in {"stdin", "stdout", "stderr"} |->
             CASE p = "stdin"  -> <<"open_stdin", "open_stdout">>
               [] p = "stdout" -> <<"open_stdout", "open_stderr">>
               [] p = "stderr" -> <<"open_stderr", "exec_open">>]

\* infra_pipe_open of p; when it fails both handles are INVALID and the raw
\* errno is raised.
OpenStdio(p) ==
    /\ pc = OpenAt[p][1]
    /\ \/ /\ infra_pipe_open("host", p, StdioFlags(p, "r"), StdioFlags(p, "w"))
          /\ handle' = handle \cup {<<p, "r">>, <<p, "w">>}
          /\ pc' = OpenAt[p][2]
          /\ UNCHANGED cause
       \/ /\ infra_raise_error(EMFILE)
          /\ UNCHANGED <<pipeVars, handle>>
    /\ ResultIfRaised
    /\ UNCHANGED <<hProcess, child, wstatus, ret, progVars, input, out>>

\* What _infra_execute_exec does with the answer of infra_exec: raise it, or
\* "Close unused things." and prepare the exchange, which needs memory from Lua
\* for two strings and a buffer.
ProgramEnds == {<<"stdin", "r">>, <<"stdout", "w">>, <<"stderr", "w">>}
ExecReturns ==
    /\ pc = "exec_return"
    /\ \/ /\ ret # 0
          /\ infra_raise_error(ret)
          /\ UNCHANGED <<open, handle>>
       \/ /\ ret = 0
          /\ CloseHandles(ProgramEnds)
          /\ pc' \in {"exchange", "raised"}
          /\ UNCHANGED cause
    /\ ResultIfRaised
    /\ UNCHANGED <<flags, buf, hProcess, child, wstatus, ret, progVars, input, out>>

-----------------------------------------------------------------------------
\* _infra_execute_exchange.

\* "Handle stdout and stderr again."  (A slip: the call returns at once.)
AfterExitNothing == "returned"
AfterExit        == "drain_stdout"

\* infra_waitpid(hProcess, &exit_code, 10): ends the loop, or answers
\* INFRA_ETIMEDOUT after having seen the program running.
Poll ==
    /\ pc = "exchange"
    /\ CASE waitpid = "ended"   -> /\ Reap
                                   /\ result' = IF exit_code(wstatus) = 0 THEN "true" ELSE "false"
                                   /\ pc' = AfterExit
                                   /\ UNCHANGED cause
         [] waitpid = "running" -> pc' = "feed" /\ UNCHANGED <<child, hProcess, result, cause>>
         [] waitpid = "ECHILD"  -> Abort("waitpid") /\ UNCHANGED <<child, hProcess, result>>
    /\ UNCHANGED <<pipeVars, handle, wstatus, ret, progVars, input, out>>

\* self->input and self->input_sz after n blocks have gone.  (A slip: a short
\* write is taken for a complete one.)
NoneLeft(n) == <<>>
Left(n)     == SubSeq(input, n + 1, Len(input))

\* _infra_execute_exchange_handle_stdin: one write.
Feed ==
    /\ pc = "feed"
    /\ input # <<>>
    /\ <<"stdin", "w">> \in handle
    /\ LET n == Fits("stdin", input)
       IN  CASE infra_pipe_write("stdin") = "sent" ->
                  /\ buf' = [buf EXCEPT !["stdin"] = @ \o SubSeq(input, 1, n)]
                  /\ input' = Left(n)
                  /\ UNCHANGED <<pc, cause>>
             [] infra_pipe_write("stdin") = "again" ->
                  pc' = "stdout" /\ UNCHANGED <<buf, input, cause>>
             [] infra_pipe_write("stdin") = "broken" ->
                  Abort("SIGPIPE") /\ UNCHANGED <<buf, input>>
             [] OTHER -> FALSE
    /\ UNCHANGED <<open, flags, handle, hProcess, child, wstatus, ret, progVars, out, result>>

\* All of the input is written: close stdin, once.  (A slip: also when the
\* pipe was full.)
FeedDoneAnyway ==
    /\ pc = "feed"
    /\ CloseHandles({<<"stdin", "w">>} \cap handle)
    /\ pc' = "stdout"
    /\ UNCHANGED <<flags, buf, hProcess, child, wstatus, ret, cause, exchangeVars>>
FeedDone ==
    /\ pc = "feed"
    /\ input = <<>>
    /\ CloseHandles({<<"stdin", "w">>} \cap handle)
    /\ pc' = "stdout"
    /\ UNCHANGED <<flags, buf, hProcess, child, wstatus, ret, cause, exchangeVars>>

\* _infra_execute_handle_stdout and _infra_execute_handle_stderr, called in
\* the loop and once more after it.  (A slip: stderr is forgotten then.)
HandlerPc(s) == IF s = "stdout" THEN {"stdout", "drain_stdout"} ELSE {"stderr", "drain_stderr"}
AfterNoStderr == [p \in {"stdout", "stderr"} \cup Drains |->
            CASE p = "stdout" -> "stderr" [] p = "stderr" -> "exchange" [] OTHER -> "returned"]
After == [p \in {"stdout", "stderr"} \cup Drains |->
            CASE p = "stdout"       -> "stderr"
              [] p = "stderr"       -> "exchange"
              [] p = "drain_stdout" -> "drain_stderr"
              [] p = "drain_stderr" -> "returned"]

Chunk(s) == SubSeq(buf[s], 1, Least(ReadSz, Len(buf[s])))
Rest(s)  == SubSeq(buf[s], Least(ReadSz, Len(buf[s])) + 1, Len(buf[s]))

\* The string so far and the data.  (A slip: the operands of lua_concat are
\* pushed the other way round.)
Prepended(s) == Chunk(s) \o out[s]
Appended(s)  == out[s] \o Chunk(s)

\* One read that gets data; the concatenation may also raise "not enough
\* memory", and the data is gone.
Receive(s) ==
    /\ pc \in HandlerPc(s)
    /\ <<s, "r">> \in handle
    /\ infra_pipe_read(s) = "data"
    /\ buf' = [buf EXCEPT ![s] = Rest(s)]
    /\ \/ out' = [out EXCEPT ![s] = Appended(s)] /\ UNCHANGED pc
       \/ pc' = "raised" /\ UNCHANGED out
    /\ ResultIfRaised
    /\ UNCHANGED <<open, flags, handle, hProcess, child, wstatus, ret, cause, progVars, input>>

\* The handler's loop ends: no data now, end of file (the handle is closed),
\* or a handle closed before.
HandlerEnds(s) ==
    /\ pc \in HandlerPc(s)
    /\ \/ /\ <<s, "r">> \notin handle
          /\ UNCHANGED <<open, handle>>
       \/ /\ <<s, "r">> \in handle
          /\ infra_pipe_read(s) = "again"
          /\ UNCHANGED <<open, handle>>
       \/ /\ <<s, "r">> \in handle
          /\ infra_pipe_read(s) = "eof"
          /\ CloseHandles({<<s, "r">>})
    /\ pc' = After[pc]
    /\ UNCHANGED <<flags, buf, hProcess, child, wstatus, ret, cause, exchangeVars>>

-----------------------------------------------------------------------------
\* _infra_execute_meta_gc.

\* Every handle is closed before the wait.  (Slips: after it; or stderr is
\* missing from the loop.)
GcClosesLate     == IF hProcess = "pid" THEN {} ELSE handle
GcClosesNoStderr == {h \in handle : h[1] # "stderr"}
GcCloses         == handle

\* The input is released and the handles are closed.
Gc ==
    /\ pc \in {"returned", "raised"}
    /\ input' = <<>>
    /\ CloseHandles(GcCloses)
    /\ pc' = IF hProcess = "pid" THEN "gc_wait" ELSE "done"
    /\ UNCHANGED <<flags, buf, hProcess, child, wstatus, ret, cause, progVars, out, result>>

\* infra_waitpid(hProcess, NULL, INFRA_OS_WAITPID_INFINITE) blocks while the
\* program runs.  An error, EINTR among them, is not in the errno table.
GcWait ==
    /\ pc = "gc_wait"
    /\ \/ /\ waitpid = "ended"
          /\ Reap
          /\ pc' = "done"
          /\ UNCHANGED cause
       \/ /\ waitpid = "ECHILD" \/ (waitpid = "running" /\ Interrupts)
          /\ Abort("waitpid")
          /\ UNCHANGED <<child, hProcess>>
    /\ UNCHANGED <<pipeVars, handle, wstatus, ret, exchangeVars>>

-----------------------------------------------------------------------------
HostRuns == \/ Options
            \/ \E p \in {"stdin", "stdout", "stderr"} : OpenStdio(p)
            \/ infra_exec /\ UNCHANGED exchangeVars
            \/ ExecReturns
            \/ Poll
            \/ Feed
            \/ FeedDone
            \/ \E s \in Stream : Receive(s) \/ HandlerEnds(s)
            \/ Gc
            \/ GcWait

Runs == /\ pc # "aborted"
        /\ ProgramRuns \/ ProgramMay
        /\ UNCHANGED <<input, out, result>>

\* The host is through with the call, or dead: nothing more is modelled.
Stopped == pc \in {"done", "aborted"} /\ UNCHANGED vars

Next == HostRuns \/ Runs \/ Stopped
Spec == Init /\ [][Next]_vars

\* The host and the program get the processor: the host is one thread that
\* never sleeps but in a blocking call, and the program a live process.
\* Nothing is asked of signals and orphans.
Fairness == /\ WF_vars(HostRuns)
            /\ WF_vars(ProgramRuns /\ pc # "aborted" /\ UNCHANGED <<input, out, result>>)
FairSpec == Spec /\ Fairness

-----------------------------------------------------------------------------
\* Properties.

\* Every handle that is not INVALID is an open descriptor and every open
\* descriptor of the host has its handle: no close hits a number that is
\* closed already (and may be someone else's by then), and nothing leaks.
HandlesAreOpen ==
    \A p \in Pipes, e \in End : <<p, e>> \in handle <=> <<"host", p, e>> \in open

\* What was written to a stream is what the call has collected followed by
\* what the pipe still holds: nothing lost, doubled or out of order, through
\* the reads of the loop and the drain after it.
OutputIsFaithful ==
    \A s \in Stream : result # "raised" => written[s] = out[s] \o buf[s]

\* The input is cut into what the program has read, what the pipe holds and
\* what is left to write, through partial writes and full pipes.
InputIsFaithful ==
    pc \notin {"gc_wait", "done", "aborted"} => Input = consumed \o buf["stdin"] \o input

\* Only after all of its input does a program see the end of it, unless the
\* call has failed.
EofAfterInput ==
    eof = "seen" /\ result # "raised" => consumed = Input

\* When the call returns it has all the program wrote before it ended.
ReturnsAllOutput ==
    pc = "returned" => \A s \in Stream : /\ Len(out[s]) >= Len(atEnd[s])
                                         /\ SubSeq(out[s], 1, Len(atEnd[s])) = atEnd[s]

\* The echo servers of the tests: a filter that exits by itself has its whole
\* input returned, however small the pipes.
FilterIsEchoed ==
    pc = "returned" /\ kind \in Stream /\ wstatus = "exit0" => out[kind] = Input

\* infra_exec answers 0 only for a program that was started (or that somebody
\* killed before), an error only for a child that is gone for good.
ExecTellsTheTruth ==
    pc = "exec_return" => IF ret = 0 THEN child # "forked" /\ child # "failed" /\ wstatus # "abort"
                                     ELSE child \in {"none", "reaped"}

\* A process identifier the userdata still holds once the exchange begins
\* names a process nobody has waited for yet.
WaitsOnce ==
    hProcess = "pid" /\ pc \notin ExecPc \cup {"aborted"} => child \notin {"none", "reaped"}

\* After the collector: no descriptor and no zombie is left.
NothingLeft ==
    pc = "done" => HeldBy("host") = {} /\ child \in {"none", "reaped"}

\* An error of infra_exec is raised as a Lua error with its text: infra_push_error,
\* which infra_raise_error calls, is to "Push error string on top of stack" for
\* "The error code from GetLastError()" (function/__init__.h:119-124).  When chdir
\* or execvp fails in the child it is not: the system's error code has no text, and
\* infra_strerror aborts.
FailedStartRaises == child = "reaped" /\ ret # 0 => pc # "aborted"

\* A write that fails returns less than 0 (utils/pipe.h:46).  It does not when
\* the program ends between the wait and the write: SIGPIPE, or abort() for
\* the untranslatable EPIPE, takes the whole process down.
BrokenPipeIsReported == cause # "SIGPIPE"

\* A program that was killed has not succeeded: the wait sets its exit code
\* to -1 (utils/exec.c:1142), and overwrites it.
KilledIsNoSuccess == result = "true" => wstatus \in {"exit0"}

\* The call ends: it returns, raises or takes the process down, provided that the
\* program and its orphan do not write for ever.  The premise is needed: the loops
\* of the handlers end when there is no data, so somebody who always has more
\* to write keeps a drain going after the program has ended.
OutputIsFinite == <>[][UNCHANGED written]_vars
CallEnds == OutputIsFinite => <>(pc \in {"returned", "raised", "aborted"})

\* After an error the collector gets rid of a program that waits for input
\* or for room in a pipe.
CollectorEnds == pc = "raised" ~> pc \in {"done", "aborted"}

-----------------------------------------------------------------------------
\* infra.execute implements ProgramRun.

Outcome == CASE pc = "aborted" -> [is |-> "dead", ok |-> FALSE, out |-> [s \in Stream |-> <<>>]]
             [] pc # "aborted" /\ result = "raised" ->
                  [is |-> "raised", ok |-> FALSE, out |-> [s \in Stream |-> <<>>]]
             [] pc \in {"returned", "done"} /\ result # "raised" ->
                  [is |-> "returned", ok |-> result = "true", out |-> out]
             [] OTHER -> [is |-> "none", ok |-> FALSE, out |-> [s \in Stream |-> <<>>]]

Run == INSTANCE ProgramRun WITH
         Block <- Byte,
         Status <- {"exit0", "exit1", "signal", "abort"},
         Succeeded <- LAMBDA st : st # "exit1",
         wrote <- written,
         status <- IF wstatus = "none" THEN "running" ELSE wstatus,
         outcome <- Outcome

\* Seen from outside, the call is one step of ProgramRun: it returns once,
\* after the end of the program, with an acceptable output.
ImplementsProgramRun == Run!Spec
=============================================================================
