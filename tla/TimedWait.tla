----------------------------- MODULE TimedWait -----------------------------
(***************************************************************************)
(* utils/exec.c: _infra_waitpid_timed, the wait for a program with a       *)
(* deadline.  It polls: the clock is read, the program is looked at, and   *)
(* between two rounds the thread sleeps.  Time passes at every point, and  *)
(* the program ends when it likes.                                         *)
(*                                                                         *)
(* The units of time are scaled: MSEC_PER_SEC and NSEC_PER_MSEC are small. *)
(***************************************************************************)
EXTENDS Integers

CONSTANTS MSEC_PER_SEC, NSEC_PER_MSEC,
          Timeout,    \* values of ms
          Sleep,      \* the ms of usleep
          Start,      \* times at which the call may begin, in ns
          LastTime    \* bound: the clock stops there

ASSUME UnitAssumption == MSEC_PER_SEC \in Nat \ {0} /\ NSEC_PER_MSEC \in Nat \ {0}
ASSUME TimeoutAssumption == Timeout \subseteq Nat /\ Start \subseteq Nat /\ Sleep \in Nat
\* The clock gets beyond every deadline.
ASSUME LastTimeAssumption ==
    LastTime \in Nat /\ \A b \in Start, m \in Timeout : b + m * NSEC_PER_MSEC < LastTime

NSEC_PER_SEC == MSEC_PER_SEC * NSEC_PER_MSEC

VARIABLES now,        \* CLOCK_MONOTONIC, in ns
          ms,         \* the argument
          program,    \* "running", "zombie" when it has ended, "reaped" once waited for
          began,      \* when the deadline was computed,
          ended,      \* and when the program ended, or -1
          at,         \* where the call is
          t_cur, t_dst,
          wake,       \* when usleep is over
          result      \* "ended", "INFRA_ETIMEDOUT", "aborted", or "none" as yet

timeVars == <<now, ms, program, began, ended, at, t_cur, t_dst, wake, result>>

Second(sec, nsec) == [sec |-> sec, nsec |-> nsec]
clock_gettime == Second(now \div NSEC_PER_SEC, now % NSEC_PER_SEC)

timespec_normalise(ts) ==
    Second(ts.sec + (ts.nsec \div NSEC_PER_SEC), ts.nsec % NSEC_PER_SEC)

\* (A slip: nanoseconds are not carried over.)
timespec_add_raw(ts1, ts2) == Second(ts1.sec + ts2.sec, ts1.nsec + ts2.nsec)
timespec_add(ts1, ts2) ==
    LET a == timespec_normalise(ts1)
        b == timespec_normalise(ts2)
    IN  timespec_normalise(Second(a.sec + b.sec, a.nsec + b.nsec))

timespec_gt(ts1, ts2) ==
    LET a == timespec_normalise(ts1)
        b == timespec_normalise(ts2)
    IN  a.sec > b.sec \/ (a.sec = b.sec /\ a.nsec > b.nsec)

\* ms in seconds and the rest.
timeout == Second(ms \div MSEC_PER_SEC, (ms % MSEC_PER_SEC) * NSEC_PER_MSEC)

TimeInit == /\ now \in Start /\ ms \in Timeout
            /\ program = "running" /\ ended = -1 /\ began = 0
            /\ at = "begin"
            /\ t_cur = Second(0, 0) /\ t_dst = Second(0, 0)
            /\ wake = 0
            /\ result = "none"

-----------------------------------------------------------------------------
Tick == /\ now < LastTime /\ at \notin {"begin", "done"}
        /\ now' = now + 1
        /\ UNCHANGED <<ms, program, began, ended, at, t_cur, t_dst, wake, result>>

\* Where SIGCHLD is ignored the kernel does not keep the zombie.
ProgramEnds == /\ program = "running" /\ at # "done"
               /\ program' \in {"zombie", "reaped"} /\ ended' = now
               /\ UNCHANGED <<now, ms, began, at, t_cur, t_dst, wake, result>>

Deadline == /\ at = "begin"
            /\ t_dst' = timespec_add(clock_gettime, timeout)
            /\ began' = now
            /\ at' = "clock"
            /\ UNCHANGED <<now, ms, program, ended, t_cur, wake, result>>

ReadClock == /\ at = "clock"
             /\ t_cur' = clock_gettime
             /\ at' = "look"
             /\ UNCHANGED <<now, ms, program, began, ended, t_dst, wake, result>>

\* clock_gettime fails, or waitpid with ECHILD: infra_translate_sys_error does
\* not know their errno and aborts.
Fail == /\ at' = "done" /\ result' = "aborted"
        /\ UNCHANGED <<now, ms, program, began, ended, t_cur, t_dst, wake>>
NoClock == at \in {"begin", "clock"} /\ Fail
NoChild == at = "look" /\ program = "reaped" /\ Fail

\* waitpid(pid, &wstatus, WNOHANG).
Look ==
    /\ at = "look"
    /\ \/ /\ program = "zombie"
          /\ program' = "reaped" /\ result' = "ended" /\ at' = "done"
       \/ /\ program = "running"
          /\ at' = "check"
          /\ UNCHANGED <<program, result>>
    /\ UNCHANGED <<now, ms, began, ended, t_cur, t_dst, wake>>

\* The program was running: is it late?  (A slip: the clock is read here,
\* after the program was looked at.)
CheckAgain == /\ at = "check"
              /\ IF timespec_gt(clock_gettime, t_dst)
                 THEN at' = "done" /\ result' = "INFRA_ETIMEDOUT" /\ UNCHANGED wake
                 ELSE at' = "sleep" /\ wake' = now + Sleep * NSEC_PER_MSEC /\ UNCHANGED result
              /\ UNCHANGED <<now, ms, program, began, ended, t_cur, t_dst>>
Check == /\ at = "check"
         /\ IF timespec_gt(t_cur, t_dst)
            THEN at' = "done" /\ result' = "INFRA_ETIMEDOUT" /\ UNCHANGED wake
            ELSE at' = "sleep" /\ wake' = now + Sleep * NSEC_PER_MSEC /\ UNCHANGED result
         /\ UNCHANGED <<now, ms, program, began, ended, t_cur, t_dst>>

\* (A slip: the clock is not read again.)
WakeStale == /\ at = "sleep" /\ (now >= wake \/ now = LastTime)
             /\ at' = "look" /\ wake' = 0
             /\ UNCHANGED <<now, ms, program, began, ended, t_cur, t_dst, result>>
Wake == /\ at = "sleep" /\ (now >= wake \/ now = LastTime)
        /\ at' = "clock" /\ wake' = 0
        /\ UNCHANGED <<now, ms, program, began, ended, t_cur, t_dst, result>>

\* The call is over.
Returned == at = "done" /\ UNCHANGED timeVars

TimeNext == \/ Tick \/ ProgramEnds
            \/ Deadline \/ ReadClock \/ NoClock
            \/ Look \/ NoChild \/ Check \/ Wake
            \/ Returned

\* Time passes, and the thread is scheduled; the program need never end.
TimeFairness == /\ WF_timeVars(Tick)
                /\ WF_timeVars(Deadline \/ ReadClock \/ Look \/ NoChild \/ Check \/ Wake)
TimeSpec == TimeInit /\ [][TimeNext]_timeVars /\ TimeFairness

-----------------------------------------------------------------------------
\* Properties.

deadline == began + ms * NSEC_PER_MSEC

TimeTypeOK == /\ now \in 0..LastTime /\ ms \in Timeout
              /\ program \in {"running", "zombie", "reaped"}
              /\ began \in 0..LastTime /\ ended \in -1..LastTime
              /\ at \in {"begin", "clock", "look", "check", "sleep", "done"}
              /\ t_cur \in [sec : Nat, nsec : 0..(NSEC_PER_SEC - 1)]
              /\ t_dst \in [sec : Nat, nsec : 0..(NSEC_PER_SEC - 1)]
              /\ wake \in Nat
              /\ result \in {"none", "ended", "INFRA_ETIMEDOUT", "aborted"}

\* The wait is given up only after the deadline, whatever the carry between
\* seconds and nanoseconds, and never on a program that had ended by then: the
\* clock is read before the program is looked at.
TimeoutIsTrue == result = "INFRA_ETIMEDOUT" =>
                    now > deadline /\ (program = "running" \/ ended > deadline)

\* The call ends, if only by the abort of Fail, also if the program does not.
CallReturns == <>(at = "done")
=============================================================================
