------------------------------ MODULE Teatest -------------------------------
(***************************************************************************)
(* The older tree's test framework, teatest/teatest.c: like Bluetest, a    *)
(* parent that waits for a child and then reads its reports.  It differs   *)
(* where it matters: the counters are global and move assertion by         *)
(* assertion, the child writes to a pipe that blocks, its exit status says *)
(* whether an entry failed, and the parent trusts no child that was killed.*)
(***************************************************************************)
EXTENDS Integers, Sequences

CONSTANTS
    TtTests,    \* for each entry, how many assertions it makes
    TtArgcs,    \* how many words the parent's command line may have
    TtPipes,    \* how many reports a pipe may hold
    Garbage     \* what an uninitialised report holds

ASSUME TeatestAssumption ==
    /\ TtTests \in Seq(Nat)
    /\ TtArgcs \subseteq Nat \ {0}
    /\ TtPipes \subseteq Nat \ {0}

VARIABLES
    tt_parent,  \* pc: start, wait, drain, print, done; exit_code, the last
                \*   report it read, what print_info showed, its exit status
    tt_child,   \* pc: none, exec, loop, test, report, handler, raise, exit,
                \*   dead; is_exec, the entry, how many of its assertions it
                \*   has passed by, whether one failed, wstatus
    tt_points,  \* __total_point and __point
    tt_fail,    \* whether an entry failed so far (run_test's fail)
    tt_pipe,    \* the reports written and not yet read, its size, and whether
                \*   the last report was lost (history)
    tt_failed   \* the system calls that failed (history)

ttVars == <<tt_parent, tt_child, tt_points, tt_fail, tt_pipe, tt_failed>>

(* Exit statuses; KILLED is a child that did not exit, -1 what handle_wait *)
(* returns then.                                                           *)
TT_ERRNO    == 5
TT_EINVAL   == 22
TT_VALGRIND == 99
TT_CRASH    == 139
TT_KILLED   == 256

TtInit ==
    /\ tt_parent = [pc |-> "start", exit_code |-> 0, buf |-> Garbage, shown |-> <<>>,
                    status |-> -1]
    /\ tt_child = [pc |-> "none", is_exec |-> FALSE, entry |-> 1, at |-> 0, ret |-> 0,
                   wstatus |-> 0]
    /\ tt_points = [total_point |-> 0, point |-> 0]
    /\ tt_fail = FALSE
    /\ tt_pipe = [reports |-> <<>>, size |-> 0, lost |-> FALSE]
    /\ tt_failed = {}

(***************************************************************************)
(* The child                                                               *)
(***************************************************************************)

TtGoto(pc) == tt_child' = [tt_child EXCEPT !.pc = pc]

TtExits(status) == tt_child' = [tt_child EXCEPT !.pc = "dead", !.wstatus = status]

(* write(2) on a pipe that blocks its writer while it is full. *)
TtWritten ==
    /\ Len(tt_pipe.reports) < tt_pipe.size
    /\ tt_pipe' = [tt_pipe EXCEPT !.reports = Append(@, tt_points), !.lost = FALSE]
    /\ UNCHANGED tt_failed

(* One that fails is logged; the child goes on and the report is lost. *)
TtWriteFails ==
    /\ tt_pipe' = [tt_pipe EXCEPT !.lost = TRUE]
    /\ tt_failed' = tt_failed \cup {"write"}

TtWrite == TtWritten \/ TtWriteFails

TtExec ==
    /\ tt_child.pc = "exec"
    /\ \/ TtGoto("loop") /\ UNCHANGED tt_failed
       \/ TtExits(TT_ERRNO) /\ tt_failed' = tt_failed \cup {"execve"}
    /\ UNCHANGED <<tt_parent, tt_points, tt_fail, tt_pipe>>

(* TQ_ASSERT in the first pass. *)
TtCount ==
    /\ ~tt_child.is_exec
    /\ tt_points' = [tt_points EXCEPT !.total_point = @ + 1]
    /\ tt_child' = [tt_child EXCEPT !.at = @ + 1]

(* TQ_ASSERT in the second. *)
TtCheck ==
    /\ tt_child.is_exec
    /\ \/ /\ tt_points' = [tt_points EXCEPT !.point = @ + 1]
          /\ tt_child' = [tt_child EXCEPT !.at = @ + 1]
       \/ /\ tt_child' = [tt_child EXCEPT !.at = @ + 1, !.ret = 1]
          /\ UNCHANGED tt_points

TtAssert ==
    /\ tt_child.pc = "test"
    /\ tt_child.at < TtTests[tt_child.entry]
    /\ TtCount \/ TtCheck
    /\ UNCHANGED <<tt_parent, tt_fail, tt_pipe, tt_failed>>

TtCall ==
    /\ tt_child.pc = "loop" /\ tt_child.entry <= Len(TtTests)
    /\ tt_child' = [tt_child EXCEPT !.pc = "test", !.at = 0, !.ret = 0]
    /\ UNCHANGED <<tt_parent, tt_points, tt_fail, tt_pipe, tt_failed>>

(* Variant: the last entry decides. *)
LastReturn == tt_child.is_exec /\ tt_child.ret # 0

Failure == tt_fail \/ (tt_child.is_exec /\ tt_child.ret # 0)

TtReturn ==
    /\ tt_child.pc = "test"
    /\ tt_child.at = TtTests[tt_child.entry]
    /\ tt_fail' = Failure
    /\ TtGoto("report")
    /\ UNCHANGED <<tt_parent, tt_points, tt_pipe, tt_failed>>

TtReport ==
    /\ tt_child.pc = "report"
    /\ TtWrite
    /\ tt_child' = [tt_child EXCEPT !.pc = "loop", !.entry = @ + 1]
    /\ UNCHANGED <<tt_parent, tt_points, tt_fail>>

(* init_test is done, run_test starts over; or it returns its fail, which  *)
(* valgrind replaces when it has seen an error.                            *)
TtPassEnds ==
    /\ tt_child.pc = "loop" /\ tt_child.entry > Len(TtTests)
    /\ \/ /\ ~tt_child.is_exec
          /\ tt_child' = [tt_child EXCEPT !.is_exec = TRUE, !.entry = 1]
       \/ /\ tt_child.is_exec
          /\ \E status \in {IF tt_fail THEN 1 ELSE 0, TT_VALGRIND} : TtExits(status)
    /\ UNCHANGED <<tt_parent, tt_points, tt_fail, tt_pipe, tt_failed>>

(* SIGSEGV or SIGABRT between two assertions. *)
TtPanic ==
    /\ tt_child.pc = "test"
    /\ TtGoto("handler")
    /\ UNCHANGED <<tt_parent, tt_points, tt_fail, tt_pipe, tt_failed>>

(* Variant: the handler ends before it reports. *)
TtHandlerSilent ==
    /\ tt_child.pc = "handler"
    /\ TtGoto("raise")
    /\ UNCHANGED <<tt_parent, tt_points, tt_fail, tt_pipe, tt_failed>>

(* sig_handler reports the counters as they are. *)
TtHandler ==
    /\ tt_child.pc = "handler"
    /\ TtWrite
    /\ TtGoto("raise")
    /\ UNCHANGED <<tt_parent, tt_points, tt_fail>>

(* Variant: the handler returns without restoring the default action. *)
TtRaiseAgain ==
    /\ tt_child.pc = "raise"
    /\ TtGoto("handler")
    /\ UNCHANGED <<tt_parent, tt_points, tt_fail, tt_pipe, tt_failed>>

(* The signal it raises stays pending behind its own handler, and exit(1)  *)
(* or the one of a failing backtrace_symbols comes first.                  *)
TtRaise ==
    /\ tt_child.pc = "raise"
    /\ \E status \in {1, TT_VALGRIND} : TtExits(status)
    /\ UNCHANGED <<tt_parent, tt_points, tt_fail, tt_pipe, tt_failed>>

TtChild ==
    \/ TtExec \/ TtCall \/ TtAssert \/ TtReturn \/ TtReport \/ TtPassEnds
    \/ TtPanic \/ TtHandler \/ TtRaise

TtKilled ==
    /\ tt_child.pc \notin {"none", "dead"}
    /\ TtExits(TT_KILLED)
    /\ UNCHANGED <<tt_parent, tt_points, tt_fail, tt_pipe, tt_failed>>

(***************************************************************************)
(* The parent                                                              *)
(***************************************************************************)

TtDone(status) == tt_parent' = [tt_parent EXCEPT !.pc = "done", !.status = status]

(* vla_argc, without the pipe's number. *)
VlaArgc(argc) == argc % 256

(* main and spawn_valgrind up to the fork: a command line without valgrind *)
(* is refused, pipe and fork may fail, and for a multiple of 256 words the *)
(* length of the copy wraps.  The test behind fcntl looks at a variable    *)
(* that is still zero, so a failure leaves a read end that blocks.  poll,  *)
(* which is taken to work, goes before every read, and nothing blocks.     *)
TtMain ==
    /\ tt_parent.pc = "start"
    /\ \E argc \in TtArgcs, size \in TtPipes :
          \/ argc = 1 /\ TtDone(TT_EINVAL) /\ UNCHANGED <<tt_child, tt_pipe, tt_failed>>
          \/ /\ argc > 1
             /\ TtDone(TT_ERRNO)
             /\ tt_failed' = tt_failed \cup {"pipe"}
             /\ UNCHANGED <<tt_child, tt_pipe>>
          \/ /\ argc > 1 /\ VlaArgc(argc) = 0
             /\ TtDone(TT_CRASH)
             /\ UNCHANGED <<tt_child, tt_pipe, tt_failed>>
          \/ /\ argc > 1 /\ VlaArgc(argc) > 0
             /\ tt_parent' = [tt_parent EXCEPT !.pc = "wait"]
             /\ tt_pipe' = [tt_pipe EXCEPT !.size = size]
             /\ TtGoto("exec")
             /\ tt_failed' \in {tt_failed, tt_failed \cup {"fcntl"}}
    /\ UNCHANGED <<tt_points, tt_fail>>

(* wait; a child that did not exit, and a wait that fails, are an unknown  *)
(* error.                                                                  *)
TtWait ==
    /\ tt_parent.pc = "wait" /\ tt_child.pc = "dead"
    /\ \/ /\ tt_child.wstatus # TT_KILLED
          /\ tt_parent' = [tt_parent EXCEPT !.pc = "drain", !.exit_code = tt_child.wstatus]
          /\ UNCHANGED tt_failed
       \/ /\ tt_child.wstatus = TT_KILLED
          /\ TtDone(255)
          /\ UNCHANGED tt_failed
       \/ TtDone(255) /\ tt_failed' = tt_failed \cup {"wait"}
    /\ UNCHANGED <<tt_child, tt_points, tt_fail, tt_pipe>>

TtDrain ==
    /\ tt_parent.pc = "drain" /\ tt_pipe.reports # <<>>
    /\ tt_parent' = [tt_parent EXCEPT !.buf = Head(tt_pipe.reports)]
    /\ tt_pipe' = [tt_pipe EXCEPT !.reports = Tail(@)]
    /\ UNCHANGED <<tt_child, tt_points, tt_fail, tt_failed>>

(* The pipe is empty, or a read fails, which changes nothing else. *)
TtDrainEnds ==
    /\ tt_parent.pc = "drain"
    /\ \/ tt_pipe.reports = <<>> /\ UNCHANGED tt_failed
       \/ tt_failed' = tt_failed \cup {"read"}
    /\ tt_parent' = [tt_parent EXCEPT !.pc = "print"]
    /\ UNCHANGED <<tt_child, tt_points, tt_fail, tt_pipe>>

(* print_info always shows buf; the child's status is the verdict. *)
TtPrint ==
    /\ tt_parent.pc = "print"
    /\ tt_parent' = [tt_parent EXCEPT !.pc = "done", !.shown = <<tt_parent.buf>>,
                                      !.status = tt_parent.exit_code]
    /\ UNCHANGED <<tt_child, tt_points, tt_fail, tt_pipe, tt_failed>>

TtParent == TtMain \/ TtWait \/ TtDrain \/ TtDrainEnds \/ TtPrint

TtNext == TtParent \/ TtChild \/ TtKilled

(* A report that does not reach the pipe. *)
TtLost ==
    /\ tt_child.pc \in {"report", "handler"}
    /\ tt_pipe'.reports = tt_pipe.reports /\ tt_pipe'.lost

(* The kernel runs both processes, and every test entry comes to an end. A *)
(* write that waits for room in the pipe need not fail instead.            *)
TtRuns == TtChild /\ ~TtLost

TtSpec == TtInit /\ [][TtNext]_ttVars /\ WF_ttVars(TtParent) /\ WF_ttVars(TtRuns)

-----------------------------------------------------------------------------

(* A zero exit status is earned, whatever fails on the way: the child ran  *)
(* every entry and every assertion of every entry passed.  Unlike in the   *)
(* newer framework there is no exception.                                  *)
TeatestGreenIsEarned ==
    tt_parent.status = 0 =>
        /\ tt_child.pc = "dead" /\ tt_child.is_exec
        /\ tt_child.entry > Len(TtTests)
        /\ tt_points.point = tt_points.total_point

(* If the child was executed, its last report was written and every read   *)
(* succeeded, the summary shows the counters as they were when the child   *)
(* ended, in the middle of an entry if it crashed there.  A report that is *)
(* lost before the last one does no harm, and neither does anything else   *)
(* that fails.                                                             *)
TeatestReportIsTruthful ==
    /\ tt_parent.shown # <<>>
    /\ tt_failed \cap {"execve", "read"} = {} /\ ~tt_pipe.lost
    => tt_parent.shown = <<tt_points>>

(* How many reports a child can write: one per entry and pass, and one of  *)
(* the handler instead of an entry's.                                      *)
Reports == 2 * Len(TtTests)

(* With a pipe that takes all reports the parent comes to an end; with a   *)
(* smaller one the child may wait for a reader that waits for the child.   *)
TeatestFinishes == tt_pipe.size >= Reports ~> tt_parent.pc = "done"
=============================================================================
