------------------------------ MODULE Bluetest ------------------------------
(***************************************************************************)
(* bluetest/bluetest.c, the unit test framework: `do_test` forks a child,  *)
(* waits for it, and only then reads the reports the child left in a       *)
(* nonblocking pipe; the child runs every test entry twice, first to count *)
(* the assertions and then to check them, and reports its counters after   *)
(* each entry and when it crashes.                                         *)
(*                                                                         *)
(* The parent's exit status is what `make test` sees.                      *)
(***************************************************************************)
EXTENDS Integers, Sequences

CONSTANTS
    Tests,      \* for each entry of test_entry, how many assertions it makes:
                \*   [asserts |-> predictable ones, dyns |-> dynamic ones]
    Argcs,      \* how many words the command line of the parent may have
    PipeSizes,  \* how many reports a pipe may hold
    Faults      \* which system calls may fail, a subset of AllFaults

(* setup: pipe, fcntl or fork.  exec: execve in the child.  wait: waitpid  *)
(* returns without a status (SIGCHLD was ignored when the parent started). *)
(* io: poll or read in the parent.  backtrace: backtrace_symbols in the    *)
(* signal handler.                                                         *)
AllFaults == {"setup", "exec", "wait", "io", "backtrace"}

ASSUME ConstantsAssumption ==
    /\ Tests \in Seq([asserts : Nat, dyns : Nat])
    /\ Argcs \subseteq Nat \ {0}
    /\ PipeSizes \subseteq Nat \ {0}
    /\ Faults \subseteq AllFaults

VARIABLES
    argc,       \* the parent's: its name, do_test and the words of the command
    command,    \* what it hands to execve: how many words of the command come
                \*   before do_test_internal, and the descriptor for the reports
    ppc,        \* the parent: start, wait, drain, print, done
    exit_code,  \* handle_wait's exit_code
    report,     \* handle_wait's data, the last report it read
    printed,    \* which parts of the summary the parent has printed
    verdict,    \* the parent's exit status, -1 while it runs
    cpc,        \* the child: none, exec, loop, test, report, handler,
                \*   backtrace, exit, dead
    running,    \* __will_run_test: FALSE while the child counts
    entry,      \* the entry the child is at
    data,       \* init_test's and run_test's counters
    g_data,     \* the counters the signal handler reports
    wstatus,    \* how the child ended: its exit status or its signal
    pipe,       \* the reports written and not yet read
    pipe_size,  \* how many it holds
    failures    \* which system calls have failed so far, "write" for a report
                \*   that never reached the pipe (history)

parent == <<ppc, exit_code, report, printed, verdict>>
child  == <<cpc, wstatus>>
memory == <<running, entry, data, g_data>>
kernel == <<pipe, pipe_size, failures>>
args   == <<argc, command>>
vars   == <<args, parent, child, memory, kernel>>

Zero == [n_test |-> 0, n_pass |-> 0, dyn_fail |-> 0, dyn_pass |-> 0]

(* Exit statuses and wait statuses the runs tell apart. *)
OK       == 0
EIO      == 5       \* the errno of a failing system call, whichever it was
EINVAL   == 22      \* main was not told do_test
VALGRIND == 99      \* --error-exitcode of the Makefile's VGFLAGS
SIGKILL  == 9
CORE     == 136     \* an uncaught SIGFPE and a core dump
SEGV     == 139     \* what a shell makes of a parent that crashes

NoCommand == [words |-> 0, fd |-> "none"]

Init ==
    /\ argc \in Argcs /\ command = NoCommand
    /\ ppc = "start" /\ exit_code = OK /\ report = Zero
    /\ printed = {} /\ verdict = -1
    /\ cpc = "none" /\ running = FALSE /\ entry = 1
    /\ data = Zero /\ g_data = Zero
    /\ wstatus = OK
    /\ pipe = <<>> /\ pipe_size \in PipeSizes /\ failures = {}

(* A system call that may fail fails. *)
Failing(call) == call \in Faults /\ failures' = failures \cup {call}

(***************************************************************************)
(* The child                                                               *)
(***************************************************************************)

(* write(2) on the nonblocking pipe: what does not fit is dropped, and the *)
(* writer prints a message and goes on.  Without the pipe's number on its  *)
(* command line, atoi makes it write to descriptor 0.                      *)
Write(d) ==
    /\ IF command.fd = "pipe" /\ Len(pipe) < pipe_size
       THEN pipe' = Append(pipe, d) /\ UNCHANGED failures
       ELSE failures' = failures \cup {"write"} /\ UNCHANGED pipe
    /\ UNCHANGED pipe_size

(* execve, and main up to init_test, which installs the signal handlers. *)
Exec ==
    /\ cpc = "exec"
    /\ cpc' = "loop"
    /\ UNCHANGED <<args, parent, memory, wstatus, kernel>>

(* spawn_test's `ret` is still zero: the child returns it from main. *)
ExecFails ==
    /\ Failing("exec")
    /\ cpc = "exec"
    /\ cpc' = "dead"
    /\ wstatus' = OK
    /\ UNCHANGED <<args, parent, memory, pipe, pipe_size>>

(* Variant: the snapshot for the handler is not taken. *)
CallEntryWithoutSnapshot ==
    /\ cpc = "loop"
    /\ entry <= Len(Tests)
    /\ cpc' = "test"
    /\ UNCHANGED <<args, parent, memory, wstatus, kernel>>

(* The head of either loop: save the counters and call the entry. *)
CallEntry ==
    /\ cpc = "loop"
    /\ entry <= Len(Tests)
    /\ g_data' = data
    /\ cpc' = "test"
    /\ UNCHANGED <<args, parent, running, entry, data, wstatus, kernel>>

(* Variant: the last assertion is not counted. *)
CountedButTheLast == [data EXCEPT !.n_test = @ + Tests[entry].asserts - 1]

(* The entry returns.  TQ_ASSERT counts itself in the first pass; in the   *)
(* second, p of them pass, and f of the dynamic ones fail.                 *)
Counted == [data EXCEPT !.n_test = @ + Tests[entry].asserts]

Checked(p, f) == [data EXCEPT !.n_pass = @ + p,
                              !.dyn_fail = @ + f,
                              !.dyn_pass = @ + Tests[entry].dyns - f]

EntryReturns ==
    /\ cpc = "test"
    /\ \/ ~running /\ data' = Counted
       \/ running /\ \E p \in 0 .. Tests[entry].asserts, f \in 0 .. Tests[entry].dyns :
                         data' = Checked(p, f)
    /\ cpc' = "report"
    /\ UNCHANGED <<args, parent, running, entry, g_data, wstatus, kernel>>

(* Variant: a blocking pipe. *)
ReportBlocking ==
    /\ cpc = "report"
    /\ command.fd = "pipe" => Len(pipe) < pipe_size
    /\ Write(data)
    /\ entry' = entry + 1
    /\ cpc' = "loop"
    /\ UNCHANGED <<args, parent, running, data, g_data, wstatus>>

Report ==
    /\ cpc = "report"
    /\ Write(data)
    /\ entry' = entry + 1
    /\ cpc' = "loop"
    /\ UNCHANGED <<args, parent, running, data, g_data, wstatus>>

(* init_test returns and run_test starts from the counters it left. *)
CountingEnds ==
    /\ cpc = "loop" /\ ~running
    /\ entry > Len(Tests)
    /\ g_data' = data
    /\ data' = g_data'
    /\ running' = TRUE
    /\ entry' = 1
    /\ UNCHANGED <<args, parent, cpc, wstatus, kernel>>

RunningEnds ==
    /\ cpc = "loop" /\ running
    /\ entry > Len(Tests)
    /\ g_data' = data
    /\ cpc' = "exit"
    /\ UNCHANGED <<args, parent, running, entry, data, wstatus, kernel>>

(* main returns 0; valgrind, which only a command can name, replaces it    *)
(* when it has seen an error.                                              *)
ChildExits ==
    /\ cpc = "exit"
    /\ wstatus' \in {OK} \cup (IF command.words > 0 THEN {VALGRIND} ELSE {})
    /\ cpc' = "dead"
    /\ UNCHANGED <<args, parent, memory, kernel>>

(* The entry raises SIGSEGV or SIGABRT. *)
Panic ==
    /\ cpc = "test"
    /\ cpc' = "handler"
    /\ UNCHANGED <<args, parent, memory, wstatus, kernel>>

(* A signal nobody handles, from the entry or from outside at any moment. *)
Killed ==
    /\ cpc \notin {"none", "dead"}
    /\ wstatus' = CORE
    /\ cpc' = "dead"
    /\ UNCHANGED <<args, parent, memory, kernel>>

(* sig_handler *)
HandlerReports ==
    /\ cpc = "handler"
    /\ Write(g_data)
    /\ cpc' = "backtrace"
    /\ UNCHANGED <<args, parent, memory, wstatus>>

(* kill(my_pid, sig) stays pending inside the handler: SIGKILL ends it. *)
HandlerEnds ==
    /\ cpc = "backtrace"
    /\ wstatus' = SIGKILL
    /\ cpc' = "dead"
    /\ UNCHANGED <<args, parent, memory, kernel>>

BacktraceFails ==
    /\ Failing("backtrace")
    /\ cpc = "backtrace"
    /\ wstatus' = 1
    /\ cpc' = "dead"
    /\ UNCHANGED <<args, parent, memory, pipe, pipe_size>>

(* What the child does by itself; a kill comes from outside. *)
Child ==
    \/ Exec \/ ExecFails
    \/ CallEntry \/ EntryReturns \/ Report
    \/ CountingEnds \/ RunningEnds \/ ChildExits
    \/ Panic \/ HandlerReports \/ HandlerEnds \/ BacktraceFails

(***************************************************************************)
(* The parent                                                              *)
(***************************************************************************)
(* A command line without do_test, or with nothing but the name. *)
Invalid ==
    /\ ppc = "start" /\ argc = 1
    /\ ppc' = "done"
    /\ verdict' = EINVAL
    /\ UNCHANGED <<argc, command, exit_code, report, printed, child, memory, kernel>>

(* Variant: the mask of the comment above the statement. *)
FwArgcOfTheComment(n) == ((n % 256) % 16) + 1

(* fw_argc: the words of the child's command line, with the pipe's number. *)
FwArgc(n) == ((n % 256) % 64) + 1

FW_ARGV == 64   \* the array they are copied to

(* The command comes first, then three words of spawn_test's own, then a   *)
(* NULL.  With 63 arguments the NULL falls behind fw_argv, where the build *)
(* has padding or, with gcc's stack protector, the text of the pipe's      *)
(* number, which it empties.                                               *)
Fork ==
    /\ ppc = "start" /\ argc > 1
    /\ FwArgc(argc) >= 3
    /\ \E fd \in {"pipe"} \cup (IF FwArgc(argc) < FW_ARGV THEN {} ELSE {"stdin"}) :
           command' = [words |-> FwArgc(argc) - 3, fd |-> fd]
    /\ ppc' = "wait"
    /\ cpc' = "exec"
    /\ UNCHANGED <<argc, exit_code, report, printed, verdict, memory, wstatus, kernel>>

(* A count below three makes memmove's length wrap to nearly 2^64. *)
CopyFaults ==
    /\ ppc = "start" /\ argc > 1
    /\ FwArgc(argc) < 3
    /\ verdict' = SEGV
    /\ ppc' = "done"
    /\ UNCHANGED <<args, exit_code, report, printed, child, memory, kernel>>

SetupFails ==
    /\ Failing("setup")
    /\ ppc = "start" /\ argc > 1
    /\ ppc' = "done"
    /\ verdict' = EIO
    /\ UNCHANGED <<args, exit_code, report, printed, cpc, memory, wstatus, pipe, pipe_size>>

(* waitpid returns when the child is dead. *)
Reap ==
    /\ ppc = "wait" /\ cpc = "dead"
    /\ exit_code' = wstatus
    /\ ppc' = "drain"
    /\ UNCHANGED <<args, report, printed, verdict, cpc, memory, wstatus, kernel>>

(* Its result is not looked at: the status is the zero it was set to. *)
ReapFails ==
    /\ Failing("wait")
    /\ ppc = "wait" /\ cpc = "dead"
    /\ exit_code' = OK
    /\ ppc' = "drain"
    /\ UNCHANGED <<args, report, printed, verdict, cpc, memory, wstatus, pipe, pipe_size>>

(* poll finds a report and read overwrites the previous one. *)
Drain ==
    /\ ppc = "drain"
    /\ pipe # <<>>
    /\ report' = Head(pipe)
    /\ pipe' = Tail(pipe)
    /\ UNCHANGED <<args, ppc, exit_code, printed, verdict, child, memory, pipe_size,
                   failures>>

DrainEnds ==
    /\ ppc = "drain"
    /\ pipe = <<>>
    /\ ppc' = "print"
    /\ UNCHANGED <<args, exit_code, report, printed, verdict, cpc, memory, wstatus, kernel>>

(* The errno replaces the child's status. *)
DrainFails ==
    /\ Failing("io")
    /\ ppc = "drain"
    /\ exit_code' = EIO
    /\ ppc' = "print"
    /\ UNCHANGED <<args, report, printed, verdict, cpc, memory, wstatus, pipe, pipe_size>>

(* What print_info shows of a report. *)
PrintInfo(d) ==
    (IF d.n_test = 0 THEN {}
     ELSE {"summary", IF d.n_pass = d.n_test THEN "all passed" ELSE "failed"})
    \cup
    (IF d.dyn_pass + d.dyn_fail = 0 THEN {}
     ELSE {"dyn summary", IF d.dyn_fail = 0 THEN "all dyn passed" ELSE "dyn failed"})

(* Variant: the child's exit status is all that counts. *)
FinishByStatus ==
    /\ ppc = "print"
    /\ printed' = PrintInfo(report)
    /\ verdict' = exit_code % 256
    /\ ppc' = "done"
    /\ UNCHANGED <<args, exit_code, report, child, memory, kernel>>

(* Only a dynamic failure turns a zero status into a failing one. *)
Finish ==
    /\ ppc = "print"
    /\ printed' = PrintInfo(report) \cup IF exit_code = OK THEN {} ELSE {"TEST FAILED!"}
    /\ verdict' = (IF exit_code = OK /\ report.dyn_fail > 0 THEN 1 ELSE exit_code) % 256
    /\ ppc' = "done"
    /\ UNCHANGED <<args, exit_code, report, child, memory, kernel>>

Parent ==
    \/ Invalid \/ CopyFaults \/ Fork \/ SetupFails
    \/ Reap \/ ReapFails
    \/ Drain \/ DrainEnds \/ DrainFails
    \/ Finish

Done == ppc = "done" /\ UNCHANGED vars

Next == Parent \/ Child \/ Killed \/ Done

(* The kernel runs both processes, and every test entry comes to an end. *)
Spec == Init /\ [][Next]_vars /\ WF_vars(Parent) /\ WF_vars(Child)

(***************************************************************************)
(* Properties                                                              *)
(***************************************************************************)
(* If every report found room, what the parent prints once it has read the *)
(* pipe dry is what the child had counted when it ended: everything, or    *)
(* after a panic the entries completed before the one that crashed.  A     *)
(* child that is killed may take with it the results of the entry it was   *)
(* at.                                                                     *)
ReportIsTruthful ==
    ppc = "print" /\ pipe = <<>> /\ "write" \notin failures =>
        report = data \/ (wstatus = CORE /\ report = g_data)

(* What the parent calls all green: the child ran every entry to its end,  *)
(* nobody crashed, valgrind saw nothing and no dynamic assertion failed.   *)
Earned ==
    /\ cpc = "dead" /\ wstatus = OK
    /\ running /\ entry > Len(Tests)
    /\ data.dyn_fail = 0

(* A zero exit status is earned, whatever failed, but for the three        *)
(* failures the code does not notice: an execve that fails in the child, a *)
(* waitpid that fails in the parent, and a report lost with its failed     *)
(* assertions.                                                             *)
GreenIsEarned ==
    verdict = OK /\ failures \cap {"exec", "wait", "write"} = {} => Earned

(* The same without exceptions, as the message for a zero status says.     *)
AllGreen == verdict = OK => Earned

(* The assertions the first k entries make. *)
AssertsUpTo[k \in 0 .. Len(Tests)] ==
    IF k = 0 THEN 0 ELSE AssertsUpTo[k - 1] + Tests[k].asserts

AllPassed == running /\ data.n_pass = AssertsUpTo[Len(Tests)]

(* The line "All predictable tests passed!" is printed only when every     *)
(* assertion of every entry passed, whatever crashed or was lost on the    *)
(* way: an interrupted count is never taken for a complete one.            *)
PraiseIsDeserved == "all passed" \in printed => AllPassed

(* A child that is started gets every word of the command and the number   *)
(* of the pipe, as long as the command line has at most 62 words: one less *)
(* than the comment above the copy allows.                                 *)
CommandArrives ==
    cpc # "none" /\ argc <= 62 => command = [words |-> argc - 2, fd |-> "pipe"]

(* The same as far as that comment goes: "allows max argc up to 63".       *)
AllowedArgcArrives ==
    cpc # "none" /\ argc <= 63 => command = [words |-> argc - 2, fd |-> "pipe"]

(* Counters the parent has seen are never taken back by a later report:    *)
(* the second pass builds on the first, the handler on the last entry.     *)
ReportsOnlyGrow ==
    [][\A c \in DOMAIN Zero : report'[c] >= report[c]]_vars

(* The parent always comes to a verdict: a child with more to say than the *)
(* pipe holds is not blocked by a parent that reads after waiting.         *)
Finishes == <>(ppc = "done")

(***************************************************************************)
(* The inductive invariant behind these.                                   *)
(***************************************************************************)
Counters == [n_test : Nat, n_pass : Nat, dyn_fail : Nat, dyn_pass : Nat]

BluetestTypeOK ==
    /\ argc \in Argcs
    /\ ppc \in {"start", "wait", "drain", "print", "done"}
    /\ cpc \in {"none", "exec", "loop", "test", "report", "exit", "handler", "backtrace", "dead"}
    /\ wstatus \in {OK, 1, SIGKILL, VALGRIND, CORE}
    /\ exit_code \in {OK, 1, EIO, SIGKILL, VALGRIND, CORE}
    /\ report \in Counters /\ data \in Counters /\ g_data \in Counters
    /\ pipe \in Seq(Counters)
    /\ running \in BOOLEAN /\ entry \in 1 .. Len(Tests) + 1

(* The parent reads only when the child is dead. *)
Phases ==
    /\ ppc = "start" => cpc = "none"
    /\ ppc \in {"drain", "print"} => cpc = "dead"
    /\ ppc = "done" => cpc \in {"none", "dead"}
    /\ verdict = OK => ppc = "done" /\ cpc = "dead"

(* What the parent makes of the child's status. *)
Statuses ==
    /\ cpc = "exit" => running /\ entry > Len(Tests)
    /\ cpc = "dead" /\ wstatus = OK /\ "exec" \notin failures =>
           running /\ entry > Len(Tests)
    /\ ppc \in {"drain", "print"} /\ "wait" \notin failures => exit_code \in {wstatus, EIO}
    /\ ppc = "print" => pipe = <<>> \/ exit_code = EIO

(* The report the parent will have read last. *)
LastReport == IF pipe = <<>> THEN report ELSE pipe[Len(pipe)]

(* Where the child is, and its counters against that report. *)
Trail ==
    /\ cpc \in {"test", "report"} => entry <= Len(Tests)
    /\ cpc \in {"test", "handler", "backtrace", "exit"} => g_data = data
    /\ "write" \notin failures =>
           /\ cpc \notin {"report", "dead"} => LastReport = data
           /\ cpc = "report" => LastReport = g_data
           /\ cpc = "dead" => \/ LastReport = data
                              \/ wstatus = CORE /\ LastReport = g_data

NoMoreThan(d, e) == \A c \in DOMAIN Zero : d[c] <= e[c]

(* No report is behind an earlier one, and none ahead of the counters. *)
Growth ==
    /\ NoMoreThan(report, data)
    /\ \A i \in DOMAIN pipe :
           /\ NoMoreThan(report, pipe[i]) /\ NoMoreThan(pipe[i], data)
           /\ \A j \in DOMAIN pipe : i < j => NoMoreThan(pipe[i], pipe[j])

BluetestIInv ==
    /\ BluetestTypeOK /\ Phases /\ Statuses /\ Trail /\ Growth
    /\ GreenIsEarned /\ CommandArrives

(* The counters against the entries that have returned: exactly their      *)
(* assertions while the child counts, at most those while it checks.       *)
Tally ==
    /\ ~running => data.n_pass = 0
    /\ ~running /\ cpc \in {"none", "exec", "loop", "test"} =>
           data.n_test = AssertsUpTo[entry - 1]
    /\ ~running /\ cpc = "report" => data.n_test = AssertsUpTo[entry]
    /\ running =>
           /\ data.n_test = AssertsUpTo[Len(Tests)]
           /\ data.n_pass <= AssertsUpTo[Len(Tests)]
    /\ running /\ cpc \in {"none", "exec", "loop", "test"} =>
           data.n_pass <= AssertsUpTo[entry - 1]
    /\ running /\ cpc = "report" => data.n_pass <= AssertsUpTo[entry]

(* A report that the parent would praise. *)
Praised(d) == d.n_test # 0 /\ d.n_pass = d.n_test

(* No such report is sent before everything has passed. *)
PraiseIInv ==
    /\ Tally
    /\ Praised(report) => AllPassed
    /\ \A i \in DOMAIN pipe : Praised(pipe[i]) => AllPassed
    /\ PraiseIsDeserved
=============================================================================
