--------------------------- MODULE BluetestProofs ---------------------------
(***************************************************************************)
(* Proofs about Bluetest, for every suite, every command line, every size  *)
(* of the pipe and every set of system calls that may fail.                *)
(***************************************************************************)
EXTENDS Bluetest, WellFoundedInduction, SequenceTheorems, TLAPS

USE ConstantsAssumption

LEMMA TestsLength == Len(Tests) \in Nat
  OBVIOUS

LEMMA EntryIsOfItsSet ==
    ASSUME NEW S, NEW s \in Seq(S), NEW i \in 1 .. Len(s)
    PROVE  s[i] \in S
  OBVIOUS

LEMMA NoMoreIsOrder ==
    ASSUME NEW d \in Counters
    PROVE  /\ NoMoreThan(d, d)
           /\ \A e \in Counters, f \in Counters :
                  NoMoreThan(d, e) /\ NoMoreThan(e, f) => NoMoreThan(d, f)
<1>1. DOMAIN Zero = {"n_test", "n_pass", "dyn_fail", "dyn_pass"}
  BY DEF Zero
<1>2. \A e \in Counters, c \in DOMAIN Zero : e[c] \in Nat
  BY <1>1 DEF Counters
<1>. QED  BY <1>2 DEF NoMoreThan

-----------------------------------------------------------------------------
(* The pipe. *)

(* A report that fits is the last one; one that does not is a failure. *)
LEMMA WriteAppends ==
    ASSUME BluetestTypeOK, Growth, NEW d \in Counters, Write(d), NoMoreThan(data, d),
           UNCHANGED <<report, data>>, NoMoreThan(d, data)
    PROVE  /\ pipe' \in Seq(Counters)
           /\ Growth'
           /\ failures \subseteq failures' /\ failures' \subseteq failures \cup {"write"}
           /\ "write" \notin failures' => LastReport' = d
<1>1. CASE command.fd = "pipe" /\ Len(pipe) < pipe_size
  <2>. DEFINE n == Len(pipe)
  <2>1. pipe' = Append(pipe, d) /\ failures' = failures
    BY <1>1 DEF Write
  <2>2. /\ pipe' \in Seq(Counters) /\ n \in Nat
        /\ DOMAIN pipe = 1 .. n /\ DOMAIN pipe' = 1 .. n + 1 /\ Len(pipe') = n + 1
        /\ \A i \in 1 .. n : pipe'[i] = pipe[i] /\ pipe[i] \in Counters
        /\ pipe'[n + 1] = d /\ pipe' # <<>>
    BY <2>1, SMTT(30) DEF BluetestTypeOK
  <2>3. \A e \in Counters : NoMoreThan(e, data) => NoMoreThan(e, d)
    BY NoMoreIsOrder DEF BluetestTypeOK
  <2>4. ASSUME NEW i \in 1 .. n + 1
        PROVE  /\ NoMoreThan(report, pipe'[i]) /\ NoMoreThan(pipe'[i], data)
               /\ \A j \in 1 .. n + 1 : i < j => NoMoreThan(pipe'[i], pipe'[j])
    <3>1. CASE i \in 1 .. n
      <4>1. pipe'[i] = pipe[i] /\ pipe[i] \in Counters
        BY <2>2, <3>1
      <4>2. NoMoreThan(report, pipe[i]) /\ NoMoreThan(pipe[i], data)
        BY <2>2, <3>1 DEF Growth
      <4>3. NoMoreThan(pipe[i], d)
        BY <2>3, <4>1, <4>2
      <4>4. \A j \in 1 .. n : i < j => NoMoreThan(pipe'[i], pipe'[j])
        BY <2>2, <3>1 DEF Growth
      <4>5. \A j \in 1 .. n + 1 : j \in 1 .. n \/ j = n + 1
        BY <2>2
      <4>. QED  BY <2>2, <4>1, <4>2, <4>3, <4>4, <4>5
    <3>2. CASE i = n + 1
      <4>1. pipe'[i] = d /\ \A j \in 1 .. n + 1 : ~(i < j)
        BY <2>2, <3>2
      <4>2. NoMoreThan(report, d)
        BY <2>3 DEF BluetestTypeOK, Growth
      <4>. QED  BY <4>1, <4>2
    <3>. QED  BY <2>2, <3>1, <3>2
  <2>5. Growth'
    <3>1. NoMoreThan(report, data)' <=> NoMoreThan(report, data)
      BY DEF NoMoreThan
    <3>2. \A i \in 1 .. n + 1 : NoMoreThan(report, pipe[i])' /\ NoMoreThan(pipe[i], data)'
                                /\ \A j \in 1 .. n + 1 : i < j => NoMoreThan(pipe[i], pipe[j])'
      BY <2>4 DEF NoMoreThan
    <3>. QED  BY <2>2, <3>1, <3>2 DEF Growth
  <2>6. LastReport' = d
    BY <2>2 DEF LastReport
  <2>. QED  BY <2>1, <2>2, <2>5, <2>6
<1>2. CASE ~(command.fd = "pipe" /\ Len(pipe) < pipe_size)
  <2>1. pipe' = pipe /\ failures' = failures \cup {"write"}
    BY <1>2 DEF Write
  <2>2. Growth'
    BY <2>1 DEF Growth, NoMoreThan
  <2>. QED  BY <2>1, <2>2 DEF BluetestTypeOK
<1>. QED  BY <1>1, <1>2

(* Reading takes the oldest report; the last one stays the last. *)
LEMMA DrainReads ==
    ASSUME BluetestTypeOK, Growth, Drain
    PROVE  /\ pipe' \in Seq(Counters) /\ report' \in Counters
           /\ Growth' /\ LastReport' = LastReport
           /\ NoMoreThan(report, report')
<1>. DEFINE n == Len(pipe)
<1>1. /\ pipe # <<>> /\ pipe \in Seq(Counters)
      /\ report' = pipe[1] /\ pipe' = Tail(pipe) /\ data' = data
  BY DEF Drain, BluetestTypeOK, child, memory
<1>2. /\ n \in Nat /\ n > 0 /\ DOMAIN pipe = 1 .. n /\ 1 \in 1 .. n
  BY <1>1
<1>3. /\ pipe' \in Seq(Counters) /\ Len(pipe') = n - 1 /\ DOMAIN pipe' = 1 .. n - 1
      /\ \A i \in 1 .. n - 1 : pipe'[i] = pipe[i + 1] /\ i + 1 \in 1 .. n /\ 1 < i + 1
  BY <1>1, <1>2
<1>4. report' \in Counters /\ NoMoreThan(report, report') /\ NoMoreThan(report', data)
  BY <1>1, <1>2 DEF Growth
<1>5. LastReport' = LastReport
  <2>1. CASE n = 1
    BY <1>1, <1>2, <1>3, <2>1 DEF LastReport
  <2>2. CASE n # 1
    <3>1. n - 1 \in 1 .. n - 1 /\ pipe' # <<>>
      BY <1>2, <1>3, <2>2
    <3>. QED  BY <1>1, <1>2, <1>3, <3>1 DEF LastReport
  <2>. QED  BY <2>1, <2>2
<1>6. Growth'
  <2>1. NoMoreThan(report, data)'
    BY <1>1, <1>4 DEF NoMoreThan
  <2>2. ASSUME NEW i \in 1 .. n - 1
        PROVE  /\ NoMoreThan(report', pipe'[i]) /\ NoMoreThan(pipe'[i], data)
               /\ \A j \in 1 .. n - 1 : i < j => NoMoreThan(pipe'[i], pipe'[j])
    <3>1. \A j \in 1 .. n - 1 : i < j => i + 1 < j + 1
      BY <1>2
    <3>. QED  BY <1>1, <1>2, <1>3, <3>1 DEF Growth
  <2>3. \A i \in 1 .. n - 1 : NoMoreThan(report, pipe[i])' /\ NoMoreThan(pipe[i], data)'
                              /\ \A j \in 1 .. n - 1 : i < j => NoMoreThan(pipe[i], pipe[j])'
    BY <1>1, <2>2 DEF NoMoreThan
  <2>. QED  BY <1>3, <2>1, <2>3 DEF Growth
<1>. QED  BY <1>3, <1>4, <1>5, <1>6

LEMMA PipeStays ==
    ASSUME Growth, UNCHANGED <<pipe, report, data>>
    PROVE  Growth' /\ LastReport' = LastReport
  BY DEF Growth, LastReport, NoMoreThan

-----------------------------------------------------------------------------
(* The child.  It runs while the parent waits for it. *)

LEMMA ChildKeeps ==
    ASSUME BluetestIInv, cpc \notin {"none", "dead"}, UNCHANGED <<args, parent>>,
           BluetestTypeOK', Trail', Growth', cpc' # "none",
           cpc' = "exit" => running' /\ entry' > Len(Tests),
           cpc' = "dead" /\ wstatus' = OK /\ "exec" \notin failures' =>
               running' /\ entry' > Len(Tests)
    PROVE  BluetestIInv'
<1>1. /\ BluetestTypeOK /\ Phases /\ Statuses /\ GreenIsEarned /\ CommandArrives
  BY DEF BluetestIInv
<1>2. /\ argc' = argc /\ command' = command /\ ppc' = ppc /\ exit_code' = exit_code
      /\ report' = report /\ verdict' = verdict
  BY DEF args, parent
<1>3. ppc = "wait" /\ verdict # OK
  BY <1>1 DEF BluetestTypeOK, Phases
<1>4. Phases'
  BY <1>2, <1>3 DEF Phases
<1>5. Statuses'
  BY <1>2, <1>3 DEF Statuses
<1>6. GreenIsEarned'
  BY <1>2, <1>3 DEF GreenIsEarned
<1>7. CommandArrives'
  BY <1>1, <1>2 DEF CommandArrives
<1>. QED  BY <1>4, <1>5, <1>6, <1>7 DEF BluetestIInv

(* A step of the child that writes nothing and counts nothing. *)
LEMMA SilentKeeps ==
    ASSUME BluetestIInv, cpc \notin {"none", "dead", "report"}, UNCHANGED <<args, parent>>,
           UNCHANGED <<pipe, data>>,
           failures \subseteq failures', "write" \in failures' => "write" \in failures,
           cpc' \in {"exec", "loop", "test", "exit", "handler", "backtrace", "dead"},
           g_data' \in Counters, running' \in BOOLEAN, entry' \in 1 .. Len(Tests) + 1,
           wstatus' \in {OK, 1, SIGKILL, VALGRIND, CORE},
           cpc' = "test" => entry' <= Len(Tests),
           cpc' \in {"test", "handler", "backtrace", "exit"} => g_data' = data,
           cpc' = "exit" => running' /\ entry' > Len(Tests),
           cpc' = "dead" /\ wstatus' = OK /\ "exec" \notin failures' =>
               running' /\ entry' > Len(Tests)
    PROVE  BluetestIInv'
<1>1. BluetestTypeOK /\ Trail /\ Growth
  BY DEF BluetestIInv
<1>2. UNCHANGED <<pipe, report, data>>
  BY DEF parent
<1>3. Growth' /\ LastReport' = LastReport
  BY <1>1, <1>2, PipeStays
<1>4. BluetestTypeOK'
  BY <1>1, <1>2 DEF BluetestTypeOK, parent, args
<1>5. Trail'
  BY <1>1, <1>2, <1>3 DEF Trail
<1>6. cpc' # "none"
  OBVIOUS
<1>. QED  BY <1>3, <1>4, <1>5, <1>6, ChildKeeps

LEMMA StartKeeps ==
    ASSUME BluetestIInv, Exec \/ ExecFails \/ CallEntry \/ Panic
    PROVE  BluetestIInv'
<1>1. BluetestTypeOK /\ Trail
  BY DEF BluetestIInv
<1>2. CASE Exec
  BY <1>1, <1>2, SilentKeeps DEF Exec, memory, kernel, BluetestTypeOK
<1>3. CASE ExecFails
  BY <1>1, <1>3, SilentKeeps DEF ExecFails, Failing, memory, BluetestTypeOK
<1>4. CASE CallEntry
  BY <1>1, <1>4, SilentKeeps DEF CallEntry, kernel, BluetestTypeOK
<1>5. CASE Panic
  BY <1>1, <1>5, SilentKeeps DEF Panic, memory, kernel, BluetestTypeOK, Trail
<1>. QED  BY <1>2, <1>3, <1>4, <1>5

LEMMA EndOfPassKeeps ==
    ASSUME BluetestIInv, CountingEnds \/ RunningEnds
    PROVE  BluetestIInv'
<1>1. BluetestTypeOK
  BY DEF BluetestIInv
<1>2. CASE CountingEnds
  <2>1. data' = data /\ g_data' = data /\ 1 \in 1 .. Len(Tests) + 1
    BY <1>2, TestsLength DEF CountingEnds
  <2>. QED  BY <1>1, <1>2, <2>1, SilentKeeps DEF CountingEnds, kernel, BluetestTypeOK
<1>3. CASE RunningEnds
  BY <1>1, <1>3, SilentKeeps DEF RunningEnds, kernel, BluetestTypeOK
<1>. QED  BY <1>2, <1>3

LEMMA EndOfChildKeeps ==
    ASSUME BluetestIInv, ChildExits \/ HandlerEnds \/ BacktraceFails
    PROVE  BluetestIInv'
<1>1. BluetestTypeOK /\ Statuses
  BY DEF BluetestIInv
<1>2. CASE ChildExits
  <2>1. wstatus' \in {OK, VALGRIND}
    BY <1>2 DEF ChildExits
  <2>. QED  BY <1>1, <1>2, <2>1, SilentKeeps
            DEF ChildExits, memory, kernel, BluetestTypeOK, Statuses
<1>3. CASE HandlerEnds
  BY <1>1, <1>3, SilentKeeps DEF HandlerEnds, memory, kernel, BluetestTypeOK, OK, SIGKILL
<1>4. CASE BacktraceFails
  BY <1>1, <1>4, SilentKeeps DEF BacktraceFails, Failing, memory, BluetestTypeOK, OK
<1>. QED  BY <1>2, <1>3, <1>4

LEMMA KilledKeeps ==
    ASSUME BluetestIInv, Killed
    PROVE  BluetestIInv'
<1>1. BluetestTypeOK /\ Trail /\ Growth
  BY DEF BluetestIInv
<1>2. /\ cpc \notin {"none", "dead"} /\ cpc' = "dead" /\ wstatus' = CORE
      /\ UNCHANGED <<args, parent>> /\ UNCHANGED <<running, entry, data, g_data>>
      /\ UNCHANGED <<pipe, failures>>
  BY DEF Killed, memory, kernel
<1>3. UNCHANGED <<pipe, report, data>>
  BY <1>2 DEF parent
<1>4. Growth' /\ LastReport' = LastReport
  BY <1>1, <1>3, PipeStays
<1>5. BluetestTypeOK'
  BY <1>1, <1>2, <1>3 DEF BluetestTypeOK, parent, args
<1>6. Trail'
  BY <1>1, <1>2, <1>4 DEF Trail
<1>7. wstatus' # OK
  BY <1>2 DEF OK, CORE
<1>. QED  BY <1>2, <1>4, <1>5, <1>6, <1>7, ChildKeeps

LEMMA FieldsGrow ==
    ASSUME NEW old \in Counters, NEW new \in Counters,
           old.n_test <= new.n_test, old.n_pass <= new.n_pass,
           old.dyn_fail <= new.dyn_fail, old.dyn_pass <= new.dyn_pass
    PROVE  NoMoreThan(old, new)
<1>1. DOMAIN Zero = {"n_test", "n_pass", "dyn_fail", "dyn_pass"}
  BY DEF Zero
<1>. QED  BY <1>1, Zenon DEF NoMoreThan

(* What an entry does to the counters never takes back a count. *)
LEMMA EntryCounts ==
    ASSUME BluetestTypeOK, entry <= Len(Tests), NEW d,
           \/ d = Counted
           \/ \E p \in 0 .. Tests[entry].asserts, f \in 0 .. Tests[entry].dyns : d = Checked(p, f)
    PROVE  d \in Counters /\ NoMoreThan(data, d)
<1>1. entry \in 1 .. Len(Tests)
  BY TestsLength DEF BluetestTypeOK
<1>2. Tests[entry] \in [asserts : Nat, dyns : Nat]
  BY <1>1, EntryIsOfItsSet, Zenon
<1>3. /\ Tests[entry].asserts \in Nat /\ Tests[entry].dyns \in Nat
      /\ data.n_test \in Nat /\ data.n_pass \in Nat
      /\ data.dyn_fail \in Nat /\ data.dyn_pass \in Nat
      /\ data = [n_test |-> data.n_test, n_pass |-> data.n_pass,
                 dyn_fail |-> data.dyn_fail, dyn_pass |-> data.dyn_pass]
  BY <1>2 DEF BluetestTypeOK, Counters
<1>4. \A m, n \in Nat : m + n \in Nat /\ m <= m + n /\ m <= m
  OBVIOUS
<1>5. CASE d = Counted
  <2>1. d = [n_test |-> data.n_test + Tests[entry].asserts, n_pass |-> data.n_pass,
             dyn_fail |-> data.dyn_fail, dyn_pass |-> data.dyn_pass]
    BY <1>3, <1>5 DEF Counted
  <2>2. d \in Counters
    BY <1>3, <1>4, <2>1 DEF Counters
  <2>3. /\ data.n_test <= d.n_test /\ data.n_pass <= d.n_pass
        /\ data.dyn_fail <= d.dyn_fail /\ data.dyn_pass <= d.dyn_pass
    BY <1>3, <1>4, <2>1
  <2>. QED  BY <2>2, <2>3, FieldsGrow DEF BluetestTypeOK
<1>6. ASSUME NEW p \in 0 .. Tests[entry].asserts, NEW f \in 0 .. Tests[entry].dyns,
             d = Checked(p, f)
      PROVE  d \in Counters /\ NoMoreThan(data, d)
  <2>1. p \in Nat /\ f \in Nat /\ Tests[entry].dyns - f \in Nat
        /\ data.dyn_pass + Tests[entry].dyns - f = data.dyn_pass + (Tests[entry].dyns - f)
    <3>1. \A x, y \in Nat : x + y - f = x + (y - f)
      OBVIOUS
    <3>2. \A y \in Nat : f \in 0 .. y => y - f \in Nat
      OBVIOUS
    <3>. QED  BY <1>3, <3>1, <3>2
  <2>2. d = [n_test |-> data.n_test, n_pass |-> data.n_pass + p,
             dyn_fail |-> data.dyn_fail + f,
             dyn_pass |-> data.dyn_pass + (Tests[entry].dyns - f)]
    BY <1>3, <1>6, <2>1, ZenonT(60) DEF Checked
  <2>3. d \in Counters
    BY <1>3, <1>4, <2>1, <2>2 DEF Counters
  <2>4. /\ data.n_test <= d.n_test /\ data.n_pass <= d.n_pass
        /\ data.dyn_fail <= d.dyn_fail /\ data.dyn_pass <= d.dyn_pass
    BY <1>3, <1>4, <2>1, <2>2
  <2>. QED  BY <2>3, <2>4, FieldsGrow DEF BluetestTypeOK
<1>. QED  BY <1>5, <1>6

LEMMA EntryReturnsKeeps ==
    ASSUME BluetestIInv, EntryReturns
    PROVE  BluetestIInv'
<1>1. BluetestTypeOK /\ Trail /\ Growth
  BY DEF BluetestIInv
<1>2. /\ cpc = "test" /\ cpc' = "report"
      /\ UNCHANGED <<args, parent>> /\ report' = report /\ pipe' = pipe /\ failures' = failures
      /\ UNCHANGED <<running, entry, g_data, wstatus>>
  BY DEF EntryReturns, parent, kernel
<1>3. entry <= Len(Tests) /\ g_data = data
  BY <1>1, <1>2 DEF Trail
<1>4. data' \in Counters /\ NoMoreThan(data, data')
  <2>1. \/ data' = Counted
        \/ \E p \in 0 .. Tests[entry].asserts, f \in 0 .. Tests[entry].dyns : data' = Checked(p, f)
    BY DEF EntryReturns
  <2>. QED  BY <1>1, <1>3, <2>1, EntryCounts
<1>5. BluetestTypeOK'
  BY <1>1, <1>2, <1>4 DEF BluetestTypeOK, parent, args
<1>6. LastReport' = LastReport
  BY <1>2 DEF LastReport
<1>7. Trail'
  BY <1>1, <1>2, <1>3, <1>6 DEF Trail
<1>8. Growth'
  <2>1. \A e \in Counters : NoMoreThan(e, data) => NoMoreThan(e, data')
    BY <1>1, <1>4, NoMoreIsOrder DEF BluetestTypeOK
  <2>2. \A i \in DOMAIN pipe : pipe[i] \in Counters
    BY <1>1 DEF BluetestTypeOK
  <2>3. /\ NoMoreThan(report, data)' = NoMoreThan(report, data')
        /\ \A i : /\ NoMoreThan(report, pipe[i])' = NoMoreThan(report, pipe[i])
                  /\ NoMoreThan(pipe[i], data)' = NoMoreThan(pipe[i], data')
                  /\ \A j : NoMoreThan(pipe[i], pipe[j])' = NoMoreThan(pipe[i], pipe[j])
    BY <1>2 DEF NoMoreThan
  <2>. QED  BY <1>1, <1>2, <2>1, <2>2, <2>3 DEF Growth, BluetestTypeOK
<1>. QED  BY <1>2, <1>5, <1>7, <1>8, ChildKeeps

LEMMA ReportKeeps ==
    ASSUME BluetestIInv, Report
    PROVE  BluetestIInv'
<1>1. BluetestTypeOK /\ Trail /\ Growth
  BY DEF BluetestIInv
<1>2. /\ cpc = "report" /\ cpc' = "loop" /\ Write(data) /\ entry' = entry + 1
      /\ UNCHANGED <<args, parent>> /\ report' = report
      /\ UNCHANGED <<running, data, g_data, wstatus>>
  BY DEF Report, parent
<1>3. /\ pipe' \in Seq(Counters) /\ Growth'
      /\ "write" \notin failures' => LastReport' = data
  BY <1>1, <1>2, WriteAppends, NoMoreIsOrder DEF BluetestTypeOK
<1>4. entry' \in 1 .. Len(Tests) + 1
  BY <1>1, <1>2, TestsLength DEF BluetestTypeOK, Trail
<1>5. BluetestTypeOK'
  BY <1>1, <1>2, <1>3, <1>4 DEF BluetestTypeOK, parent, args
<1>6. Trail'
  BY <1>2, <1>3 DEF Trail
<1>. QED  BY <1>2, <1>3, <1>5, <1>6, ChildKeeps

LEMMA HandlerReportsKeeps ==
    ASSUME BluetestIInv, HandlerReports
    PROVE  BluetestIInv'
<1>1. BluetestTypeOK /\ Trail /\ Growth
  BY DEF BluetestIInv
<1>2. /\ cpc = "handler" /\ cpc' = "backtrace" /\ Write(g_data)
      /\ UNCHANGED <<args, parent>> /\ report' = report
      /\ UNCHANGED <<running, entry, data, g_data, wstatus>>
  BY DEF HandlerReports, parent, memory
<1>3. g_data = data
  BY <1>1, <1>2 DEF Trail
<1>4. /\ pipe' \in Seq(Counters) /\ Growth'
      /\ "write" \notin failures' => LastReport' = data
  BY <1>1, <1>2, <1>3, WriteAppends, NoMoreIsOrder DEF BluetestTypeOK
<1>5. BluetestTypeOK'
  BY <1>1, <1>2, <1>4 DEF BluetestTypeOK, parent, args
<1>6. Trail'
  BY <1>2, <1>3, <1>4 DEF Trail
<1>. QED  BY <1>2, <1>4, <1>5, <1>6, ChildKeeps

-----------------------------------------------------------------------------
(* The parent. *)

(* A step of the parent that starts no child. *)
LEMMA ParentKeeps ==
    ASSUME BluetestIInv, UNCHANGED <<cpc, memory, wstatus>>,
           failures \subseteq failures', "write" \in failures' => "write" \in failures,
           "exec" \in failures' => "exec" \in failures,
           pipe' \in Seq(Counters), report' \in Counters, Growth', LastReport' = LastReport,
           ppc' \in {"drain", "print", "done"},
           exit_code' \in {OK, 1, EIO, SIGKILL, VALGRIND, CORE},
           Phases', command' = command \/ cpc = "none", argc' = argc,
           ppc' \in {"drain", "print"} /\ "wait" \notin failures' => exit_code' \in {wstatus, EIO},
           ppc' = "print" => pipe' = <<>> \/ exit_code' = EIO,
           GreenIsEarned'
    PROVE  BluetestIInv'
<1>1. /\ BluetestTypeOK /\ Phases /\ Statuses /\ Trail /\ CommandArrives
  BY DEF BluetestIInv
<1>2. UNCHANGED <<running, entry, data, g_data>>
  BY DEF memory
<1>3. BluetestTypeOK'
  BY <1>1, <1>2 DEF BluetestTypeOK
<1>4. Statuses'
  BY <1>1, <1>2 DEF Statuses
<1>5. Trail'
  BY <1>1, <1>2 DEF Trail
<1>6. CommandArrives'
  BY <1>1 DEF CommandArrives
<1>. QED  BY <1>3, <1>4, <1>5, <1>6 DEF BluetestIInv

(* The command line of the child, up to 62 words. *)
LEMMA FwArgcCounts ==
    ASSUME NEW n \in Nat, n > 1, n <= 62
    PROVE  FwArgc(n) = n + 1 /\ FwArgc(n) < FW_ARGV /\ FwArgc(n) - 3 = n - 2
<1>1. n % 256 = n /\ n % 64 = n
  OBVIOUS
<1>. QED  BY <1>1 DEF FwArgc, FW_ARGV

LEMMA ForkKeeps ==
    ASSUME BluetestIInv, Fork
    PROVE  BluetestIInv'
<1>1. /\ BluetestTypeOK /\ Phases /\ Statuses /\ Trail /\ Growth
      /\ GreenIsEarned /\ CommandArrives
  BY DEF BluetestIInv
<1>2. /\ ppc = "start" /\ cpc = "none" /\ ppc' = "wait" /\ cpc' = "exec" /\ argc > 1
      /\ UNCHANGED <<argc, exit_code, report, printed, verdict, wstatus>>
      /\ UNCHANGED <<running, entry, data, g_data>> /\ UNCHANGED <<pipe, failures>>
  BY <1>1 DEF Fork, memory, kernel, Phases
<1>3. BluetestTypeOK'
  BY <1>1, <1>2 DEF BluetestTypeOK
<1>4. Phases'
  BY <1>1, <1>2 DEF Phases
<1>5. Statuses'
  BY <1>2 DEF Statuses
<1>6. Growth' /\ LastReport' = LastReport
  BY <1>1, <1>2, PipeStays
<1>7. Trail'
  BY <1>1, <1>2, <1>6 DEF Trail
<1>8. GreenIsEarned'
  BY <1>1, <1>2 DEF GreenIsEarned, Phases
<1>9. CommandArrives'
  <2>1. CASE argc <= 62
    <3>1. FwArgc(argc) - 3 = argc - 2 /\ FwArgc(argc) < FW_ARGV
      <4>1. argc \in Nat
        BY <1>1 DEF BluetestTypeOK
      <4>. QED  BY <1>2, <2>1, <4>1, FwArgcCounts
    <3>2. command' = [words |-> argc - 2, fd |-> "pipe"]
      BY <3>1 DEF Fork
    <3>. QED  BY <1>2, <3>2 DEF CommandArrives
  <2>2. CASE ~(argc <= 62)
    BY <1>2, <2>2 DEF CommandArrives
  <2>. QED  BY <2>1, <2>2
<1>. QED  BY <1>3, <1>4, <1>5, <1>6, <1>7, <1>8, <1>9 DEF BluetestIInv

(* The parent ends before it has a child. *)
LEMMA EarlyEndKeeps ==
    ASSUME BluetestIInv, Invalid \/ CopyFaults \/ SetupFails
    PROVE  BluetestIInv'
<1>1. BluetestTypeOK /\ Phases /\ Growth
  BY DEF BluetestIInv
<1>2. /\ ppc = "start" /\ cpc = "none" /\ ppc' = "done" /\ verdict' # OK
      /\ UNCHANGED <<args, exit_code, report, cpc, memory, wstatus>>
      /\ UNCHANGED <<pipe, data, argc, command>>
      /\ failures \subseteq failures' /\ failures' \subseteq failures \cup {"setup"}
  BY <1>1 DEF Invalid, CopyFaults, SetupFails, Failing, Phases, child, kernel, memory, args,
              OK, EINVAL, SEGV, EIO
<1>3. Growth' /\ LastReport' = LastReport
  BY <1>1, <1>2, PipeStays
<1>4. Phases'
  BY <1>2 DEF Phases
<1>5. GreenIsEarned'
  BY <1>2 DEF GreenIsEarned
<1>. QED  BY <1>1, <1>2, <1>3, <1>4, <1>5, ParentKeeps DEF BluetestTypeOK

LEMMA ReapKeeps ==
    ASSUME BluetestIInv, Reap \/ ReapFails
    PROVE  BluetestIInv'
<1>1. BluetestTypeOK /\ Phases /\ Growth
  BY DEF BluetestIInv
<1>2. /\ ppc = "wait" /\ cpc = "dead" /\ ppc' = "drain" /\ verdict' = verdict
      /\ UNCHANGED <<args, report, cpc, memory, wstatus>>
      /\ UNCHANGED <<pipe, data, argc, command>>
      /\ failures \subseteq failures' /\ failures' \subseteq failures \cup {"wait"}
      /\ exit_code' \in {wstatus, OK}
      /\ "wait" \notin failures' => exit_code' = wstatus
  BY DEF Reap, ReapFails, Failing, kernel, memory, args
<1>3. Growth' /\ LastReport' = LastReport
  BY <1>1, <1>2, PipeStays
<1>4. Phases'
  BY <1>1, <1>2 DEF Phases
<1>5. GreenIsEarned'
  BY <1>1, <1>2 DEF GreenIsEarned, Phases
<1>. QED  BY <1>1, <1>2, <1>3, <1>4, <1>5, ParentKeeps DEF BluetestTypeOK

LEMMA DrainKeeps ==
    ASSUME BluetestIInv, Drain
    PROVE  BluetestIInv'
<1>1. BluetestTypeOK /\ Phases /\ Growth /\ Statuses
  BY DEF BluetestIInv
<1>2. /\ ppc = "drain" /\ ppc' = "drain" /\ verdict' = verdict /\ exit_code' = exit_code
      /\ UNCHANGED <<args, cpc, memory, wstatus>> /\ failures' = failures
      /\ UNCHANGED <<argc, command>>
  BY DEF Drain, child, memory, args
<1>3. /\ pipe' \in Seq(Counters) /\ report' \in Counters
      /\ Growth' /\ LastReport' = LastReport
  BY <1>1, DrainReads
<1>4. Phases'
  BY <1>1, <1>2 DEF Phases
<1>5. GreenIsEarned'
  BY <1>1, <1>2 DEF GreenIsEarned, Phases
<1>. QED  BY <1>1, <1>2, <1>3, <1>4, <1>5, ParentKeeps DEF BluetestTypeOK, Statuses

LEMMA DrainStopsKeeps ==
    ASSUME BluetestIInv, DrainEnds \/ DrainFails
    PROVE  BluetestIInv'
<1>1. BluetestTypeOK /\ Phases /\ Growth /\ Statuses
  BY DEF BluetestIInv
<1>2. /\ ppc = "drain" /\ ppc' = "print" /\ verdict' = verdict
      /\ UNCHANGED <<args, report, cpc, memory, wstatus>>
      /\ UNCHANGED <<pipe, data, argc, command>>
      /\ failures \subseteq failures' /\ failures' \subseteq failures \cup {"io"}
      /\ \/ exit_code' = exit_code /\ pipe' = <<>>
         \/ exit_code' = EIO
  BY DEF DrainEnds, DrainFails, Failing, kernel, memory, args
<1>3. Growth' /\ LastReport' = LastReport
  BY <1>1, <1>2, PipeStays
<1>4. Phases'
  BY <1>1, <1>2 DEF Phases
<1>5. GreenIsEarned'
  BY <1>1, <1>2 DEF GreenIsEarned, Phases
<1>. QED  BY <1>1, <1>2, <1>3, <1>4, <1>5, ParentKeeps DEF BluetestTypeOK, Statuses

(* What the parent reads last, once the pipe is dry. *)
LEMMA TruthOfTheReport == BluetestIInv => ReportIsTruthful
<1>. SUFFICES ASSUME BluetestIInv, ppc = "print", pipe = <<>>, "write" \notin failures
              PROVE  report = data \/ (wstatus = CORE /\ report = g_data)
  BY DEF ReportIsTruthful
<1>1. cpc = "dead" /\ LastReport = report
  BY DEF BluetestIInv, Phases, LastReport
<1>. QED  BY <1>1 DEF BluetestIInv, Trail

LEMMA FinishKeeps ==
    ASSUME BluetestIInv, Finish
    PROVE  BluetestIInv'
<1>1. BluetestTypeOK /\ Phases /\ Growth /\ Statuses /\ ReportIsTruthful
  BY TruthOfTheReport DEF BluetestIInv
<1>2. /\ ppc = "print" /\ cpc = "dead" /\ ppc' = "done"
      /\ UNCHANGED <<args, exit_code, report, cpc, memory, wstatus>>
      /\ UNCHANGED <<pipe, data, argc, command, failures, running, entry>>
      /\ verdict' = (IF exit_code = OK /\ report.dyn_fail > 0 THEN 1 ELSE exit_code) % 256
  BY <1>1 DEF Finish, child, memory, kernel, args, Phases
<1>3. Growth' /\ LastReport' = LastReport
  BY <1>1, <1>2, PipeStays
<1>4. Phases'
  BY <1>2 DEF Phases
<1>5. GreenIsEarned'
  <2>. SUFFICES ASSUME verdict' = OK, failures \cap {"exec", "wait", "write"} = {}
                PROVE  Earned'
    BY <1>2 DEF GreenIsEarned
  <2>1. exit_code = OK /\ ~(report.dyn_fail > 0)
    <3>1. \A c \in {1, 5, 9, 99, 136} : c % 256 # 0
      OBVIOUS
    <3>2. (IF exit_code = OK /\ report.dyn_fail > 0 THEN 1 ELSE exit_code)
              \in {0, 1, 5, 9, 99, 136}
      BY <1>1 DEF BluetestTypeOK, OK, EIO, SIGKILL, VALGRIND, CORE
    <3>3. (IF exit_code = OK /\ report.dyn_fail > 0 THEN 1 ELSE exit_code) = 0
      BY <1>2, <3>1, <3>2, ZenonT(60) DEF OK
    <3>. QED  BY <3>3 DEF OK
  <2>2. wstatus = OK /\ pipe = <<>>
    BY <1>1, <1>2, <2>1 DEF Statuses, OK, EIO
  <2>3. running /\ entry > Len(Tests)
    BY <1>1, <1>2, <2>2 DEF Statuses
  <2>4. report = data
    BY <1>1, <1>2, <2>2 DEF ReportIsTruthful, OK, CORE
  <2>5. data.dyn_fail = 0
    BY <1>1, <2>1, <2>4 DEF BluetestTypeOK, Counters
  <2>. QED  BY <1>2, <2>2, <2>3, <2>5 DEF Earned
<1>. QED  BY <1>1, <1>2, <1>3, <1>4, <1>5, ParentKeeps DEF BluetestTypeOK

-----------------------------------------------------------------------------

LEMMA BluetestInitIsInductive == Init => BluetestIInv
<1>. SUFFICES ASSUME Init PROVE BluetestIInv
  OBVIOUS
<1>1. Zero \in Counters /\ NoMoreThan(Zero, Zero)
  <2>1. Zero \in Counters
    BY DEF Zero, Counters
  <2>. QED  BY <2>1, NoMoreIsOrder
<1>2. BluetestTypeOK
  <2>1. entry \in 1 .. Len(Tests) + 1
    BY TestsLength DEF Init
  <2>2. pipe \in Seq(Counters)
    BY DEF Init
  <2>. QED  BY <1>1, <2>1, <2>2 DEF Init, BluetestTypeOK
<1>3. Phases /\ Statuses
  BY DEF Init, Phases, Statuses, OK
<1>4. Trail
  BY DEF Init, Trail, LastReport
<1>5. Growth
  BY <1>1 DEF Init, Growth
<1>6. GreenIsEarned /\ CommandArrives
  BY DEF Init, GreenIsEarned, CommandArrives, OK
<1>. QED  BY <1>2, <1>3, <1>4, <1>5, <1>6 DEF BluetestIInv

LEMMA IdleKeeps == BluetestIInv /\ UNCHANGED vars => BluetestIInv'
<1>. SUFFICES ASSUME BluetestIInv, UNCHANGED vars PROVE BluetestIInv'
  OBVIOUS
<1>1. /\ BluetestTypeOK /\ Phases /\ Statuses /\ Trail /\ Growth
      /\ GreenIsEarned /\ CommandArrives
  BY DEF BluetestIInv
<1>2. /\ UNCHANGED <<argc, command, ppc, exit_code, report, verdict>>
      /\ UNCHANGED <<cpc, wstatus, running, entry, data, g_data, pipe, failures>>
  BY DEF vars, args, parent, child, memory, kernel
<1>3. Growth' /\ LastReport' = LastReport
  BY <1>1, <1>2, PipeStays
<1>4. BluetestTypeOK'
  BY <1>1, <1>2 DEF BluetestTypeOK
<1>5. Phases' /\ Statuses'
  BY <1>1, <1>2 DEF Phases, Statuses
<1>6. Trail'
  BY <1>1, <1>2, <1>3 DEF Trail
<1>7. GreenIsEarned' /\ CommandArrives'
  BY <1>1, <1>2 DEF GreenIsEarned, CommandArrives, Earned
<1>. QED  BY <1>3, <1>4, <1>5, <1>6, <1>7 DEF BluetestIInv

LEMMA BluetestStepKeeps == BluetestIInv /\ [Next]_vars => BluetestIInv'
<1>. SUFFICES ASSUME BluetestIInv, [Next]_vars PROVE BluetestIInv'
  OBVIOUS
<1>1. CASE Parent
  BY <1>1, EarlyEndKeeps, ForkKeeps, ReapKeeps, DrainKeeps, DrainStopsKeeps, FinishKeeps
     DEF Parent
<1>2. CASE Child
  BY <1>2, StartKeeps, EntryReturnsKeeps, ReportKeeps, EndOfPassKeeps, EndOfChildKeeps,
     HandlerReportsKeeps
     DEF Child
<1>3. CASE Killed
  BY <1>3, KilledKeeps
<1>4. CASE UNCHANGED vars
  BY <1>4, IdleKeeps
<1>. QED  BY <1>1, <1>2, <1>3, <1>4 DEF Next, Done

LEMMA BluetestInvariant == Spec => []BluetestIInv
  BY BluetestInitIsInductive, BluetestStepKeeps, PTL DEF Spec

-----------------------------------------------------------------------------
(* How many assertions a suite makes. *)

(* A nonempty set of naturals has a least element. *)
LEMMA LeastNatural ==
    ASSUME NEW T \in SUBSET Nat, T # {}
    PROVE  \E m \in T : \A k \in T : m <= k
<1>. DEFINE Less == {ss \in Nat \X Nat : ss[1] < ss[2]}
<1>1. OpToRel(<, Nat) = Less
  BY Zenon DEF OpToRel
<1>2. IsWellFoundedOn(Less, Nat)
  BY <1>1, NatLessThanWellFounded, Zenon
<1>. HIDE DEF Less
<1>3. PICK m \in T : \A k \in T : ~ (<<k, m>> \in Less)
  BY <1>2, WFMin, Zenon
<1>4. \A k \in T : <<k, m>> \in Less <=> k < m
  BY DEF Less
<1>5. \A k \in T : ~ (k < m)
  BY <1>3, <1>4, Zenon
<1>6. \A k \in T : m <= k
  BY <1>5
<1>. QED  BY <1>6

(* The sums of the first n entries. *)
SumsOf(n) ==
    {h \in [0 .. n -> Nat] : h[0] = 0 /\ \A k \in 1 .. n : h[k] = h[k - 1] + Tests[k].asserts}

LEMMA EntriesAssert == \A k \in 1 .. Len(Tests) : Tests[k].asserts \in Nat
<1>1. \A k \in 1 .. Len(Tests) : Tests[k] \in [asserts : Nat, dyns : Nat]
  BY EntryIsOfItsSet
<1>. QED  BY <1>1

LEMMA SumsExist == SumsOf(Len(Tests)) # {}
<1>. DEFINE N == Len(Tests)
            Stuck == {n \in 0 .. N : SumsOf(n) = {}}
<1>1. N \in Nat
  BY TestsLength
<1>2. Stuck = {}
  <2>1. SUFFICES ASSUME Stuck # {} PROVE FALSE
    OBVIOUS
  <2>2. Stuck \in SUBSET Nat
    BY <1>1
  <2>. HIDE DEF Stuck
  <2>3. PICK m \in Stuck : \A k \in Stuck : m <= k
    BY <2>1, <2>2, LeastNatural
  <2>4. m \in 0 .. N /\ SumsOf(m) = {}
    BY DEF Stuck
  <2>5. m # 0
    <3>1. PICK h : h = [i \in 0 .. 0 |-> 0]
      OBVIOUS
    <3>2. h \in SumsOf(0)
      BY <3>1 DEF SumsOf
    <3>. QED  BY <2>4, <3>2
  <2>6. m - 1 \in 0 .. N /\ m - 1 \notin Stuck /\ m \in 1 .. N /\ m \in Nat
    BY <1>1, <2>3, <2>4, <2>5
  <2>7. PICK h : h \in SumsOf(m - 1)
    BY <2>6 DEF Stuck
  <2>8. h \in [0 .. m - 1 -> Nat] /\ h[0] = 0
    BY <2>7 DEF SumsOf
  <2>9. \A i \in 1 .. m - 1 : h[i] = h[i - 1] + Tests[i].asserts
    BY <2>7 DEF SumsOf
  <2>10. PICK a \in Nat : a = Tests[m].asserts
    BY <2>6, EntriesAssert
  <2>11. PICK h2 : h2 = [i \in 0 .. m |-> IF i = m THEN h[m - 1] + a ELSE h[i]]
    OBVIOUS
  <2>12. h2 \in [0 .. m -> Nat] /\ h2[0] = 0
    BY <2>5, <2>6, <2>8, <2>11
  <2>13. ASSUME NEW i \in 1 .. m PROVE h2[i] = h2[i - 1] + Tests[i].asserts
    <3>1. h2[i - 1] = h[i - 1]
      BY <2>6, <2>11
    <3>2. CASE i = m
      <4>1. h2[m] = h[m - 1] + a /\ h2[m - 1] = h[m - 1]
        BY <2>6, <2>11
      <4>. QED  BY <2>10, <3>2, <4>1, Zenon
    <3>3. CASE i # m
      <4>1. i \in 1 .. m - 1 /\ h2[i] = h[i]
        BY <2>6, <2>11, <3>3
      <4>. QED  BY <2>9, <3>1, <4>1, Zenon
    <3>. QED  BY <3>2, <3>3
  <2>14. h2 \in SumsOf(m)
    BY <2>12, <2>13 DEF SumsOf
  <2>. QED  BY <2>4, <2>14
<1>3. N \in 0 .. N
  BY <1>1
<1>. QED  BY <1>2, <1>3

LEMMA AssertsAdd ==
    /\ AssertsUpTo[0] = 0
    /\ \A k \in 1 .. Len(Tests) :
           AssertsUpTo[k] = AssertsUpTo[k - 1] + Tests[k].asserts
<1>. DEFINE N == Len(Tests)
            Unfolds(g) == g = [k \in 0 .. N |-> IF k = 0 THEN 0 ELSE g[k - 1] + Tests[k].asserts]
<1>1. N \in Nat
  BY TestsLength
<1>2. AssertsUpTo = CHOOSE g : Unfolds(g)
  BY DEF AssertsUpTo
<1>. HIDE DEF N
<1>3. PICK h : h \in SumsOf(N)
  BY SumsExist DEF N
<1>4. h \in [0 .. N -> Nat] /\ h[0] = 0 /\ \A k \in 1 .. N : h[k] = h[k - 1] + Tests[k].asserts
  BY <1>3 DEF SumsOf
<1>5. Unfolds(h)
  <2>1. \A k \in 0 .. N : h[k] = IF k = 0 THEN 0 ELSE h[k - 1] + Tests[k].asserts
    <3>1. \A k \in 0 .. N : k # 0 => k \in 1 .. N
      BY <1>1
    <3>. QED  BY <1>4, <3>1, Zenon
  <2>2. h = [k \in 0 .. N |-> h[k]]
    BY <1>4
  <2>. QED  BY <2>1, <2>2, Zenon
<1>6. Unfolds(AssertsUpTo)
  BY <1>2, <1>5, Zenon
<1>7. \A k \in 0 .. N : AssertsUpTo[k] = IF k = 0 THEN 0 ELSE AssertsUpTo[k - 1] + Tests[k].asserts
  BY <1>6, Zenon
<1>8. 0 \in 0 .. N /\ \A k \in 1 .. N : k \in 0 .. N /\ k # 0
  BY <1>1
<1>. QED  BY <1>7, <1>8, Zenon DEF N

(* No part of a suite makes more assertions than all of it. *)
LEMMA AssertsGrow ==
    \A k \in 0 .. Len(Tests) :
        AssertsUpTo[k] \in Nat /\ AssertsUpTo[k] <= AssertsUpTo[Len(Tests)]
<1>. DEFINE N == Len(Tests)
            A == AssertsUpTo
<1>1. N \in Nat /\ A[0] = 0
  BY TestsLength, AssertsAdd
<1>2. \A k \in 1 .. N : A[k] = A[k - 1] + Tests[k].asserts /\ Tests[k].asserts \in Nat
  BY AssertsAdd, EntriesAssert
<1>. HIDE DEF N, A
<1>. DEFINE Wrong == {k \in 0 .. N : A[k] \notin Nat}
<1>3. Wrong = {}
  <2>1. SUFFICES ASSUME Wrong # {} PROVE FALSE
    OBVIOUS
  <2>2. Wrong \in SUBSET Nat
    BY <1>1
  <2>. HIDE DEF Wrong
  <2>3. PICK m \in Wrong : \A k \in Wrong : m <= k
    BY <2>1, <2>2, LeastNatural
  <2>. USE DEF Wrong
  <2>4. m \in 1 .. N /\ m - 1 \in 0 .. N /\ m - 1 \notin Wrong
    BY <1>1, <2>3
  <2>5. A[m - 1] \in Nat
    BY <2>4
  <2>6. A[m] \in Nat
    BY <1>2, <2>4, <2>5
  <2>. QED  BY <2>3, <2>6
<1>4. \A k \in 0 .. N : A[k] \in Nat
  BY <1>3
<1>. DEFINE Above == {k \in 0 .. N : A[N - k] > A[N]}
<1>5. Above = {}
  <2>1. SUFFICES ASSUME Above # {} PROVE FALSE
    OBVIOUS
  <2>2. Above \in SUBSET Nat
    BY <1>1
  <2>. HIDE DEF Above
  <2>3. PICK m \in Above : \A k \in Above : m <= k
    BY <2>1, <2>2, LeastNatural
  <2>. USE DEF Above
  <2>4. N \in 0 .. N /\ A[N] \in Nat /\ N - 0 = N
    BY <1>1, <1>4
  <2>5. m \in 1 .. N /\ m - 1 \in 0 .. N /\ m - 1 \notin Above
    <3>1. m \in 0 .. N /\ A[N - m] > A[N]
      OBVIOUS
    <3>2. m # 0
      <4>1. A[N - 0] = A[N] /\ ~(A[N] > A[N])
        BY <2>4
      <4>. QED  BY <3>1, <4>1
    <3>3. m \in 1 .. N /\ m - 1 \in 0 .. N /\ ~(m <= m - 1)
      BY <1>1, <3>1, <3>2
    <3>. HIDE DEF Above
    <3>. QED  BY <2>3, <3>3
  <2>6. N - m \in 0 .. N /\ N - (m - 1) \in 1 .. N /\ N - (m - 1) - 1 = N - m
        /\ N - (m - 1) \in 0 .. N
    BY <1>1, <2>5
  <2>7. A[N - m] \in Nat /\ A[N - (m - 1)] \in Nat /\ A[N - m] > A[N]
        /\ ~(A[N - (m - 1)] > A[N])
    BY <1>4, <2>3, <2>5, <2>6
  <2>8. /\ A[N - (m - 1)] = A[N - m] + Tests[N - (m - 1)].asserts
        /\ Tests[N - (m - 1)].asserts \in Nat
    BY <1>2, <2>6
  <2>9. \A a, t, all \in Nat : a > all => a + t > all
    OBVIOUS
  <2>10. A[N - (m - 1)] > A[N]
    BY <2>4, <2>7, <2>8, <2>9, Zenon
  <2>. QED  BY <2>7, <2>10
<1>6. ASSUME NEW k \in 0 .. N PROVE A[k] <= A[N]
  <2>1. N - k \in 0 .. N /\ N - (N - k) = k /\ N \in 0 .. N
    BY <1>1
  <2>2. ~(A[N - (N - k)] > A[N])
    BY <1>5, <2>1
  <2>. QED  BY <1>4, <2>1, <2>2
<1>. QED  BY <1>4, <1>6 DEF N, A

-----------------------------------------------------------------------------
(* The report of a complete success. *)

(* What the pipe holds after a report. *)
LEMMA WriteAdds ==
    ASSUME pipe \in Seq(Counters), NEW d \in Counters, Write(d), NEW i \in DOMAIN pipe'
    PROVE  pipe'[i] = d \/ \E j \in DOMAIN pipe : pipe'[i] = pipe[j]
<1>1. CASE pipe' = Append(pipe, d)
  <2>. DEFINE n == Len(pipe)
  <2>1. /\ n \in Nat /\ DOMAIN pipe = 1 .. n /\ DOMAIN pipe' = 1 .. n + 1
        /\ \A j \in 1 .. n : pipe'[j] = pipe[j]
        /\ pipe'[n + 1] = d
    BY <1>1, SMTT(30)
  <2>2. i \in 1 .. n \/ i = n + 1
    BY <2>1
  <2>. QED  BY <2>1, <2>2
<1>2. CASE pipe' = pipe
  BY <1>2
<1>. QED  BY <1>1, <1>2 DEF Write

(* Steps of the child: what it knows to be passed stays passed, and what   *)
(* it adds to the pipe is no false praise.                                 *)
LEMMA PraiseSuffices ==
    ASSUME PraiseIInv, Tally', AllPassed => AllPassed',
           report' = report, printed' = printed,
           \A i \in DOMAIN pipe' : \/ Praised(pipe'[i]) => AllPassed'
                                   \/ \E j \in DOMAIN pipe : pipe'[i] = pipe[j]
    PROVE  PraiseIInv'
<1>1. (Praised(report) => AllPassed) /\ PraiseIsDeserved
  BY DEF PraiseIInv
<1>2. \A j \in DOMAIN pipe : Praised(pipe[j]) => AllPassed
  BY DEF PraiseIInv
<1>3. \A i \in DOMAIN pipe' : Praised(pipe'[i]) => AllPassed'
  BY <1>2, Zenon
<1>4. (\A i \in DOMAIN pipe : Praised(pipe[i]) => AllPassed)'
  BY <1>3 DEF Praised
<1>5. (Praised(report) => AllPassed)'
  BY <1>1 DEF Praised
<1>6. PraiseIsDeserved'
  BY <1>1 DEF PraiseIsDeserved
<1>. QED  BY <1>4, <1>5, <1>6 DEF PraiseIInv

LEMMA SilentPraise ==
    ASSUME PraiseIInv, Tally', AllPassed => AllPassed', UNCHANGED <<report, printed, pipe>>
    PROVE  PraiseIInv'
  BY PraiseSuffices

(* The child's own counters are praised only when everything has passed. *)
LEMMA DataIsHonest ==
    ASSUME BluetestTypeOK, Tally, Praised(data)
    PROVE  AllPassed
<1>1. data.n_pass \in Nat /\ data.n_test \in Nat
  BY DEF BluetestTypeOK, Counters
<1>. QED  BY <1>1 DEF Tally, Praised, AllPassed, BluetestTypeOK

(* The sums around the entry the child is at. *)
LEMMA SumsAtEntry ==
    ASSUME BluetestTypeOK
    PROVE  /\ Len(Tests) \in Nat /\ entry \in Nat
           /\ AssertsUpTo[Len(Tests)] \in Nat
           /\ AssertsUpTo[entry - 1] \in Nat
           /\ AssertsUpTo[entry - 1] <= AssertsUpTo[Len(Tests)]
           /\ entry <= Len(Tests) =>
                  /\ AssertsUpTo[entry] \in Nat
                  /\ AssertsUpTo[entry] <= AssertsUpTo[Len(Tests)]
                  /\ Tests[entry].asserts \in Nat
                  /\ AssertsUpTo[entry] = AssertsUpTo[entry - 1] + Tests[entry].asserts
<1>1. /\ Len(Tests) \in Nat /\ entry \in Nat /\ entry - 1 \in 0 .. Len(Tests)
      /\ Len(Tests) \in 0 .. Len(Tests)
      /\ entry <= Len(Tests) => entry \in 1 .. Len(Tests) /\ entry \in 0 .. Len(Tests)
  BY TestsLength DEF BluetestTypeOK
<1>2. entry <= Len(Tests) =>
          /\ AssertsUpTo[entry] \in Nat
          /\ AssertsUpTo[entry] <= AssertsUpTo[Len(Tests)]
          /\ Tests[entry].asserts \in Nat
          /\ AssertsUpTo[entry] = AssertsUpTo[entry - 1] + Tests[entry].asserts
  BY <1>1, AssertsAdd, AssertsGrow, EntriesAssert, Zenon
<1>3. /\ AssertsUpTo[Len(Tests)] \in Nat /\ AssertsUpTo[entry - 1] \in Nat
      /\ AssertsUpTo[entry - 1] <= AssertsUpTo[Len(Tests)]
  BY <1>1, AssertsGrow, Zenon
<1>. QED  BY <1>1, <1>2, <1>3

LEMMA EntryReturnsPraise ==
    ASSUME BluetestIInv, PraiseIInv, EntryReturns
    PROVE  PraiseIInv'
<1>1. BluetestTypeOK /\ Tally /\ entry <= Len(Tests)
  BY DEF BluetestIInv, PraiseIInv, Trail, EntryReturns
<1>2. /\ cpc = "test" /\ cpc' = "report"
      /\ UNCHANGED <<running, entry, report, printed, pipe>>
  BY DEF EntryReturns, parent, kernel
<1>3. /\ entry \in Nat /\ data.n_test \in Nat /\ data.n_pass \in Nat /\ running \in BOOLEAN
      /\ DOMAIN data = {"n_test", "n_pass", "dyn_fail", "dyn_pass"}
  BY <1>1, TestsLength DEF BluetestTypeOK, Counters
<1>4. /\ AssertsUpTo[Len(Tests)] \in Nat /\ AssertsUpTo[entry - 1] \in Nat
      /\ AssertsUpTo[entry] \in Nat /\ Tests[entry].asserts \in Nat
      /\ AssertsUpTo[entry] <= AssertsUpTo[Len(Tests)]
      /\ AssertsUpTo[entry] = AssertsUpTo[entry - 1] + Tests[entry].asserts
  BY <1>1, SumsAtEntry
<1>5. CASE ~running /\ data' = Counted
  <2>1. data'.n_test = data.n_test + Tests[entry].asserts /\ data'.n_pass = data.n_pass
    BY <1>3, <1>5 DEF Counted
  <2>2. data.n_pass = 0 /\ data.n_test = AssertsUpTo[entry - 1]
    BY <1>1, <1>2, <1>5 DEF Tally
  <2>3. Tally'
    BY <1>2, <1>4, <1>5, <2>1, <2>2 DEF Tally
  <2>4. ~AllPassed
    BY <1>5 DEF AllPassed
  <2>. QED  BY <1>2, <2>3, <2>4, SilentPraise
<1>6. ASSUME running, NEW p \in 0 .. Tests[entry].asserts,
             NEW f \in 0 .. Tests[entry].dyns, data' = Checked(p, f)
      PROVE  PraiseIInv'
  <2>1. data'.n_test = data.n_test /\ data'.n_pass = data.n_pass + p
    BY <1>3, <1>6 DEF Checked
  <2>2. /\ data.n_test = AssertsUpTo[Len(Tests)]
        /\ data.n_pass <= AssertsUpTo[entry - 1]
    BY <1>1, <1>2, <1>6 DEF Tally
  <2>3. p \in Nat /\ p <= Tests[entry].asserts
    BY <1>4
  <2>4. /\ data'.n_pass <= AssertsUpTo[entry]
        /\ data'.n_pass <= AssertsUpTo[Len(Tests)] /\ data.n_pass <= data'.n_pass
        /\ data'.n_pass \in Nat
    <3>1. \A n, a, t, all \in Nat :
              n <= a /\ p <= t /\ a + t <= all =>
                  n + p \in Nat /\ n <= n + p /\ n + p <= a + t /\ n + p <= all
      BY <2>3
    <3>2. AssertsUpTo[entry - 1] + Tests[entry].asserts <= AssertsUpTo[Len(Tests)]
      BY <1>4, Zenon
    <3>3. /\ data.n_pass + p \in Nat /\ data.n_pass <= data.n_pass + p
          /\ data.n_pass + p <= AssertsUpTo[entry - 1] + Tests[entry].asserts
          /\ data.n_pass + p <= AssertsUpTo[Len(Tests)]
      BY <1>3, <1>4, <2>2, <2>3, <3>1, <3>2, Zenon
    <3>4. data.n_pass + p <= AssertsUpTo[entry]
      BY <1>4, <3>3, Zenon
    <3>. QED  BY <2>1, <3>3, <3>4, Zenon
  <2>5. Tally'
    BY <1>2, <1>6, <2>1, <2>2, <2>4 DEF Tally
  <2>6. AllPassed => AllPassed'
    BY <1>2, <1>3, <1>4, <1>6, <2>4 DEF AllPassed
  <2>. QED  BY <1>2, <2>5, <2>6, SilentPraise
<1>. QED  BY <1>5, <1>6 DEF EntryReturns

LEMMA ReportPraise ==
    ASSUME BluetestIInv, PraiseIInv, Report
    PROVE  PraiseIInv'
<1>1. BluetestTypeOK /\ Tally /\ Trail
  BY DEF BluetestIInv, PraiseIInv
<1>2. /\ cpc = "report" /\ cpc' = "loop" /\ Write(data) /\ entry' = entry + 1
      /\ UNCHANGED <<running, data, report, printed>>
  BY DEF Report, parent
<1>3. entry \in Nat /\ entry' - 1 = entry
  BY <1>1, <1>2, SumsAtEntry
<1>4. Tally'
  BY <1>1, <1>2, <1>3 DEF Tally
<1>5. AllPassed => AllPassed'
  BY <1>2 DEF AllPassed
<1>6. \A i \in DOMAIN pipe' : \/ Praised(pipe'[i]) => AllPassed'
                              \/ \E j \in DOMAIN pipe : pipe'[i] = pipe[j]
  BY <1>1, <1>2, <1>5, WriteAdds, DataIsHonest DEF BluetestTypeOK
<1>. QED  BY <1>2, <1>4, <1>5, <1>6, PraiseSuffices

LEMMA HandlerReportsPraise ==
    ASSUME BluetestIInv, PraiseIInv, HandlerReports
    PROVE  PraiseIInv'
<1>1. BluetestTypeOK /\ Tally /\ Trail
  BY DEF BluetestIInv, PraiseIInv
<1>2. /\ cpc = "handler" /\ cpc' = "backtrace" /\ Write(g_data) /\ g_data = data
      /\ UNCHANGED <<running, data, entry, report, printed>>
  BY <1>1 DEF HandlerReports, parent, memory, Trail
<1>3. Tally'
  BY <1>1, <1>2 DEF Tally
<1>4. AllPassed => AllPassed'
  BY <1>2 DEF AllPassed
<1>5. \A i \in DOMAIN pipe' : \/ Praised(pipe'[i]) => AllPassed'
                              \/ \E j \in DOMAIN pipe : pipe'[i] = pipe[j]
  BY <1>1, <1>2, <1>4, WriteAdds, DataIsHonest DEF BluetestTypeOK
<1>. QED  BY <1>2, <1>3, <1>4, <1>5, PraiseSuffices

(* The steps of the child that neither count nor report. *)
LEMMA QuietPraise ==
    ASSUME BluetestIInv, PraiseIInv,
           \/ Exec \/ ExecFails \/ CallEntry \/ CountingEnds \/ RunningEnds \/ ChildExits
           \/ Panic \/ HandlerEnds \/ BacktraceFails \/ Killed
    PROVE  PraiseIInv'
<1>1. BluetestTypeOK /\ Tally
  BY DEF BluetestIInv, PraiseIInv
<1>2. CASE CountingEnds
  <2>1. /\ cpc = "loop" /\ cpc' = "loop" /\ ~running /\ running' /\ entry > Len(Tests)
        /\ entry' = 1 /\ data' = data /\ UNCHANGED <<report, printed, pipe>>
    BY <1>2 DEF CountingEnds, parent, kernel
  <2>2. /\ data.n_pass = 0 /\ data.n_test = AssertsUpTo[entry - 1]
    BY <1>1, <2>1 DEF Tally
  <2>3. entry - 1 = Len(Tests) /\ entry' - 1 = 0
    BY <1>1, <2>1, TestsLength DEF BluetestTypeOK
  <2>4. AssertsUpTo[0] = 0 /\ AssertsUpTo[Len(Tests)] \in Nat
    BY <1>1, SumsAtEntry, AssertsAdd
  <2>5. Tally'
    BY <2>1, <2>2, <2>3, <2>4 DEF Tally
  <2>6. ~AllPassed
    BY <2>1 DEF AllPassed
  <2>. QED  BY <2>1, <2>5, <2>6, SilentPraise
<1>3. CASE ~CountingEnds
  <2>1. /\ UNCHANGED <<running, entry, data, report, printed, pipe>>
        /\ \/ cpc' = cpc
           \/ cpc' \in {"exit", "handler", "backtrace", "dead"}
           \/ cpc \in {"exec", "loop"} /\ cpc' \in {"loop", "test"}
    BY <1>3 DEF Exec, ExecFails, CallEntry, RunningEnds, ChildExits, Panic, HandlerEnds,
                BacktraceFails, Killed, parent, memory, kernel
  <2>2. Tally'
    BY <1>1, <2>1 DEF Tally
  <2>3. AllPassed => AllPassed'
    BY <2>1 DEF AllPassed
  <2>. QED  BY <2>1, <2>2, <2>3, SilentPraise
<1>. QED  BY <1>2, <1>3

LEMMA DrainPraise ==
    ASSUME BluetestIInv, PraiseIInv, Drain
    PROVE  PraiseIInv'
<1>1. BluetestTypeOK /\ Tally /\ PraiseIsDeserved
  BY DEF BluetestIInv, PraiseIInv
<1>2. /\ pipe # <<>> /\ report' = pipe[1] /\ pipe' = Tail(pipe)
      /\ UNCHANGED <<running, entry, data, cpc, printed>>
  BY DEF Drain, child, memory
<1>3. 1 \in DOMAIN pipe /\ \A i \in DOMAIN pipe' : i + 1 \in DOMAIN pipe /\ pipe'[i] = pipe[i + 1]
  BY <1>1, <1>2 DEF BluetestTypeOK
<1>4. \A i \in DOMAIN pipe : Praised(pipe[i]) => AllPassed
  BY DEF PraiseIInv
<1>5. Tally' /\ (AllPassed <=> AllPassed') /\ PraiseIsDeserved'
  BY <1>1, <1>2 DEF Tally, AllPassed, PraiseIsDeserved
<1>6. Praised(report)' => AllPassed'
  BY <1>2, <1>3, <1>4, <1>5 DEF Praised
<1>7. \A i \in DOMAIN pipe' : Praised(pipe[i])' => AllPassed'
  BY <1>3, <1>4, <1>5 DEF Praised
<1>. QED  BY <1>5, <1>6, <1>7 DEF PraiseIInv

LEMMA FinishPraise ==
    ASSUME PraiseIInv, Finish
    PROVE  PraiseIInv'
<1>1. /\ UNCHANGED <<running, entry, data, cpc, report, pipe>>
      /\ "all passed" \in printed' => Praised(report)
  BY DEF Finish, child, memory, kernel, PrintInfo, Praised
<1>2. Tally /\ (Praised(report) => AllPassed) /\ \A i \in DOMAIN pipe : Praised(pipe[i]) => AllPassed
  BY DEF PraiseIInv
<1>3. Tally' /\ (AllPassed <=> AllPassed')
  BY <1>1, <1>2 DEF Tally, AllPassed
<1>4. PraiseIsDeserved'
  BY <1>1, <1>2, <1>3 DEF PraiseIsDeserved
<1>5. (Praised(report) => AllPassed)' /\ (\A i \in DOMAIN pipe : Praised(pipe[i]) => AllPassed)'
  BY <1>1, <1>2, <1>3 DEF Praised
<1>. QED  BY <1>3, <1>4, <1>5 DEF PraiseIInv

(* The other steps of the parent: they read nothing and print nothing. *)
LEMMA ParentPraise ==
    ASSUME BluetestIInv, PraiseIInv,
           \/ Invalid \/ CopyFaults \/ Fork \/ SetupFails
           \/ Reap \/ ReapFails \/ DrainEnds \/ DrainFails \/ UNCHANGED vars
    PROVE  PraiseIInv'
<1>1. Phases /\ Tally
  BY DEF BluetestIInv, PraiseIInv
<1>2. /\ UNCHANGED <<running, entry, data, report, printed, pipe>>
      /\ cpc' = cpc \/ (cpc = "none" /\ cpc' = "exec")
  BY <1>1 DEF Invalid, CopyFaults, Fork, SetupFails, Reap, ReapFails, DrainEnds, DrainFails,
              vars, parent, child, memory, kernel, Phases
<1>3. Tally' /\ (AllPassed => AllPassed')
  BY <1>1, <1>2 DEF Tally, AllPassed
<1>. QED  BY <1>2, <1>3, SilentPraise

LEMMA PraiseInitIsInductive == Init => PraiseIInv
<1>. SUFFICES ASSUME Init PROVE PraiseIInv
  OBVIOUS
<1>1. /\ running = FALSE /\ entry - 1 = 0 /\ cpc = "none" /\ data = Zero /\ report = Zero
      /\ printed = {} /\ pipe = <<>> /\ Zero.n_test = 0 /\ Zero.n_pass = 0
      /\ AssertsUpTo[0] = 0
  BY AssertsAdd DEF Init, Zero
<1>2. Tally
  BY <1>1 DEF Tally
<1>3. ~Praised(report) /\ DOMAIN pipe = {} /\ PraiseIsDeserved
  BY <1>1 DEF Praised, PraiseIsDeserved
<1>. QED  BY <1>2, <1>3 DEF PraiseIInv

LEMMA PraiseStepKeeps == BluetestIInv /\ PraiseIInv /\ [Next]_vars => PraiseIInv'
<1>. SUFFICES ASSUME BluetestIInv, PraiseIInv, [Next]_vars PROVE PraiseIInv'
  OBVIOUS
<1>1. CASE Parent
  BY <1>1, ParentPraise, DrainPraise, FinishPraise DEF Parent
<1>2. CASE Child
  BY <1>2, QuietPraise, EntryReturnsPraise, ReportPraise, HandlerReportsPraise DEF Child
<1>3. CASE Killed
  BY <1>3, QuietPraise
<1>4. CASE UNCHANGED vars
  BY <1>4, ParentPraise
<1>. QED  BY <1>1, <1>2, <1>3, <1>4 DEF Next, Done

(* print_info's line "All predictable tests passed!": it is printed only   *)
(* when the child had checked every assertion of the suite and all passed, *)
(* whatever crashed, failed or was lost on the way.                        *)
THEOREM BluetestPraiseIsDeserved == Spec => []PraiseIsDeserved
<1>1. PraiseIInv => PraiseIsDeserved
  BY DEF PraiseIInv
<1>. QED  BY <1>1, PraiseInitIsInductive, PraiseStepKeeps, BluetestInvariant, PTL DEF Spec

-----------------------------------------------------------------------------
(* handle_wait and the reports of the child: whatever crashes or fails,    *)
(* when every report found room and the pipe was read dry, the parent      *)
(* prints what the child had counted when it ended.                        *)
THEOREM BluetestReportIsTruthful == Spec => []ReportIsTruthful
  BY BluetestInvariant, TruthOfTheReport, PTL

(* main's exit status: zero means that every entry ran to its end without  *)
(* a crash and without a failing dynamic assertion, unless an execve, a    *)
(* waitpid or a write failed unnoticed.                                    *)
THEOREM BluetestGreenIsEarned == Spec => []GreenIsEarned
<1>1. BluetestIInv => GreenIsEarned
  BY DEF BluetestIInv
<1>. QED  BY <1>1, BluetestInvariant, PTL

(* spawn_test's fw_argv: for every command line of at most 62 words the    *)
(* child gets each word and the number of the pipe.                        *)
THEOREM BluetestCommandArrives == Spec => []CommandArrives
<1>1. BluetestIInv => CommandArrives
  BY DEF BluetestIInv
<1>. QED  BY <1>1, BluetestInvariant, PTL

(* init_test, run_test and sig_handler: no report takes back what an       *)
(* earlier one counted.                                                    *)
THEOREM BluetestReportsOnlyGrow == Spec => ReportsOnlyGrow
<1>1. BluetestIInv /\ [Next]_vars => [\A c \in DOMAIN Zero : report'[c] >= report[c]]_vars
  <2>. SUFFICES ASSUME BluetestIInv, [Next]_vars
                PROVE  \A c \in DOMAIN Zero : report'[c] >= report[c]
    OBVIOUS
  <2>1. BluetestTypeOK /\ Growth
    BY DEF BluetestIInv
  <2>2. CASE Drain
    <3>1. NoMoreThan(report, report') /\ report' \in Counters
      BY <2>1, <2>2, DrainReads
    <3>2. \A c \in DOMAIN Zero : report[c] \in Nat /\ report'[c] \in Nat
      BY <2>1, <3>1 DEF BluetestTypeOK, Counters, Zero
    <3>. QED  BY <3>1, <3>2 DEF NoMoreThan
  <2>3. CASE report' = report
    <3>1. \A c \in DOMAIN Zero : report[c] \in Nat
      BY <2>1 DEF BluetestTypeOK, Counters, Zero
    <3>. QED  BY <2>3, <3>1
  <2>4. Drain \/ report' = report
    <3>1. CASE Parent
      BY <3>1 DEF Parent, Invalid, CopyFaults, Fork, SetupFails, Reap, ReapFails, DrainEnds,
                  DrainFails, Finish
    <3>2. CASE Child
      BY <3>2 DEF Child, Exec, ExecFails, CallEntry, EntryReturns, Report, CountingEnds,
                  RunningEnds, ChildExits, Panic, HandlerReports, HandlerEnds, BacktraceFails,
                  parent
    <3>3. CASE Killed \/ UNCHANGED vars
      BY <3>3 DEF Killed, vars, parent
    <3>. QED  BY <3>1, <3>2, <3>3 DEF Next, Done
  <2>. QED  BY <2>2, <2>3, <2>4
<1>. QED  BY <1>1, BluetestInvariant, PTL DEF Spec, ReportsOnlyGrow
=============================================================================
