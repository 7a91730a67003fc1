# A verification of bluetea

bluetea is a C library of small utilities (a queue, mutex and condition variable
wrappers, an arena allocator, a getopt, string helpers) and `bluetest`, the unit
test framework its own tests run under. This directory holds TLA+ models of it,
the TLC configurations that check them on small instances, and TLAPS proofs.

Paths below are relative to the repository; `queue.c:143` is line 143 of
`src/bluetea/lib/queue.c`.

## The system

| Part | State | Operations | What is hard | What makes it correct |
|---|---|---|---|---|
| queue (`lib/queue.c`, `queue.h`) | `bt_queue_t` (head, tail, count, max_el), nodes linked both ways, the heap | init, enqueue, dequeue, detach, destroy, create, delete, traversal macros | long sequences of calls; a node belongs to the queue or to the caller, never both; malloc fails; the debug build has assertions and a membership scan the release build lacks | both directions of the list agree, count is its length, nothing is lost, FIFO order, what left the queue can be deleted, the aborts blame the right party |
| bluetest (`bluetest/bluetest.c`, `.h`) | in the child the counters, their snapshot for the signal handler, `__will_run_test`; in the parent the last report read; a nonblocking pipe between them | fork and execve, two passes over the test entries, a report after each, signal handler, waitpid and drain, exit status | two processes, crashes in the middle, a bounded pipe, system calls that fail | the summary is what the child counted, a zero status is earned, the parent always finishes |
| mutex and cond (`include/bluetea/lib/mutex.h`) | init flag, pthread object, a leak canary | init, lock, unlock, destroy, wait, signal, timed wait | destroy twice, use before init, a timeout computed in whole seconds | a caller's mistake and nothing else stops the process, the canaries balance, a timed wait is less than a second early |
| thread tests (`tests/004_mutex`) | a shared number, a start flag | two threads that lock, increment, wait, signal, join | increments that overlap, signals sent without the mutex, spurious wake-ups, destroying too early | no update lost, no signal missed, both threads finish |
| arena (`lib/arena.c`) | buffer, size, used | init, alloc, strdup, strndup | rounding, the last bytes of the buffer, a buffer replaced while blocks are in use | blocks are aligned, inside the buffer and disjoint; ENOMEM only when there is no room |
| getopt (`lib/getopt.c`) | cursor over argv, `retval` | one word, sometimes two, per call | values that look like options, names that begin other names, the last word | every word is answered once, with the answer its option asks for |
| strings (`lib/string/*.c`) | the caller's buffers | trims in place and with a move, htmlspecialchars | all-blank strings, lengths that are not the string's, an escape that meets the end of the output | the text between its first and last solid character, the longest escaped prefix that fits |
| base.h, vt_hexdump.h | none | attributes, printing | nothing a model shows | not modelled |
| older que, tstack (`old/.../lib/que.h`, `tstack.h`) | a linked list; an array that fills downwards | init, enqueue, dequeue, destroy; init, push, pop, destroy | assertions on both ends; UINT32_MAX against -1 | the same bounded FIFO; last in, first out |
| older print.c | two mutexes, the static storage of localtime | three levels of message, each line in three pieces | try-then-sleep locks, one inside the other | lines whole and in order, every printer finishes |
| older teatest | counters, a blocking pipe | as bluetest | a parent that reads only after it waited, reports that are lost | verdict, summary, an end if the pipe is large enough |
| older string.c | the caller's buffers | trims, a cut, quoting for a shell and for a URL | quotes inside quotes, characters with a meaning | what is quoted reads back as it was |

The parts interact little: the library's tests run inside bluetest's child, an
`abort()` of the queue reaches bluetest's signal handler as SIGABRT, valgrind
turns a leaked node or canary into the child's exit status 99, and the thread
tests are clients of the wrappers (here by EXTENDS: `BasicMutex`, `BasicCond` and
`SyncClient` are three compositions of `BtSync` with a caller).

## Modules

| Module | Models |
|---|---|
| `BoundedFifo` | what the queue promises: a bounded sequence of values, no pointers |
| `BtQueue` (`MCBtQueue`, `BtQueueProofs`) | `queue.c` and `queue.h`, one action per call; implements `BoundedFifo` |
| `Bluetest` (`MCBluetest`, `BluetestProofs`) | `bluetest.c`: command line, parent, child, signal handler and pipe |
| `BtSync` | `mutex.h`: the wrappers as operators over one mutex and one condition variable |
| `SyncClient` (`MCSyncClient`, `SyncClientProofs`) | any callers of the wrappers, those that use or destroy dead objects included, and a clock |
| `BasicMutex` (`MCBasicMutex`, `BasicMutexProofs`) | the protocol of `basic_mutex` in `tests/004_mutex` |
| `BasicCond` (`MCBasicCond`, `BasicCondProofs`) | the protocol of `basic_cond` in `tests/004_mutex` |
| `Arena` (`LibProofs`) | `arena.c` |
| `Getopt` (`LibProofs`) | `getopt.c` |
| `Strings` (`StringProofs`) | `strtrim.c` and `htmlspecialchars.c`, loop by loop |
| `Que` (`OldTreeProofs`) | the older `que.h`; implements `BoundedFifo` |
| `TStack`, `PrintLock` (`OldTreeProofs`) | the older `tstack.h` and `print.c` |
| `Teatest` (`OldTreeProofs`) | the older test framework |
| `OldString` (`MCOldString`, `StringProofs`) | the older `string.c`: trims, cut and quoting |
| `Parts` (`MCParts`) | the eight parts from `Arena` to `OldString` side by side: a behaviour moves one of them, chosen at the start |

Definitions whose comment starts with "Variant:" are not part of a model. Each
is a plausible slip in the definition after it, kept to show that a property
would notice: with the variant in its place, TLC finds that property violated.

### BtQueue

`head`, `tail`, `count`, `max_el` are the fields of `bt_queue_t`; `next`, `prev`
and `data` those of the node at each address. `live` are the addresses malloc gave
out and `owned` those of them the caller holds outside the queue; the fields of a
free address, and of one nobody has written, are `Garbage`. `res` is what the last
call returned, with errno. `crash` is `"none"` until a check of the code stops the
process or the code dereferences something that is not a live node (`"wild"`);
then nothing moves any more.

Every call is one action, with the branches of the C code as its disjuncts. What
a call may run into is an operator of its own (`EnqueueFault`, `DequeueFault`,
`DetachFault`, `DestroyFault`): the call aborts with that fault or has its effect.
`NDEBUG` chooses the build: with FALSE the assertions and the scan of
`bt_qnode_detach` (queue.c:192-222) are there. A walk over the list is the least
set closed under the link (`Reach`), which is what the two loops visit.

The caller keeps the contract of the header: it deletes only nodes it holds,
detaches only queued nodes, initialises only an empty queue. `Extra` adds callers
that do not: `"create"` (nodes straight from `bt_qnode_create`),
`"detach_foreign"` (detaching any live node), `"delete_queued"`. A created node has
uninitialised links, which `bt_qnode_delete` reads: both outcomes are possible for
it (`Delete` and `DeleteRefused`). No run uses `"delete_queued"`: the guard of
`bt_qnode_delete` looks at the links alone, so it lets the only node of a queue
go and head and tail dangle. The header forbids that call, and every theorem
about the queue names it as its condition. The length of the payload, and with it the
layout of an allocation, is left out.

### Bluetest

The parent goes from `start` (pipe, fcntl, fork) to `wait` (waitpid), `drain`
(the poll/read loop), `print` and `done`; the child from `exec` through the loops
of `init_test` and `run_test` (`loop`, `test`, `report`) to `exit`, or from `test`
through the signal handler (`handler`, `backtrace`), to `dead`. A call of an entry
is one action: in the counting pass it adds its assertions to `n_test`, in the
running pass any number of them pass. The counters an entry was updating when it
crashed are never reported, so they need no finer step. A write to a full pipe is
dropped, as with O_NONBLOCK. `wstatus` is the status or the signal the child ended
with; signal 9, as the handler's own `kill(my_pid, sig)` stays blocked while it
runs and `kill(my_pid, SIGKILL)` ends it. `Faults` names the system calls that may
fail and `failures` remembers which did; it changes nothing. waitpid's "stopped"
status, which needs WUNTRACED, is left out.

`argc` is the parent's word count. `Fork` copies the command into the fixed array
`fw_argv` the way `spawn_test` does: the count is taken modulo 64 (`FwArgc`),
so up to 62 words arrive whole (`CommandArrives`). The comment above it allows 63
(`AllowedArgcArrives`, which the code does not keep): for 63 the terminating NULL
falls one place behind the array. What is there depends on the build, padding or
the text of the pipe's number, and `Fork` takes both. For 64 the length
computation wraps and the copy faults, for more the command loses words; these
outcomes are `CopyFaults` and the wrong `command` of the model. `printed` is which
parts of the summary the parent prints. `PraiseIsDeserved` is about the line "All
predictable tests passed!", which compares what passed with what was counted.

`GreenIsEarned` names the three failures that can leave a zero status unearned
(execve, waitpid, a dropped report), and `Earned` does not ask the predictable
assertions to pass: `exit_code` does not depend on them (bluetest.c:344).

### BtSync and its callers

`lock` and `cond` are `struct bt_mutex` and `struct bt_cond`: the `init` flag, the
canary `__test_leak` (null, live or freed), and for the mutex its owner, which is
pthread's. `wait` says for each thread whether it is inside `pthread_cond_wait`,
and whether it is still asleep or only waits for the mutex. An operation on an
object whose flag is clear ends in `fault`: an assertion with `NDEBUG` FALSE, a
dead object given to pthread otherwise. `bt_mutex_destroy` returns early when the
flag is clear; `bt_cond_destroy` frees the canary regardless. That pthread's init,
lock and wait calls fail is left out: with default attributes, and a caller that
owns what it should, glibc reports no error from them.

`SyncClient` composes them with callers and a clock in ticks, `Second` of them to
a second. The callers use and destroy either object whenever they like, before it
was initialised and after it was destroyed, and destroy a mutex under its owner.
Three of pthread's rules they keep: an initialised object is not initialised
again, no object is destroyed under a thread that waits, and who unlocks or waits
owns the mutex; what pthread does with a caller that breaks these is not in this
code. `life` and `misuse` are history variables, written from the calls alone and
never from the flags or the canaries, so that `FaultsBlameTheCaller` relates two
things the code could let drift apart. It says that the process stops exactly for
a use of an object that is not alive (an unlock after the owner's mutex was
destroyed, the EBUSY case of mutex.h:86, included) or for a second
`bt_cond_destroy` (mutex.h:109-111), and that an allocated canary is that of a
living object. Calls on a misused object are part of the model, so its behaviours
do stop, and the run does not check for deadlock.
`bt_cond_timedwait_rel` puts only the seconds of `gettimeofday` into the deadline,
so a wait may be early; `asked` is when the caller wanted it to end.

`BasicMutex` and `BasicCond` follow the C functions of `tests/004_mutex`
statement by statement where it matters: an increment is a load and a store, the
signal comes after the unlock, and the wait sits in a loop. `TQ_ASSERT` records a
failure in `failed` and the function goes on, as the macro does; so a failing
`pthread_create` leaves the main thread spinning (`CreateFails`). The spin loop on
the plain `bool start` is modelled with a fresh load each time round: nothing in
the language promises it (the `asm volatile` of its body names no memory), but
gcc compiles it so from `-O0` to `-O3`.

### Arena

`buf`, `size` and `used` are the three static variables. `blocks` are the
allocations made from the current buffer and `kept` those of former buffers, each
with the length that is written to it; they are there for the properties.
`ar_init` gives up the blocks in the bytes it hands over. `RoundUp` is computed
modulo `Word`, the width of `size_t`, and so would wrap for a length in the last
15 values of the type; `ArenaAssumption` says that callers pass the length of
something that exists. The copying of strings is left out.

### Getopt

A word of argv is what the code can tell of it: its kind (no dash, a single dash,
short, long), the option it names and whether a value is attached to it. `retval`
is a pointer into argv, to a whole word or to the attached value. `fault` is set
where the code dereferences the NULL behind the last word. `calls` lists the
answers. `Prefix` is what `strncmp` over the option's length sees: the option
"req" begins the word "require", and only the check of the character behind it
tells them apart. `BT_GETOPT_WANT_NO_VAL` is never returned by the code; a value
attached to an option without one is dropped, and the model does the same.
`BT_GETOPT_EINVAL` leaves `retval` as it was. `GetoptAssumption` says what callers
give: option letters and `val` are unsigned chars while the code's own answers are
negative, and no letter is in `short_opt` twice.

An option that may take a value and is the last word of argv, without a value of
its own, makes the code dereference `argv[argc]`, the NULL (getopt.c:84, 147).
`FaultIsAtTheEnd` says this happens for that argv and for no other: a scan
either faults at that word or answers all of argv.

### Strings

A buffer is a function from its indices to characters; a character is one of the
classes the code tells apart. A call runs from its entry to its return, one step
per turn of a loop: `TrimLead`, `TrimTail`, `Moved` for the two trims (strtrim is
strtriml with the length of the C string), `HtmlPut` for one input character of
the two htmlspecialchars. `pc = "below"` is a read in front of the buffer:
`TrimStaysInside` says when it comes, which is exactly when only blanks stand
before `len` and the byte at `len` is neither blank nor NUL. htmlspecialchars
writes nothing for an empty input, not even a terminator; the property says so.

### Parts

`Arena`, `Getopt`, `Strings` and the five modules of the older tree share no
state and call nobody, so `Parts` runs them in one state space: `part` is chosen
in the initial state, the other parts stay where they were initialised (`GoIdle`,
`StrIdle`, `OsIdle`), and every step is a step of one part. Since no step of one
part touches a variable of another, what holds of a part in `Parts` holds of it by
itself; the proofs are about each part's own specification.

### The older tree

`Que` is the list the queue grew out of: its dequeue does clear both ends, so the
assertions that stop the newer debug build never fire here. `TStack` keeps beside
the array what the answers alone tell a caller (`tss_model`, `tss_due`); push and
pop return an int64 so that UINT32_MAX is not -1. In `PrintLock` the mutexes are
taken by trying `TryNum` times and then sleeping; the time is read inside the
inner one, which protects the static storage of localtime and asctime.

`Teatest` differs from `Bluetest` where it matters: the pipe blocks and the parent
reads only after `wait`, so a child with more reports than the pipe holds and its
parent wait for each other (`TeatestFinishes` asks for a pipe that holds all); the
handler reports the counters in the middle of an entry; a killed child and a
failing `wait` are never green. A write that fails is logged, the child goes on and
the report is lost (`TtWriteFails`); `lost` remembers whether the last one was,
which is the one loss that makes the summary stale (`TeatestReportIsTruthful`). The
parent looks at the wrong variable after it has set its read end non-blocking
(teatest.c:374-376), so a failing fcntl goes unnoticed; it does no harm, because
poll goes before every read. The argument array is a variable-length one of an
8-bit count.

`OldString` runs like `Strings`. `trim_len_cpy` terminates the text only if it
moved it, so blanks that are only behind the text stay; its header (string.h:31)
calls it the same as `trim_len`, which does cut them off. `OldCutsAreExact` says
exactly what each leaves behind, `SameAsTrimLen` is the header's claim, which the
code does not keep. `escapeshellarg` allocates four bytes a character and one for
the NUL as the "Worst case" (string.c:30) and writes two quotes more: a string of
nothing but quotes, the empty one among them, does not fit. `QuotesDecode` says that
the output reads back and fits exactly if the string has another character;
`WorstCaseFits` is the comment's claim, which the code does not keep. The overrun of
at most two bytes does not stop the model: glibc rounds 4 * l + 1 up to at least
4 * l + 3 usable bytes for every l. What a shell and a server make of the quoted
string are the readers `ShellReads` and `UrlReads`.

## Runs

| Run | Expect | What it shows |
|---|---|---|
| `queue_release` | pass | release build, contract kept: well-formed list, everything the caller holds is deletable, no abort and no invalid access, refinement of `BoundedFifo` |
| `queue_guards` | pass | debug build, foreign detaches and created nodes: the scan accepts exactly the queued nodes, no internal check ever fires |
| `queue_assert` | violation | enqueue, dequeue, enqueue aborts the debug build on `assert(q->tail == NULL)` (queue.c:112): dequeue never writes tail |
| `bluetest` | pass | command lines around the limit, crashes, kills, valgrind errors, all failing system calls, large and small pipes: a truthful summary, an earned zero status and an earned "all passed", reports that only grow, a parent that finishes |
| `bluetest_exec` | violation | a failing execve is a green run |
| `bluetest_argc` | violation | with 63 arguments, which the comment at bluetest.c:361 allows, the NULL falls behind `fw_argv` |
| `sync_client` | pass | two callers in any order, with dead objects and second destroys: the process stops exactly for a caller's mistake, a canary is left exactly of an object left alive, a timed wait is less than a second early |
| `basic_mutex` | pass | no increment is lost, the mutex is destroyed last, the test ends |
| `basic_cond` | pass | exact turns, no missed signal with spurious wake-ups, nothing left behind, the test ends |
| `parts` | pass | arena: aligned, contained, disjoint blocks, ENOMEM only when nothing fits; getopt: each word answered once or taken as a value, with the right answer, a fault only for a last option that lacks its value; strings: the trims and the escapes against their reference definitions; the older queue, stack, print lock, test framework and string functions |
| `old_trim` | violation | `trim_len_cpy` is not "Same as trim_len" (string.h:31): "a " keeps its blank |
| `old_quote` | violation | the "Worst case" of string.c:30 is too small by two bytes for a string of quotes and for the empty one |

The five violation runs are findings about the code; PROJECT.json quotes the lines
they contradict. Other defects met on the way contradict no line of the repository
and are exceptions stated in the properties: the last option of getopt, the trims'
all-blank prefix, the blocking pipe, the waitpid whose result nobody looks at.

Bounds:

- Queue: four addresses, two payloads, capacities 1 and 3. A list of three has a
  first, a middle and a last node; the fourth address lets the caller hold a node
  beside a full queue and lets a freed address come back while a stale pointer to
  it exists. Capacity 0 is reached through destroy. The addresses are
  interchangeable (`SYMMETRY`; there is no liveness in these runs). The violation
  run needs two addresses. These runs do not check for deadlock: a process that
  called abort() stops.
- Bluetest: command lines of 1, 2, 62, 63, 64 and 258 words, on both sides of
  every limit of the copy; two entries, one with a predictable and a dynamic
  assertion, one with two predictable ones, so there is a crash in the first and in
  a later entry, in either pass, and both kinds of failure. Five places in the pipe
  are just enough for all reports (two per entry, one from the handler); three are
  not. The violation runs have a pipe that takes all, and the argument counts 62 and
  63, or a failing execve.
- Wrappers: two callers; a second of three ticks, a clock that stops after seven,
  waits of zero and one second, so that a wait starts at every phase of a second
  and ends after the next two. `MaxTime` bounds the clock. The two callers are
  interchangeable (`SYMMETRY`; no liveness here). No deadlock check, as a misused
  object stops the process.
- Thread tests: `Batch` 2 and `Rounds` 2 (the code: 10000 and 10000), `M` 2 (1000000),
  at most two spurious wake-ups (`MaxSpurious`): an increment can be split, a
  thread can come back to the mutex, and both waits can be interrupted. The proofs
  hold for all of these numbers.
- Arena: `Word` 128, two buffers that overlap and three that are refused, lengths
  0, 16, 17 and the largest allowed, 112; strings of 0 and 16 bytes, with which the
  terminating zero does and does not need a new multiple of 16.
- Getopt: argv of at most three words of 18 kinds: an option before another, the
  option's value, and what follows.
- Strings: buffers of up to five bytes over two letters, the blank and the NUL for
  the trims, up to three over the escaped characters for htmlspecialchars, with
  every length and output sizes on both sides of one and two escapes.
- Older tree: a queue of three nodes and capacities 1 and 2; stacks of 0, 1 and 3
  and values up to 7, whose largest stands for UINT32_MAX; two printers of two
  lines, one try and one tick of the clock; a suite of two entries, pipes of one
  and of all four reports, command lines around 256 words; strings of up to four
  characters to cut and three of seven to quote, in `old_trim` and `old_quote` too.
- `parts`, `old_trim` and `old_quote` do not check for deadlock: a call that has
  returned, a scan of argv that is over and a printer that is done do nothing more.

Fairness. `Bluetest!Finishes` assumes `WF_vars(Parent)` and `WF_vars(Child)`: the
kernel schedules both processes, every entry ends, and the signal handler ends.
The last is not certain in the code: `sig_handler` calls printf and, through
backtrace, malloc, and hangs if the signal came from inside one of them.
`BasicMutex!Finishes` and `BasicCond!Finishes` assume `WF_vars(Main)` and
`WF_vars(Worker)`: both threads get a processor. Weak fairness is enough for the
mutex, since each thread takes it a bounded number of times and the other then
leaves it free. Nothing forces a spurious wake-up. Both say "once the worker
exists", because a failing `pthread_create` makes the main thread spin for ever.
`PrintFinishes` assumes weak fairness of each thread's steps: a mutex is handed to
a bounded number of others first, as each prints a bounded number of lines.
`TeatestFinishes` assumes it of the parent and, as `TtRuns`, of the child except for
a write that fails: the kernel need not fail a write that waits for room, and a
fairness that forced it to would hide the deadlock of the small pipe.

## Proofs

All theorems are about every value of the constants their assumptions allow.

**Queue** (`BtQueueProofs`, from `ConstantsAssumption`), for every finite set of
addresses, every set of payloads and capacities, and both values of `NDEBUG`:

- `TypeCorrect`, `QueueIsWellLinked`: `TypeOK` and `WellLinked` always hold as long
  as no queued node is deleted (`"delete_queued" \notin Extra`;
  after such a call the list dangles).
- `ContractIsSafe`, `CallerNodesMayGo`: in the release build, with the contract
  kept, no abort and no invalid access, and every node the caller holds has
  cleared links.
- `GuardsBlameTheCaller`, `DetachScanIsExact`: in the debug build only the checks
  on the caller fire, and the one on the stale tail; the scan is exact.
- `QueueImplementsFifo`: in both builds every call is a step of `BoundedFifo` on
  the payloads in list order, or shows nothing.

The inductive invariant is `IInv == TypeOK /\ WellLinked`: `WellLinked` says there
is an enumeration `s` of the queued addresses, without repetition, in which next
leads forward and prev back. Each call is shown to turn `s` into the enumeration
of its result: enqueue appends, dequeue shifts, detach removes position k
(`DetachBridges` reduces the four branches of the code to one effect first).
`TypeOK` alone is not inductive, since a count of zero must exclude a detach.
`WellLinked` says nothing of `tail` in an empty queue, because the code leaves it
stale there; that is why the debug build can still stop in enqueue. What a walk
visits is related to `s` by `ReachIsQueued` and `ReachIsWhole`; the second is an
induction along the list, done by a least counterexample since induction theorems
over operators are out of the prover's reach. For the refinement, `OrderIsUnique`
shows that there is only one such `s`, again by a least counterexample, so that
the `CHOOSE` of the mapping is it (`ItemsAreOrdered`); `EnqueueOrder`,
`DequeueOrder` and `DetachOrder`, on which the invariance proofs rest too, give the
`s` of the next state, and with it Append, Tail and `Without`.

**Thread tests** (`BasicMutexProofs`, `BasicCondProofs`, from `SyncAssumption` and
the module's own assumption): `MutexLosesNoUpdate`, `MutexIsDestroyedLast`,
`CondTurnsAreExact`, `CondMissesNoSignal`, `CondLeavesNothing`, for any number of
rounds, increments and spurious wake-ups. The properties say nothing of what a
thread has loaded but not yet stored, nor who owns the mutex; `IInv` adds that a
thread owns it exactly in its critical section and that its register is current
there (`Exclusion`), where the loop variables stand at each stage (`Progress`,
`MainProgress`, `WorkerProgress`), and when the objects exist (`Lifetime`). In
`BasicCond` the two progress parts tie the turns together: the main thread adds
only when the worker's count is exactly `M`, the worker goes beyond `M` only after
the main thread's turn. There is one lemma per action.

**Arena** (`LibProofs`, from `ArenaAssumption`): `ArenaBlocksAreApart`,
`ArenaRefusesOnlyWhenFull`, for any width of `size_t`, any buffers and lengths.
`ArIInv` adds `Packed` (buffer, size and used are multiples of 16, the blocks lie
below `used`, and every 16 bytes below it hold a byte of some block, which is what
makes a refusal truthful) and `FormerOutside` (surviving blocks of former buffers
are not in this one). `Rounding` and `Multiples` carry the arithmetic.

**Wrappers** (`SyncClientProofs`, from `SyncAssumption` and `ClientAssumption`):
`FaultsHaveACaller` and `TimedWaitsAreLong`, for any number of callers, any length of
a second and any waits, in both builds. `FaultsBlameTheCaller` speaks of canaries
and of the history but not of the flags on which the code decides; `ClientIInv`
adds that the flags say what the history says (`FlagsFollow`), and that a sleeper's
deadline is less than a second before the time it asked for (`DeadlinesAreClose`,
from `WholeSeconds`).

**Bluetest** (`BluetestProofs`, from the module's `ConstantsAssumption`):
`BluetestReportIsTruthful`, `BluetestGreenIsEarned`, `BluetestPraiseIsDeserved`,
`BluetestCommandArrives`, `BluetestReportsOnlyGrow`, for any suite,
command line, pipe and set of failing calls. The invariant says that the parent reads only a dead child's pipe
(`Phases`), what it makes of the status (`Statuses`), where the last report stands
against the counters and their snapshot at each place of the child (`Trail`), and
that reports are ordered among themselves and behind the counters (`Growth`).
`PraiseIInv` is a second invariant on top of it: the counters are the sums over the
entries that have returned, exact in the first pass and an upper bound in the
second (`Tally`), so a report in the pipe or in the parent whose two numbers agree
was written when everything had passed, and stays true. `AssertsUpTo` is a
recursive function: `SumsExist` and `AssertsAdd` show that it satisfies its own
equation, `AssertsGrow` that no part exceeds the whole.

**Strings** (`StringProofs`, from `StringsAssumption`): `TrimsAreExact`,
`TrimsStayInside`, `HtmlWritesLongestPrefix`, for any set of buffers (each a
nonempty finite array), of lengths and of output sizes. `StringsIInv` adds that what
either scan of a trim has passed is blank and nothing is written before the move
(`TrimScans`), and that htmlspecialchars has written the escaped form of the input
it has consumed and nothing behind it (`HtmlCopies`).

**Older strings** (`StringProofs`, from `OldStringAssumption`): `OldCutsLeaveTheText`
and `QuotesReadBack`, for any set of C strings. `OsIInv` adds the scans of the
trims (`OsScans`) and, for the quoting functions, that the reader applied to the
output so far is outside or inside the quotes as the writer believes and holds the
input consumed so far (`OsReads`), and how long the output is (`OsSizes`): behind the
opening quote exactly four bytes a character while all were quotes, at least three
fewer once one was not. So every character is read back whatever follows it, which is what a
bounded run cannot say.

**Getopt** (`LibProofs`, from `GetoptAssumption`): `GetoptAnswersEachWordOnce`,
`GetoptAnswersAreRight`, `GetoptFaultIsAtTheEnd`, for any argv and tables. The
invariant adds `AtAWord`: the scan never stands at a value, and a dangling last
option is never jumped over. That the first matching table entry is the one the
meaning speaks of is a least-element argument.

**Older queue** (`OldTreeProofs`, from `QueAssumption`): `OldQueueImplementsFifo`,
for any finite set of addresses and any payloads and capacities: each call is a
step of `BoundedFifo` on the payloads in list order, or shows nothing. `QueIInv`
is `QueTypeOK`, which says that no assertion has fired and that dequeued nodes are
live, and `QueLinked`, an enumeration of the listed nodes from head to tail along
next. The invariant is silent about prev: the code leaves it stale in the new head
and never reads it. `QueOrder`, the walk in the mapping, is shown to be that
enumeration.

**Rest of the older tree** (`OldTreeProofs`): `StackAnswersAreLifo` from `TStackAssumption`,
`PrintLinesAreWhole` and `PrintStampsAreInOrder` from `PrintAssumption`, for any
number of threads, lines and tries. `PrintIInv` says that whoever is inside owns
the mutex (`PrintExclusion`), how much of the last line is written and by whom
(`LastLine`), and that no stamp is ahead of the clock or of the stamp in the
static storage while it is used (`NoLaterStamp`). `TeatestEarnsItsGreen` and
`TeatestTellsTheTruth` from `TeatestAssumption`, for any suite that has an entry
(without one nothing is reported and the summary shows an uninitialised buffer).
`TtIInv` adds what the counters are worth in each pass (`Tallied`: the first pass
counts all assertions, and in the second none is missing while no entry failed),
that the last report, unless it was lost, is the one in the buffer or at the end of
the pipe and current once the child has nothing to add (`ReportsFollow`), and that the parent reads only
after the child's regular end (`ParentFollows`). How many assertions the entries
make is a sum over the suite; the invariant says that the first pass has built it,
so no induction over the suite is needed.

Recursive functions. Induction theorems over operators are out of the prover's
reach, and a recursive function is by definition only a `CHOOSE`. Where a proof
needs one (`AssertsUpTo`, `Escaped`, `ReadUpTo`, `QueOrder`), it first shows that a
function with that equation exists, so the chosen one satisfies it, and then argues
by a least counterexample (`LeastNatural`, from the library's `WFMin`). This gives
what the function is at each step of the system, which the invariants then carry;
no theorem says what it computes in closed form.

Only model-checked: the liveness properties `Finishes` (of `Bluetest`, `BasicMutex`
and `BasicCond`), `PrintFinishes` and `TeatestFinishes`, which are out of the
prover's reach. Every safety property of a passing run has a theorem.

## Not modelled

- The byte layout of a queue node (`queue.c:22-46`): a node is one address. With a
  length near SIZE_MAX the size of the allocation would wrap; no object is that long.
- base.h, vt_hexdump.h and the layout of what bluetest and teatest print: no state.
- The other unit tests call one function after another and make no claim beyond
  the models' properties.
- Of the older tree: its arena.c and getopt.c are the same text as the modelled
  ones but for comments and an attribute; htmlspecialchars of string.c, which the
  current tree replaced; print_test and filename_resolve of teatest.c, which only
  print; teatest.old.c, which nothing builds.

## Plan

1. (done) `BoundedFifo`, `BtQueue` and its proofs, the refinement included.
2. (done) `Bluetest` with the command line and the summary, and its proofs.
3. (done) `BtSync`, `SyncClient`, `BasicMutex`, `BasicCond` and their proofs.
4. (done) `Arena`, `Getopt` and `Strings` with proofs.
5. (done) The older tree with proofs: queue, stack, print lock, test framework,
   string functions.
6. (done) Theorems for every safety property of the passing runs.
7. Left: theorems about steps (a queue call leaves the other nodes' payloads alone,
   a block of the arena never moves), if a run is given such a property; the byte
   layout of `bt_qnode_create`.
