# A verification development for CSCI3757_OperatingSystems

The repository holds the programs of an operating-systems course. This directory
models the ones with state in TLA+, checks the models with TLC on small instances
and proves the main results with TLAPS for every value of the constants.

## 1. Inventory

| Part | Code | State it keeps | Operations | How it interacts |
|---|---|---|---|---|
| multi-lookup | `PA-Three/PA3/multi-lookup.c`, `.h`, `util.c` | file list with `serviced` marks, a stack of names (`buffer`, `currentPosition`), `threadsFinished`, four mutexes, two condition variables, two logs, a stdio stream per thread and log | `requesterThreads`, `resolverThreads`, `main` | requesters and resolvers share the stack under `buffer_lock`; main joins both |
| paging simulator | `PA4/PA4/simulator.c`, `.h`, `programs.c` | per processor: process, program counter, pages, branching engines; frames left; the queue of programs | `allinit`, `allstep`, `allage`, `callyou`, `pagein`, `pageout` | calls the pager once per tick, which calls `pagein` and `pageout` back |
| pagers | `PA4/PA4/pager-basic.c`, `pager-lru.c`, `pager-predict.c`, `api-test.c` | statics kept between ticks | `pageit` | linked with the simulator, one at a time |
| character driver | `PA-Two/submission/charModule.c` | one kernel buffer, `openCount`, a position per open file | open, read, write, seek, close, init, exit | called by the kernel for any number of user programs at once |
| driver test program | `PA-Two/submission/testProgram.c` (`testApp.c` is the same text) | the open file, a buffer per call | a menu of read, write, seek, end | calls the driver |
| add system call | `PA-One/.../cs3753_add.c` | none | one system call | called by `testprogram-two.c` |
| exercises | `PA-Three/Threads-and-Processes`, `PA-One/question_*` | small demonstrations of threads, processes and pointers | | alone |
| kernel tables | `PA-One/.../syscalls.h`, `syscall_64.tbl`, `Makefile` | the kernel's own files with one entry added | | |
| reports | `PA4/PA4/see.R`, notes | plots of the simulator's csv output | | |

What is hard, and what makes each part correct:

- **multi-lookup**: lost and stale wakeups, a count kept under another lock than
  the sleepers', undefined behaviour after an underflow, several buffered streams on
  one file. Correct when each file is read once, each name written once with its own
  answer, and every thread ends.
- **simulator**: frames are taken at the start of a pagein and given back a hundred
  ticks later or at the end of a program, at any point of a page's way. Correct
  when frames are conserved, and every program is run once and to its end.
- **pagers**: several processes compete for frames, and a failed call has three
  causes it does not tell apart. Correct when they send out only what no process is
  about to use, and every program comes to its end.
- **driver**: no lock, byte-wise copies, opening before there is a buffer, removal
  while in use, a signed length compared with an unsigned one, positions given by the
  caller (`pread`, `pwrite`). Correct when copies stay inside the buffer, the buffer
  outlives its users, and a user whose copies no other's overlap reads what was written.
- **test program**: a buffer allocated before its input is checked.

`PROJECT.json` lists each hazard at its line with the properties that cover it.

## 2. Modules

| Module | Is |
|---|---|
| `NameDelivery` | what multi-lookup promises, without threads |
| `MultiLookup` | the threads of multi-lookup; implements `NameDelivery!Safe` |
| `ResultsLog` | the results file and its streams, over the names of `NameDelivery` |
| `Simulator` | the paging simulator under any pager and any branching engines |
| `Branching` | what a branching engine decides, with a count drawn when it is needed |
| `BranchEngine` | the rings of run lengths of the code, mapped to `Branching` |
| `PagerBasic`, `PagerLru`, `PagerPredict`, `ApiTest` | the simulator with one pager each |
| `LinkedSimulator` | the executables `test-basic`, `test-lru`, `test-api`: simulator, rings and a pager; implements `Simulator!Spec` with `Branching` |
| `DeviceFile` | what the comments of the driver promise its users |
| `CharDriver` | the driver under any users; implements `DeviceFile!Spec` but for named exceptions (`KeepsPromise`) |
| `TestProgram` | the driver under `testProgram.c` |
| `MC*` | instances: argument lists, programs, symmetry |
| `MultiLookupProofs`, `DeliveryProofs` | theorems about `MultiLookup`: its locks, counts and wakeups, and what it delivers |
| `ResultsLogProofs`, `SimulatorProofs`, `PagerPredictProofs` | theorems about the module they are named for |
| `LinkedProofs` | theorems about `PagerBasic` and `LinkedSimulator`: its pagers and its rings |
| `DriverProofs` | theorems about `CharDriver` and `TestProgram` |
| `Induction` | induction and recursion over numbers, sequences and finite sets, stated about sets |

## 3. multi-lookup

### Model
`MultiLookup.tla` has one action per critical section, or per part of one
between two accesses that another thread can observe. `pc` says where each
thread is; the four locks are variables holding their owner; a thread asleep on
a condition variable is at `waitFull` or `waitEmpty`, and `Signalled` moves at
most one sleeper to its woken label, from which it must get the lock again.
Counting in `threadsFinished` (`Finish`) and the broadcast (`Broadcast`) are
steps of their own because they are not under `buffer_lock`.

Names are pairs of a file and a line. A file argument is reduced to whether
`isValidFile` accepts it, whether `fopen(..,"r+")` accepts it too, and how many
lines it holds. Undefined behaviour is modelled by what the x86-64 layout of
`sharedBuffer` gives: `buffer[-1]` is `currentPosition`, so the pointer read
there is `Wild` and faults in `dnslookup`; the words below it are zero, read as
NULL, which `dnslookup` reports as unknown; a store over the index or the mutex
ends the process (at once in the model; the code may go on for a while with the index it
has overwritten, which the mapping below counts as failed all the same). An
uninitialised stream either faults or reads as ended.

`Delivery` in `MultiLookup` is the refinement mapping to `NameDelivery`. A
process that is killed, or whose index is below the buffer, maps to `failed`,
after which only "what was written stays written" is promised. `UnderflowIsFatal`
says that this is no escape: such a process never returns.

`ResultsLog.tla` takes up what happens to a name that `NameDelivery` writes: one of
the resolvers looks it up and prints a line into its own stream on the results file.
`clearLogs` empties the file before the arguments are looked at, so that a refused
command line leaves an empty file (`CheckArguments`). A line is two pieces, the name and
the answer. `Fprintf` puts them into the stream and may write any part of what waits
there, `Flush` is what `exit` does to a stream, and `Killed` loses all of them. A kill is
possible at any time, also in the `free` of the two stack arrays; this covers a process
whose index fell below the buffer, which `NameDelivery` counts as failed at once. The
lock around the printing does not keep the lines of two resolvers apart, although
`multi-lookup.h` line 63 says "Lock that resolver threads need to be able to write to
resolver.txt safely": a stream is written where it happens to be full. So the
properties are about the pieces of a resolver, never about whole lines.

Left out: the text of the service log, logs that cannot be opened, a command line too
short to have `argv[4]`, the timer.

### Runs
Two requesters and two resolvers are the least for every race between threads of
one kind; a file longer than the buffer makes requesters sleep in the middle of a
file; two files make one requester work while another leaves.

| Run | Instance | Shows |
|---|---|---|
| `lookup_safety` | files of 3 and 2 lines among bogus ones, buffer of 2, spurious wakeups; threads of one kind are symmetric | claims, accounting of names, exits, wakeups; the threads implement `NameDelivery!Safe` |
| `lookup_live` | two files of 2 lines, buffer of 1 | everything is written and every requester counted, or the process is killed |
| `lookup_bogus` | no valid file | finding: the program faults or freezes, and never ends by itself |
| `results` | one file of three names, two resolvers, a name without an address, one with, and one whose first address is not converted | each line has the answer to its own name; the file holds what each resolver printed first, and after a return everything and nothing old |
| `lookup_underflow` | as `lookup_safety` | finding: the index test is not repeated after the wait |
| `lookup_shutdown` | one thread of each kind, one line | finding: the shutdown broadcast can be lost |

The reduction by symmetry is sound for `DeliversSafely` too: the mapping counts
and collects over threads, and names none.

Fairness is weak fairness of each thread and of main: the scheduler runs every
thread that can run and `dnslookup` returns. Spurious wakeups are allowed in the
safety runs and left out of the liveness run, where an endless series of them
could keep the lock from others. Deadlock is not checked: the program stops when
main returns, when it is killed, and in the hangs the findings show.

With no valid file a requester that does not fault returns uncounted (`FindNoList`,
`LeaveUncounted`), so that the resolvers sleep and main waits for ever, although
`PA3/README.md` line 16 lists this freeze as fixed. `FreezesOrFaults` says that every
behaviour ends in this way or in a fault; it holds, and what holds is the finding.

### Proofs (`MultiLookupProofs`, `DeliveryProofs`, `ResultsLogProofs`)
From the named assumptions on the constants only. `TypeCorrect` is inductive.
`IInv` strengthens the safety properties: `LockInv` (a thread is in a critical
section iff it owns its lock), `FileInv` (a claimed file is unmarked until its
claimer marks it, a file being read is marked), `CountInv` (`threadsFinished` is
the number of counted requesters; who leaves has seen all files serviced; an
exited resolver saw all counted and an empty buffer) and `SleepInv` (a resolver
about to sleep holds an empty buffer). `NoDoubleClaim`, `NoEarlyExit` and
`NoLostWakeup` follow from it; `NoRecovery` is inductive over `TypeOK`.

`NoSleepingRing` (requesters and resolvers never all sleep while work is left) rests on
`PartnerAwake`: while a requester sleeps on `isFull`, a resolver is awake that will
signal it before it sleeps itself, or a requester is in the critical section and will
wake a resolver before it leaves. `signal` of the code is a single wakeup, so that the
proof has to follow who gets it (`SignalIsFullType`, `ResolverSignals`).

`DeliveryProofs` counts where each name is: written so many times, on the stack in so
many places, in the hand of so many resolvers. `AccountInv` says that the sum is one
once its file has been read past it, and zero before. A step that changes none of the three
(`Settled`) needs one argument only; `AccountPut`, `AccountTake` and `AccountResolve`
move a name from one place to the next. `NoNameLost` follows. For the refinement,
`DeliveryInv` adds that the stack holds names only (`StackInv`), how far a reader is in
its file (`ReadInv`) and that main returns after all others (`MainInv`); each action is
then shown to be a step of `NameDelivery` or to change nothing in the mapping
(`MapStep`), and `ThreadsDeliver` is the whole of `DeliversSafely`.

`ResultsLogProofs` proves `AnswersMatch` for any names, resolvers and answers. Its
invariant says where each name is (`Places`), so that none is looked up twice, and that
what is printed belongs to names that are written (`PrintedWritten`), so that no later
lookup replaces the answer a line was printed from. `PrefixKept` and `FileHasAll` are about
the file itself. What a resolver has in the file, followed by what waits in its stream, is
what it printed: a step of `Fprintf` or `Flush` moves pieces from the second to the
first, and the pieces of another resolver in between do not change the selection from
the file. That a selection from `Append(s, x)` is the selection from `s`, with or without
`x`, is the induction over sequences this rests on. After main has returned no stream holds
anything, so that nothing of an earlier run and nothing twice is left in the file.

`LogAddsUp` proves `ServiceLogAdds`. The counts in the log are added up by a fold, that is
by a recursion over sets (`Sums` in `Induction`); one more in one place makes
the sum more by one (`SumsAdd`), as a claimed file makes the set of the files that are
claimed larger by one.

Only model-checked: `Delivers`, `RequestersFinish` and `FreezesOrFaults`, which are liveness.

## 4. The paging simulator and its pagers

### Model
`Simulator.tla` follows main's loop: `LoopHead` (`alldone`), one `process_step`
per processor in order (`phase = "step"`, `turn`), `allage`, and the pager
(`CallPager`). `process_step` has an action per way through it: no process,
blocked, exit, branch, next statement; an exit includes `process_unload` and
`dequeue`, as in `allstep`. A page is one number, as in the code: `-PAGEWAIT-1`
out, below 0 going out, 0 in, above 0 coming in. `pagein` and `pageout` are
operators on a `Table` (the pages and the frames left) so that a pager's loop over
them is one atomic step, as it is in the sequential program; `PageinOk` and
`PageoutOk` are what they return.

The branching engines are the constant operators `Load` and `Decide` of `Simulator`.
`Branching` gives them without their data: an engine keeps how often it goes its way
from here and draws the next count when it is needed; IF is a free choice, and FOR a
count from `min` to `max-1`. `BranchEngine` gives them as `bcontext_init` and
`bcontext_decide` do: a ring of `MAXBRINGS` run lengths drawn when the program is
loaded, an offset and a count. The last decision drawn for an IF is stored one past the
array, on the type of the next engine, which then gets its own type when it is
initialised in turn (`Initialised`). A program without branches still matches the zero
`branches[0]` at statement 0, as in the code.

`CallPager` is any pager: the joint effect of any
calls is that pages that are in start to go out, and pages that are out, as many as
there are frames, start to come in. The `Pager*` modules and `ApiTest` replace it by a
`pageit`.

- `PagerBasic`: the first active process only; a page of its own is sent out when
  a pagein fails.
- `PagerLru`: timestamps are only compared within a process, so `recent` keeps the
  order of pages; `tick` is the clock modulo `MAXPROCPAGES`, as in the code.
- `PagerPredict`: `Serve` is a turn of the loop over the processors, folded over
  them; `GiveUp`, `Bring` and `Predicted` are the pageouts, the guessed pageins and
  the patterns. A guess ends the loop, as the `break` in the code does.
- `ApiTest`: a page of the first processor is moved out and in; a flag is set when a
  move starts, a hundred ticks before it ends, and the process exits after the sixth.

`LinkedSimulator` is one system with the choice of the executable in `linked`.

Left out: scores, logs, csv files, arguments, and the message of `-dead`.

### Runs
| Run | Instance | Shows |
|---|---|---|
| `pagers` | two processors, three programs of up to five pages with nested loops and IFs, five frames, rings of two runs | frames and program counters are kept, every program of the queue is run, once and to its end; `Simulator!Spec` with counted branches for all three executables; the basic pager serves one process and sends nothing out; with the LRU pager too the queue ends and who loses pages waits; the flags of the API test and its exit |
| `lru_recent` | five pages each, three frames | finding: the page sent out is not the least recently used |
| `predict` | the pages and branches of three programs of `programs.c`, three statements to a page, six frames | pages are given up for room only; finding: a guess never brings in a page; no reported deadlock is one, the queue ends |

A simulator with any pager is checked as the abstract specification of `pagers`: each
executable implements it (`ImplementsSimulator`), and `SimulatorProofs` shows for it what
the run shows for the three. One case is left to that proof: no program of `pagers` ends
with pages of its own under way, which `NoFrameLost` covers.

`QueueServed` is about the queue as a whole: those that leave it are on a processor from
then on and on one only, none leaves its processor before an exit of its program, and a
reload takes none that ran before; so none is skipped, dropped or run twice. That a
program without branches executes statement 0 twice is in the model (`ZeroBranch`); no
property is about it, as it costs a tick and nothing in the code says otherwise.

`PAGEWAIT` is 2 to 5 instead of 100: enough for every state of a page and for
moves of both processors to overlap. For the LRU pager it is the number of pages, as in
the code it is a multiple of it: a page comes in when the clock points where it did.
FOR counts are cut to one or two, and to one alone in `predict`. A ring has two runs
(`MAXBRINGS`) of at most two decisions (`MaxRun`): it wraps, changes its way in the
middle of a run of the program, and is read again from its start. The run of a GOTO,
`Forever`, is 2^31-1 as in the code, which no run of TLC and no run of the program
exhausts. The first program of `pagers` cannot end without pages beyond its first, since
`FlagsFollowPage` is about a program that does not end while the page under test is on
its way. `predict` does not check `Spec`: the set of all calls over its thirty pages is too
large for TLC.

Fairness is weak fairness of the whole step: the program is sequential and does
not stop. Deadlock is not checked, because the simulation ends.

The finding of `predict`: the prediction of `pager-predict.c` has no effect. The pages
given up for a guess (lines 51-53) hold their frames until long after its pageins have
failed, so that `OnlyNeededComeIn` holds, against line 116 ("bring in the next page since
thats what it most likely will do") and all that lines 57-110 are written for.

`NoStandstill` takes up what the simulator itself reports as a deadlock (`allblocked`,
option `-dead`): every process waits for a page that is out. Under the predictive
pager frames are then on their way back. Under the LRU pager they need not be: when
the clock points at a page that is out already, `pageout` answers 1 and nothing
moves, so that the property fails on the instance of `lru_recent`. The clock moves on
with every tick until it meets a page in memory, and the queue still ends (`QueueEnds`
in `pagers`). Under the basic pager the report never comes, its first process always has a page under way.

### Proofs
`SimulatorProofs`, for any programs, sizes and pager. `FramesInv` (`TypeOK` with
`FramesConserved`) is inductive; the two need each other, as `pagesavail` has its
range because of the count. The argument is on `HeldIn`, the set of pages that hold
a frame: each step removes from it, or adds to it, as many as `pagesavail` changes
by. `QueueInv` adds that busy processors run processes that left the queue, all
different. `PcInProgram` rests on the assumption that the last statement is an exit,
which `programs.c` keeps. `NeverIdle` and `EachRunOnce` follow from `QueueInv`: the
processes that left the queue are those below `queueend`, a reload takes exactly the
next one, and only an exit makes a processor reload. The lemma `CourseStep` says in which
ways a step may move a page. All of it holds for any `Load` and `Decide`, with or without rings.

`LinkedProofs` is about the pagers and the rings.

*The pagers.* Each `pageit` is a `CallPager`: at once for the basic pager and the API test,
which make one call that moves a page. The LRU pager takes turns; its table after n turns
is the value at n of a recursive function, which exists by `Recursion` of `Induction`.
The proof carries along what has been moved by then: pages that were in and are on their
way out, pages that were out and are on their way in, and the frames these took
(`AllKeepToInterface`). So all that is proved in `SimulatorProofs` holds of the three.

`BasicInv` adds that a processor without a process holds no frame, so that the frames of
the first active process are all frames in use, and a free one is left whenever it needs a
page: `FirstServedOnly`, `NothingSentOut`, and `BasicExecutable` for `test-basic`.
`OnlyWaitersGive` and `NothingSentForFun` are action properties of the pagers that serve
programs. They need an invariant (`Waits`, in `ServingInv`): only the page a process needs
comes in, and a page goes out only while its process needs one that is out, or that will be
in only after the other is out. So the page needed is never one that goes out. A `pagein` fails for
such a page too, and only this invariant excludes that a frame is asked for in vain while
another is free. `FlagsKept` follows the page under test of `test-api` through
its two moves; it rests on `TestAssumption`, that no program of `programs.c` ends on that
page (they end on others).

*The rings.* `ExecutablesImplement` is the refinement `ImplementsSimulator`. `EngineOf` says
what a context holds: for a FOR or NFOR counts at the even places of its ring and the 1 of
the escape at the odd ones, `MAXBRINGS` being even; it goes its own way exactly at even
offsets, and its count has not passed the length of the run. Then a decision is one
that the remaining count allows (`DecideRing`), also where the ring wraps and where a
count of 0 has been drawn. `process_load` is a recursion over the branches
(`FilledRecursion`): the type that an IF overwrites belongs to a context not yet
initialised, which gets its own (`LoadInitialises`). The theorem has two hypotheses.
`CodeEngines` says that the simulator is linked with these engines, as `pagers` links it.
`TicksLeft` says that no GOTO of a running program has been taken 2^31-1 times: its ring
holds 0x7fffffff under the comment "keep going forever" (`simulator.c`, line 190), and the
decision after the last of these is not to branch. A tick makes at most one decision of a
processor, and no run of the program takes as many.

`PagerPredictProofs`. Every turn of `pageit` is one of three: nothing, a page that comes
in, or a process that gives up all its pages in memory (`ServedUpTo`); after a failed
`pagein` no frame is left, and giving up pages frees none for a hundred ticks, so that all
guesses that follow find none. With this `PredictKeepsToInterface`,
`GivenUpForRoom` and `GuessesBringNothing` follow step by step. `AlwaysMovesOn` needs
more, because a guess ends the turns of all processors behind it. Let a process have nothing
in memory, wait for a page that is out, and be about to guess: by the invariant `Fed` a
frame is free then, or a processor before it, which has its turn first, holds one.
It holds because `previousAccess` changes only where pages are given up or the next page was
asked for, and nothing is predicted from an empty guess or from the page before
(`NoPattern`). `SomeFrames`, that there is a frame at all, is 100 in `simulator.h`.

Only model-checked: `QueueEnds`, `TestEnds` and `Ends`, which are liveness.

## 5. The character driver and its test program

### Model
`CharDriver.tla`: users are processes with at most one open file each; calls of
different users interleave, `copy_to_user` and `copy_from_user` byte by byte, and
`openCount = openCount + 1` as a read and a write, because nothing is locked.
`module` follows `insmod` and `rmmod` through their two steps each; a file can be
opened between registration and `kmalloc`, whose failure is not looked at. With a
NULL buffer a copy kills the process, or stops and is reported as complete.
`.owner = THIS_MODULE` keeps the module while a file is open (`Removable`).
A call brings the position it works at: that of the file for `read` and `write`, any
other for `pread` and `pwrite`, which move nothing. `Rest` and `Fits` are the arithmetic of
lines 19, 23 and 48: an int, compared as an unsigned number when it is negative. A copy
outside the buffer is `Stuck` at a byte the kernel may not be able to copy; else it reads
`Junk`, or writes memory that the model does not have. `CopyKilled` also covers the
`printk` of line 57, which looks at the user's own memory after the copy.
`ReadTooLong` is the missing copy of a read past the end. The kernel's file layer, copies
and module references are external. Left out: what `printk` prints, a failed
`register_chrdev` (it changes nothing), file descriptors shared by processes.

`TestProgram.tla` is the menu of `testProgram.c` and its buffers over that driver.
What fresh memory holds, and what is printed, is left out.

`DeviceFile` is what the comments promise: a read that wants more than is left gets the
rest (lines 23, 30) and one from beyond the end 0 bytes (line 25), a write needs "enough room
in the buffer" (line 47), and a call moves the cursor by what it transferred. It is not
adapted to the code. The mapping (`Storage`, `Cursor`) takes a write to happen when it
starts. `KeepsPromise` says that the driver's steps are steps of `DeviceFile`, with
two kinds of exception, both in the formula:

- steps at which copies of two users overlap (`overlapped`, a history of who is in a call
  that another's has overlapped): a read may then return parts of two writes, as nothing
  in the driver prevents. Before and after, the promise holds for any number of users;
- `Strays`, the three ways in which the code does not do what its comments say: a read of
  more than is left delivers nothing (a finding, `charModule.c` lines 23-41), a read from
  beyond the end reads what lies there, and without a buffer the position moves although
  nothing is copied.

### Runs
| Run | Instance | Shows |
|---|---|---|
| `driver_safety` | two users, a buffer of 2, two opens per load, positions inside, just beyond and far beyond the end | only a `pread` or `pwrite` beyond the end leaves the buffer; the buffer outlives its files; the promise is kept but for the exceptions (finding: they are needed) |
| `driver_outside` | the same | finding: `pread` and `pwrite` beyond the end pass the test of the length and copy outside the buffer |
| `program` | one user, a buffer of 3 and two values, the program run again and again | buffers are lost by refused inputs only; the file keeps its promise across closing and opening |

Two users are the least for races on the buffer, the count and the module; a length goes
one beyond the buffer in `program`, and a seek one beyond it on each side. `HalfInt` is 4
instead of 2^31, and the largest of `Positions` is one whose rest wraps around to a
positive int. `MaxOpens` bounds the opens per load. Safety only, so no
fairness; deadlock is not checked because the bound on opens stops the users.

An update of `openCount` can be lost; the number is only printed, and `TypeOK` merely bounds it.

### Proofs (`DriverProofs`)
`DriverInv`, for any users, values, sizes and positions: types; a call copies only with
its file open and never more than its length (`CallsFit`); `openCount` is behind `opens`
(`CountBehind`); a file's position stays within the buffer, and so does the copy of a read or
write (`OnlyPositionedLeave`); the buffer lives while the module does (`BufferLives`).
Every action of a user is an `Effect` on that user alone, so that one lemma (`UserStep`)
carries the invariant over. `TypeCorrect`, `OthersStayInside` and `NoUseAfterFree` follow.

The same module adds the program: `CallsHaveBuffers` (a call in the driver still has
the buffer it was given) and `BuffersAccounted` (each buffer is in use or was lost by a
refused input).

The refinement of `DeviceFile` is proved for any number of users (`UsersAreServed`), and
with them for any number of runs of `testProgram.c` (`ProgramIsServed`). `ServedInv` adds two
parts to `DriverInv`: when two users copy both are in `overlapped` (`OverlapsNoted`), so that
outside the exception one copies at most; and what such a read has copied so far is what is
still in the buffer (`CopiesTrue`). Then a step of one user changes at most its own bytes
in the mapping: a byte of a write under way counts as stored, so that `WriteByte` changes
nothing there, and the end of a read delivers what is stored.

## 6. What is proved, what is checked

Proved for all values of the constants: the theorems `PROJECT.json` lists, from the
named assumptions the modules state and no others.

Every safety property and action property of the passing runs is among them, and both
refinements of an abstract specification. `ImplementsSimulator` has the two hypotheses
described in section 4; the others have none.

What is computed by recursion (folds over sets, recursive functions, selections from a
sequence) is proved by induction over a set: the numbers, sequences or finite sets for which
a formula holds contain the first and are closed under the step, hence are all
(`Induction`). The theorems of the library that have the formula as a parameter are not used.

Model-checked only: the liveness properties `Delivers`, `RequestersFinish`,
`FreezesOrFaults`, `QueueEnds`, `TestEnds` and `Ends`, as fairness and ENABLED are beyond the prover. The findings are
counterexamples that TLC shows, or, for `FreezesOrFaults`, `OnlyNeededComeIn` and the
exceptions of `KeepsPromise`, properties that hold and say the opposite of a comment.

Not modelled, and why:

- the add system call: one sum and one copy to its caller, with no state and no step that
  another actor could observe;
- the exercises: straight-line code, or threads each joined before the next is created or
  each writing its own cells; the unlocked counter of `mutex.c` is their one race, and
  the lesson of the exercise;
- the kernel's files, which are the kernel's own with an entry added, and the plots;
- `testApp.c`, which is `testProgram.c` again, line for line;
- of `testProgram.c` what its buffers hold: lines 58 and 83 read and overrun memory whose
  contents are not the program's;
- of the simulator scores, logs, csv files, arguments and the message of `-dead`; of
  multi-lookup the timer, logs that cannot be opened and fewer than four arguments. None of
  these is read back by the code that is modelled.

## 7. Plan

What is left, in this order:

1. Steps towards liveness that are safety properties: a measure that no step of the
   simulator increases, and that the LRU clock must decrease within `MAXPROCPAGES` ticks.
2. The memory of the test program's buffers, with its `memset` and `printf`.
