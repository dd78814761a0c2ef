# TLA+ models of the CESM infrastructure (CIME)

This directory holds a verification development for the repository: TLA+ modules translated from the source,
TLC configurations that check them on small instances, and theorems about them checked by TLAPS.  Paths of Python
files without a prefix are relative to `src/cime/scripts/lib/CIME`, `pio*.c` to `src/cime/src/externals/pio2/src/clib`,
`gptl.c` and `perf_mod.F90` to `src/cime/src/share/timing`, other C files to `src/cime/src/externals/mct/mpi-serial`.

    tlc -workers 2 -config sched_e3sm.cfg MCTestScheduler     # any .cfg with its MC module (BatchTest needs none)
    tlapm TestScheduler_proofs.tla

## 1. Inventory

The repository is a port of CESM.  What it contains of its own is CIME: a Python *case control system* that
creates, builds, submits, runs, resubmits and tests climate-model cases, and a Fortran *driver* with share
libraries that runs the coupled model.  Under the driver are the C libraries the model does its work with: parallel
I/O (PIO), timers (GPTL) and an MPI for runs on one process (mpi-serial).  Model components themselves are not here.

| Component | State it keeps | Operations | Interacts through | What is hard |
|---|---|---|---|---|
| Test scheduler (`test_scheduler.py`, `create_test`) | `_tests`, `_procs_avail`, `_model_build_cost`, `_build_group_exeroots`, `threads_in_flight` | producer scan, launch, defer, refuse, reap; consumer phases | dictionaries without locks, TestStatus files, subprocesses | interleaving of producer and consumers, resource bounds, resuming |
| TestStatus (`test_status.py`) | one text file per test | `set_status`, `get_overall_test_status`, `with` = rewrite | read and written by scheduler, phase commands, batch jobs, `wait_for_tests` | preconditions across processes, whole-file rewrites from stale copies |
| A test in the queue (`SystemTests/system_tests_common.py`, `system_tests_compare_two.py`, `case/case_test.py`) | copy of TestStatus, RESUBMIT, IS_FIRST_RUN | constructor, `_resetup_case`, `run` | TestStatus, xml files, `case.submit` | several jobs in a row or at once, failures at every step |
| `case.submit`, batch (`case/case_submit.py`, `XML/env_batch.py`) | xml files, job ids | `_submit`, `submit_jobs`, failure path | batch system, TestStatus | jobs start before the submission ends, partial submissions |
| `case.run`, `case.st_archive` | xml files, restart files, run directory | model run, DA cycles, node-failure retry, archive, resubmit | xml reload, `case.submit` | stale values, retry, choice of restarts |
| `wait_for_tests.py` | nothing | poll until not pending | TestStatus | no timeout |
| Case object, XML, locked files (`case/case.py`, `XML/*`, `locked_files.py`) | trees of entries, a file cache, locked copies | get/set, flush, read, lock, check | files | several processes, read-only use, stale cache |
| Build (`build.py`, `case/case_setup.py`) | BUILD_STATUS, BUILD_COMPLETE, libraries | sharedlibs, component build threads | files, make | component threads, partial failure |
| Driver (`src/cime/src/drivers/mct`) | clocks, alarms, accumulators, fractions, restart files | init, run loop, final | MCT/MPI | order of couplings, alarms, restart |
| Time manager (`src/cime/src/share/esmf_wrf_timemgr`, `shr_cal_mod`) | clock, alarm list | advance, ring, calendars | called by the driver | boundaries |
| Streams (`src/cime/src/share/streams`) | file and date lists, bounds | findBounds, cycling, interpolation | data models | first and last dates |
| PIO, asynchronous I/O (`pio_msg.c`, `pio_nc.c`, `pio_nc4.c`, `pio_getput_int.c`, `pio_file.c`, `pioc.c`) | per task: lists of files, decompositions, I/O systems, error handlers | about 80 library calls, a message handler for each, the message loop | broadcasts on three communicators | two texts of one protocol, several components, errors |
| PIO, data exchange (`pio_spmd.c`) | requests, windows of partners | `pio_swapm` | point-to-point messages | flow control, deadlock |
| PIO, distributed arrays (`pio_rearrange.c`, `pio_darray.c`, `pio_darray_int.c`, `pioc_sc.c`) | decompositions, write buffers, I/O buffers, posted requests | init, write, read, sync, close, frames | `pio_swapm`, netCDF | index arithmetic, order of flushes, fill values |
| GPTL (`gptl.c`) | per thread: timers, hash table, call stack; tree of callers | start, stop, handles, reset, print, summary over processes | called by all of the model, MPI for the summary | names, nesting, threads |
| mpi-serial | a table of handles, lists of waiting sends and receives, datatypes | MPI calls | called by everything built without MPI | recycled handles, matching, extents |
| manage_externals | working copies | status, checkout | git, svn | unsafe updates |

Left aside: MCT, PIO 1, genf90, the copies of GPTL inside PIO and PIO 1, PIO's Fortran layer and its netCDF
integration, numerical kernels, perl and mapping tools, documentation, machine configuration.

### What makes each correct

* Scheduler: processors are conserved, limits are respected, build groups build once and in order, a test is
  submitted once, nothing is refused that could run, every failure reaches the TestStatus file, it ends.
* TestStatus: memory and file agree; an update is never refused in normal operation; a verdict is the worst
  thing that happened and comes only when nothing is left to happen.
* A queued test: no job erases another one's results; a rerun starts over; the wait ends.
* Driver: every field computed for another component's average reaches it exactly once and in time; the clocks of
  the components stay in step with the driver's; a run ends when it should and leaves the restart it was asked for;
  the driver and all components have restarts for a common date; a run continued from any of them repeats what the
  first run did.
* PIO's calls: function and handler agree on every broadcast; all tasks of a component get the same answer and have
  the same tables; a call returns whatever other components do, and the message loop ends.
* PIO's exchange: it delivers what was sent and ends; no ready send without its receive, no more requests than allowed.
* PIO's arrays: the file shows what was put, everything after a sync; a read returns what is stored.
* GPTL: the times and counts of each timer are those of a stopwatch; the call tree has no loops; the summary adds up.
* mpi-serial: a program of one process sees what MPI promises; a handle has one owner.
* Planned ones are in section 6.

The line-by-line list of hazards, with the properties that cover each, is in `PROJECT.json`.

## 2. Modules

| Module | Models | State and actions |
|---|---|---|
| `TestStatus` | the file's contents and its three operators | pure operators `CanSetStatus`, `SetStatus`, `OverallStatus`, and `Submitting`, the proactive SUBMIT of `case.submit` |
| `TestScheduler` | `create_test` as a producer, consumers, files, queue | one action per way an iteration of `_producer` can go (`Skip`, `Full`, `Abort`, `Launch`, `Defer`, `Refuse`), then `EndScan`, `Reap`, `Join`, `WaitForTests`; one action per phase method and outcome (`CreateNewcase` ... `SubmitFails`, `Die`), then `Finish` and `Chain`; `BatchJob` is the queue |
| `TestPromise` | abstract: what a TestStatus file promises to a waiter | `todo`, `result`, `verdict`; `Work`, `Tell`, `Retry` |
| `BatchTest` | one multi-submission test: submitter, jobs, archive jobs, waiter, retries | actions follow `case.submit`, `SystemTestsCommon.__init__`/`run`, `case_run`, `case_st_archive`, `wait_for_test` |
| `DriverClock` | `seq_timemgr_mod` on `esmf_wrf_timemgr`: the driver's clock, a clock per component, their stop, datestop and restart alarms, the run alarms of the driver's clock | `nml`, `endRestart`, `clk`, `runAlarm`, `clockAlarm`; operators `ClockInit` (clockInit, alarmInit), `Tick` (ESMF_ClockAdvance for one alarm), `ClockAdvance`, `StopAlarm` |
| `DriverLoop` | the run loop of `cime_comp_mod`, accumulators of `prep_ocn`, `prep_rof`, `prep_glc`, restart files of `seq_rest_mod` and `component_mod`, continued runs | one action per part of the loop in its order: `Advance` (or `AbortOnGlcAlarms`), `OcnSetup`, `Surface`, `Flux`, `Land`, `Late`, `WriteRestart`, `EndStep`; `Crash` between any two of them, `Continue` |
| `PioCalls` | the functions of PIO's C library as they run with asynchronous I/O, and the handlers of `pio_msg.c` | one operator per function: the sequence of messages, arguments, broadcasts, checks and effects it makes, from the set `p` of its optional pointers; one per handler: what it receives and the call it makes |
| `PioAsync` | computation tasks and I/O tasks that run both, `pio_msg_handler2`, lists of files and decompositions | `chan`, `todo`, `loop`, `tables`, `eh`, `open`, `ierr`; actions `Begin`, `Follow`, one per kind of step of a call (`CallStep`), one per part of the message loop (`LoopStep`) |
| `Exchange` | abstract: what a caller of `pio_swapm` relies on | `Enter`, `Leave` |
| `PioSwap` | `pio_swapm` | one action per MPI call of the function; refines `Exchange` |
| `PioRearrange` | `PIOc_InitDecomp` with the box and the subset rearranger; decompositions from maps counted from 0, from blocks, and from files of maps that were saved before | pure operators from a map to the decomposition and back |
| `ArrayFile` | abstract: what a writer of arrays relies on | `Put`, `Synchronise`, `Other` |
| `PioDarray` | write, read, sync, close and frames of distributed arrays | one action per library call; refines `ArrayFile` |
| `Gptl` | the timers of one process | operators from the library's state and a call to the next state |
| `GptlSummary` | threads that call `Gptl`, then the summary over processes | `Call`, then the sends and receives of `collect_data` |
| `Stopwatch` | abstract: what is measured | `Start`, `Stop`, ... ; implemented by `GptlSummary` |
| `SerialTypes`, `Typemaps` | datatypes of mpi-serial as flattened pairs, and the typemaps of the standard they stand for | pure operators |
| `SerialMpi` | the calls of mpi-serial on its table of handles and lists | one action per call; refines `OneProcess` |
| `OneProcess` | abstract: what MPI promises a single process | messages, requests, groups |
| `TestScheduler_proofs`, `BatchTest_proofs`, `DriverLoop_proofs`, `PioAsyncLog_proofs`, `PioAsync_proofs`, `PioSwap_proofs`, `Gptl_proofs`, `SerialMpi_proofs` | theorems about the modules they are named after; `Gptl_proofs` also those about `GptlSummary` and `Stopwatch`, `PioAsyncLog_proofs` the lemmas of `PioAsync_proofs` about logs | |
| `MC...` | instances for TLC of the module they are named after; `MCPioAgree` adds to `MCPioAsync` that every call agrees with its handler | |

`TestScheduler` and `BatchTest` share `TestStatus`.  The first treats a submitted test as one job; the second
opens that job up and starts where the first one's `Submit` ends.  `DriverLoop` extends `DriverClock`; it is the
model run inside a job, and the two halves meet only in that a job ends or is killed.  `PioAsync` extends
`PioCalls`; `PioDarray` extends `PioRearrange` and takes the exchange, which `PioSwap` opens up, as one step.  `GptlSummary` extends `Gptl`, `SerialMpi` extends `SerialTypes`.

**Time and data in the driver.**  Time is a number of driver steps: the driver's step is the smallest coupling
interval and `clockInit` refuses intervals and offsets that are not multiples of it.  A field is known by the step
at which it was computed, so that an accumulator is a count and a set of steps and an average is that set.  The
receiver of a field is reduced to what it has received, `used`, which is the part of its state that a restart has to
carry.  `made` is a history variable for the properties: the fields computed so far.  `made` and `used` are saved in
the files with the state they describe, so that a continued run is compared with the run it continues.  The places
where ocean input is accumulated and sent depend on `cpl_seq_option`; the sets of options in `AccumulatesFor` and
`SendsFor` are the conditions around the calls.

**Atomicity.**  A consumer is cut where another thread can see a difference: before the phase method, before the
status update, before the nested submission, at its end.  The producer is cut at each test of its scan.  In
`BatchTest` a job is cut at every write of the file and at every place where another process may have been
started.  Writing the file is atomic (a flush of one small block).

**PIO's calls.**  Nothing in the library says what a broadcast is about: it is understood by its order alone.  A call
is therefore the sequence of what it exchanges, each with its MPI type and the name of its value, and the values
themselves are not computed.  `Given(c, s)` is an `if` around a broadcast.  A channel is a broadcast's way from its
root to a receiver, bounded by `Cap`; the root of a broadcast does not wait for the receivers.  Outcomes of netCDF calls are
choices.  Calls that other calls make (`Nested`, `NestedIgnored`) are expanded.  The functions that only differ in the
type of the data (`PIOc_put_vara_int`, ...) are represented by the text ones.

**PIO's arrays.**  A cell of the file shows the number of the put its contents came from, so that data are told apart
by variable, record, element and put and nothing else.  Places and offsets are computed as in the code, row-major
orders included.  Calls are collective and each is one step.

**GPTL and mpi-serial** are libraries a program calls: the state is theirs and the program is any sequence of
calls from a small set, so a call is one step; only the summary over processes is cut at each message, and a call of
mpi-serial that is made of others is cut between them.

**Variants.**  Definitions marked `Variant` or `Mutant` are not part of the specification.  Each is a plausible bug, the same
operator with a guard or a reset missing; substituting it for the operator must break the property named in
`PROJECT.json`, which shows that the property depends on the code.

**Left out of the scheduler:** `--single-exe` (its constructor cannot work: an unhashable key at
`test_scheduler.py:314`), log texts, walltimes, cdash, baselines generation on failure.  Tests start in the
states the constructor gives them, including any prefix of passed phases when directories are reused.

**Left out of the C libraries:** PIO: `performance_tune_rearranger` (times itself), `box_rearrange_create_with_holes`
(never called), `run_unique_check`, the varn/vard builds, PIO 1.  GPTL: hardware counters, memory, the text of the reports,
auto-profiling.  mpi-serial: attributes, info, topologies beyond `MPI_Cart_create`, the Fortran wrappers, and of a status
everything but the tag.

**Left out of the driver:** the external system processes and the pause of components, ice-shelf coupling of ocean
and land ice (`x2gacc_gx`), coupling of iac (only its clock is there), auxiliary history files, mapping and merging
of fields, fractions, calendars (a year is a constant number of steps), reading and writing of the files themselves
(a file is written whole).  A crash may come between any two parts of the
loop.

## 3. What the runs check

| Run | Instance | Shows |
|---|---|---|
| `sched_e3sm` | 3 tests, 2 share a build, pool 3 < build cost 4, one test needs 4, no batch, 2 workers, any phase may fail | `TypeOK`, `ProcsAccounted`, `NoHardAbort`, `BuildIsThere`, `ErrorsInTestStatus`, `RefusedOnlyIfHopeless`, `SchedulerEnds` (69 735 states) |
| `sched_batch` | 3 tests that build alone, batch with `--wait`, 2 workers, any phase may fail | `Throttled`, `SubmittedOnce`, `SchedulerEnds` (224 400 states) |
| `sched_retry` | 2 tests of a build group resumed from every mixture of prefixes, all kinds of failure | `FileKeepsUp`, `WaitedForJobs`, `RefusedOnlyIfHopeless` (26 000 states) |
| `batch_archive` | ERR-like test, 2 submissions by `case.st_archive`, comparison and baseline, 2 retries, every failure of `FaultKinds`, archiving included, but a half submission | `CopyIsCurrent`, refinement `KeepsPromise` with its liveness, which excepts failed archiving (304 states) |
| `driver_pass` | 59 namelists, each with crashes anywhere and two continued runs from any complete restart | `EachFieldOnce`, `ClocksInStep`, `RestartsComplete`, `StopsInTime`, `LeavesRestart`, `ExactRestart` (64 047 states) |
| `pio_calls` | one component of 2 tasks, 1 I/O task, every call with its optional pointers given and NULL (the exceptions are below), every outcome, three error handlers | `InStep`, `NothingLeft`, `SameAnswer`, `TablesAgree` (1.71 million states) |
| `pio_two` | two components, two I/O tasks, making files and freeing I/O systems | liveness `CallsReturn`, `LoopEnds`; it also evaluates `AllAgree`, which states `CallsAgree` of every call of `pio_calls`, before the search (95 000 states) |
| `pio_swap` | 4 tasks, two patterns of traffic, seven options of flow control | `FlowControl`, refinement `Exchanges`, `ExchangeEnds` (118 000 states) |
| `pio_darray` | 4 tasks of which 3 do I/O, grids of 6 and 5, thirteen combinations of decomposition, the way it was made, rearranger and kind of file | `ReadsStored`, refinement `KeepsData` (17 000 states) |
| `gptl` | 2 threads and any 4 calls, and the summary of 3 and of 5 processes | `StackCovers`, `TreeHasNoLoops`, `SummaryTotals`, refinement `KeepsTime`, `SummaryEnds` (246 000 states) |
| `mpi_serial` | programs of 4 to 6 calls out of several plans | `HandlesOwned`, `TypesRight`, refinement `KeepsPromises` (69 000 states) |
| `pio_excess` | arrays longer than the decomposition | violates `KeepsData`; section 5 |

Further configurations, `sched_exeroot`, `sched_namelists`, `batch_inrun`, `batch_retry`, `batch_half`, `driver_rofheat`,
`driver_datestop`, `pio_inner`, `pio_unknown` and `pio_saved`, are not in the list of runs: each is the smallest instance in which the
code breaks the one property it names, for a reader of section 5 (`pio_unknown` has two sets of calls and a property for each).

Why the bounds are enough.  Two workers and three tests give a worker that is missing, a build group with a
dependent test and a third test that competes with both.  A pool smaller than the cost of a build reaches the
scaling in `_xml_phase`; a TOTALPES larger than the pool reaches refusals.  Two submissions are what ERR, ERRI
and PET have (`RESUBMIT` 1), and one retry after another is enough for a retry to meet the leavings of a retry.
`submits.count` is bounded by the behaviour itself; the bounds that are ours are `NumTests`, `MaxRetries` and
`Jobs`, which has one number more than RESUBMIT allows so that a job too many would be seen.  A job that the queue kills
is not among the failures of `FaultKinds`: it leaves its phases pending, and nothing but a retry ends the wait.

Resumed tests.  `sched_e3sm` has fresh tests, since `BuildIsThere` fails for resumed ones (`sched_exeroot`), and phases that
fail are its only failures, since `NoHardAbort` and `ErrorsInTestStatus` fail with the others (`sched_namelists`; a log that cannot be
written kills a thread).  `sched_retry` resumes tests with all kinds of failure; its pool holds a build of the default cost, for a
smaller one refuses a resumed build whose cost was never scaled.

For the driver, a day is 4 steps (`Day`), a month or a year 8 (`Month`, `Year`) and `Horizon` 16, so that a run goes
through two years, and four coupling intervals of the slowest component.  `Never` is 1000.  Intervals are 1, 2, 3 and
4 steps, which gives components that are and are not due at a restart, and offsets of either sign up to a whole
interval.  `MaxRuns` 3 lets a continued run be continued again, once from its own restart and once from an older one.
`Offsets` in `MCDriverLoop` varies coupling order, ocean and river offset and restart interval together because
their combination decides which fields are in an accumulator when a restart is written; `GlcOffsets` does so
for land ice with yearly averages and without; the rest stop at a date, at `stop_n`, or at the wall-clock limit.

PIO: one I/O task and two computation tasks give a root, a task that is not a root and an intercommunicator; `pio_two`
has two I/O tasks and two components, so that one of the I/O tasks learns from the other which component calls.  `Cap` 1
lets a root be one broadcast ahead, `Ahead` 0 says that the tasks of a component begin a call together.  `InnerErrors`
and `SyncErrors` are FALSE because the code goes wrong with them (section 5).  Of a call's optional pointers none, each alone and
all are given, or every combination where there are few.  Two kinds of call are left out: `PIOc_inq_varid` and `PIOc_def_dim` with
a NULL pointer for the id, after which the protocol is out of step (`NullIdCalls`, finding 12), and `PIOc_inq_var_filter_ids` and `_info` with a
NULL pointer for the number, which they dereference.  `PIOc_set_global_log_level` is that of a library built with logging.  Files that are opened have a variable, as
`PIOc_openfile` asks for it.  In `pio_swap` four tasks are the fewest with a partner order that has gaps, and windows of
1 and 2 are smaller than the number of partners; messages are not buffered (`Eager` FALSE), which is the worst case.  In
`pio_darray` grids of 6 and 5 elements on 3 I/O tasks divide unevenly and even so that one has no data; `blocksize`,
`Margin` and `MaxIoData` are scaled down so that the limits are met.  Its preconditions: one decomposition per variable
(buffers are flushed in the order of their creation), the frame of a record variable is set before it is written, arrays as long
as the decomposition, one fill value, boxes given by the caller disjoint and covering, maps in order if they are saved, no record dimension inside a decomposition.

GPTL: four buckets for four names, two of which collide, a name longer than `MAX_CHARS` and one that begins another, a stack
of 4 and a depth limit of 2 reach every boundary with four calls.  Callers keep to the interface (`Legal`): names
called from C within `MAX_CHARS`, one handle per thread and name, `startstop_vals` on timers that are not running, no reset
inside a recursion, at least one timer per process at the summary, and (`PrefixesApart`) no name that begins another one in the
same bucket.

mpi-serial: a table of two blocks of three handles makes programs of six calls recycle handles and meet the end of the table.
Receives ask for at least what is sent and have its type, `MPI_IN_PLACE` is used only where the library looks for it,
requests are freed when complete and communicators when nothing waits on them.  `MPI_Testany` counts a null request as done and
`MPI_Testall` frees what is complete although its flag is 0; both are modelled as they are.  An uninitialised flag of a
struct type is a choice (`Garbage`).  Deadlock is not checked in `driver_pass`, where runs end, and in
`mpi_serial`, where programs end.

**Fairness.**  Weak fairness of the producer, of each consumer, of each queued job and of the waiter: threads of
one Python process are scheduled fairly, each command a phase runs is assumed to end, and the batch system runs
what it accepted.  Nothing is assumed of failures or retries.  `SchedulerEnds` is not checked with dying threads
("log" faults), because an aborted `create_test` is then what the code does.  `DriverLoop` has weak fairness of the
loop as a whole: the driver is one sequential program, and while no one stops it, it goes on.  Nothing is assumed of
`Crash` and `Continue`.  `PioAsync` has weak fairness of each task inside a call and of the message loop, and strong
fairness of `MPI_Waitsome` for each component, since the MPI standard says that a request that is repeatedly ready
will be served; nobody has to make a call.  `PioSwap` has weak fairness of each task, the progress MPI guarantees.
`GptlSummary` says that the processes go on as long as one can (`[]<><<TRUE>>_vars \/ <>[]~CanProgress`), which is
weaker than fairness to each of them.  `PioDarray` and `SerialMpi` claim no liveness: a program may stop calling.

## 4. What is proved

`TestScheduler_proofs` holds for any number of tests, any build groups, pool, costs, options and faults
(assumptions `TestsAssumption`, `ResourceAssumption`, `OptionAssumption` of `TestScheduler`):

* `TypeCorrect`, `ProcsConserved`, `AlwaysThrottled`: from `Inv` = `TypeOK`, `ProcsAccounted`, at most
  `ParallelJobs` threads, at most one sharedlib build, and that a thread about to submit is at MODEL_BUILD.
  The processors held are counted as the set of pairs (thread, processor number), `Held`, so that launching and
  reaping are a union and a difference of finite sets, and no recursive sum is needed.
* `FilesKeepUp`: from `Inv` and `Agree`, which says for every test and every stage of its thread what the file
  holds: all phases up to the one in memory have passed, and the one in progress can be set.  `FileKeepsUp` alone
  is not inductive, since it says nothing of tests between two phases.
* `NeverHardAborts` (assuming that writing to a log never raises): from `Inv` and `Sound`, which adds that a
  test without a thread is never pending before its last phase.
* `BuildsAreThere`: from `GroupSettled`, that a dependent test is past a phase of the build only if the first test of its
  group is through with it, and `Published`, that a first test past XML has published its EXEROOT.  It assumes
  ~`UseExisting`, as `sched_exeroot` requires.
* `OnlySubmittedOnce`: from `Inv`, `Agree` and `Queue`, which ties the number of submissions to where the test is: none before
  its thread submits or its RUN phase is launched, one after, and which of the two ways it is does not change.
* `JobsAreWaitedFor`: from `Queue` and `AfterJoin`: once the threads are joined a queued job's file pends, so that
  `wait_for_tests` cannot return before it.
* `RefusesOnlyTheHopeless`, an action property: from `Sound`, `Published` and `Scanned`, which says what the producer
  knows of the tests of this scan that it has passed: when it refuses, no thread is in flight, so that the processors at hand are
  the pool.  It assumes that logs can be written, and for resumed tests (`UseExisting`) that the pool holds a build of the default
  cost: a resumed build has a cost that may never have been scaled to the pool (section 5), and on a smaller pool is
  refused though nothing is wrong with it.  `Scaled` says that the cost lies within the pool
  as soon as a test has its XML phase behind it.
* `ErrorsAreRecorded`: from `AfterJoin` and `AllRecorded`, that a failure in memory and one in the file go together but for
  the phase a thread is in the middle of.  It assumes that phases fail by their commands only (`Faults`): with the others the
  property is false, see `sched_namelists`.

`BatchTest_proofs` holds for any number of submissions and of retries, with or without a comparison and a baseline
(`BatchAssumption`), for tests whose jobs follow one another: resubmission is left to `case.st_archive`, whose own
submission does not fail (`InTurn`).  Otherwise the properties are false: a job that resubmits from `case.run` runs along with the next,
and a refused archive job is `batch_half`.  An archive job that runs and fails is allowed: it ends the row (`Submissions`).

* `CopiesAreCurrent`, `SubmitFailuresMarked`: from `InARow`, that there is a number `n` of jobs begun such that all before the `n`-th have
  passed and none after it exists (`Row`), that RESUBMIT has counted down along the row (`Countdown`), and that the file holds
  exactly what the `n`-th job has come to (`Recorded`, `Compared`).  `CopyIsCurrent` alone is not inductive, since it does not
  exclude a second job with a copy of its own.
* `PromiseKeptSafely`, for tests that leave something pending between their jobs (`Watched`; without it `batch_inrun` is a
  counterexample): every step is a step of `TestPromise` or leaves it alone.  `Result` and `Todo` are computed from the place in
  the row (`ResultAt`, `TodoAt`), and a verdict, once told, was the truth (`ToldTheTruth`).  This is `Promise!Safety`, all of `KeepsPromise` but
  that the waiter is told in the end unless archiving failed.  `AllJobsWaitedFor` follows.

`DriverLoop_proofs` holds for every set of namelists `clockInit` accepts (any intervals, offsets, coupling order,
stops and restarts; `NamelistAssumption`), any length of day, month and year, and any number of crashes and continued
runs (`CalendarAssumption`, `BoundAssumption`):

* `ClocksStayInStep`: from `InStep`.  `ClocksInStep` says that two clocks are close and is not inductive, since it
  does not say when the slower one moves next.  `InStep` ties both to the run alarm: the driver's clock and the
  component's are in the interval that began at the alarm's `prev`, and the alarm's ring time is the end of that
  interval or lies behind (`Paced`), so that the alarm rings exactly in the step in which the interval ends
  (`TickPaced`).  For continued runs it adds that every restart file of a component is for a whole number of its
  intervals, so that at a date for which all components have a file all clocks start together
  (`FirstTickAligned`).
* `RunsStopInTime`, if no namelist has a wall-clock limit (`NoWallLimit`; with one the property is false, see
  `driver_datestop`): from `InStep` and `InTime`, which adds that the stop alarm rings once its ring time is reached, that
  a step is begun only before both the ring time and the stop date, and that restart dates lie within them.
* `RunsLeaveRestart`, if the stop date lies after the start date (`StopDateAhead`): from `InStep` and
  `EndsWithRestart`, that from the last advance of a run until the restart write the driver's restart alarm rings, and
  then the file is there.  `DriverAlarms` is the heart of it: `clockAdvance` sets the restart alarm on under the same
  condition under which the loop will end.
* `EachFieldReceivedOnce` and `RestartsExact`: from `Exact`.  For each field exchanged it says in closed form what the receiver
  has used, what is in the accumulator and what has been made at a given time and place in the loop (`UsedTo`, `AccTo`, `Made`), for the run
  (`Fields`) and for every file (`FilesExact`).  As the files are functions of their date, a continued run is in the state the first run
  had, and what it writes again is the same.  The proof needs to know when each part of the loop is run (`Called`), which the run alarms
  decide.  Both assume `InputsKeepUp`: land input to the river and to land ice is computed at least as often as it is sent, for otherwise the
  driver sends an old average once more, and rivers take no heat, for that sum is not saved (`driver_rofheat`).
* `RestartSetsComplete`: from `Leaving`: a restart alarm that rings does so for every component in the interval that ends at the
  restart's date, be it the alarm's own (`AlarmsInStep`) or forced by the end of the run (`Forced`), so that a component has written its
  file by then or will before the driver does (`Left`, `RingsAlong`).  It assumes `DaysAreWhole`: iac is
  absent, as its clock is never advanced, and if there is a wall-clock limit a day is a whole number of every coupling interval, for the
  limit moves the stop to the beginning of a day.

`PioSwap_proofs` holds for any number of tasks, any traffic, any number of calls in a row and all options of flow
control that `PIOc_set_rearr_opts` accepts (`SwapAssumption`).  What the bits of `pair` come to, that the partners of a task are
other tasks, each of them once and none with whom data are exchanged left out, is assumed (`PartnersAssumption`, which TLC
evaluates for the instance):

* `FlowControlHolds`: from `Inv`.  `FlowControl` speaks of the messages and requests of a moment, and its two halves need
  each other's reason.  For the limit, `PaceOf` says how far a task has posted receives (`rstep`) when it is about to
  send to partner `istep` (`Ahead`), and `WindowOf` that the receives outstanding lie between the two, a window of `maxreq`
  partners (`Bounded`).  For the ready sends, `OneHandshake` says that a handshake, which is in one place only (about
  to be sent, under way, or in and not answered), stands for a receive that is posted; so data that are sent after a
  handshake find it (`SendDataKeeps`).  `HandshakesOf` says that for every partner that data go to a handshake is asked for
  before its turn comes, so that a task never sends without one; and `WindowOf`, that no receive of an earlier
  call is left when a new one begins (`BeginKeeps`), so that handshakes of two calls cannot be mistaken for each other.

* `CallsExchange`: `pio_swapm` implements `Exchange` (`Exchanges`).  Tasks may be calls apart, and a message does not say which
  call it belongs to.  `Delivery` therefore says of each path which calls its data are from: those that the sender has sent and the
  receiver has not received, in order (`LinkOf`), and of each buffer that what is in it is of the receiver's own call (`BufferOf`).  So
  a receive, which takes the oldest, takes that of its own call (`ThisRoundFirst`), and one that is posted before its data are sent
  gets them from this call and not from a later one (`SameRound`, `LaterRound`).  A task that returns has received from each of its
  partners, and by `PartnersAssumption` these are all.

`PioAsync_proofs`, with `PioAsyncLog_proofs`, holds for any number of components, of computation and of I/O tasks, any bounds on how far tasks
are apart (`Cap`, `Ahead`) and any set of calls (`AsyncAssumption`).  Its theorems `AlwaysInStep`, `NeverLeft`, `AlwaysSameAnswer` and
`TablesAlwaysAgree` have three hypotheses.  `CallsAgree` says of the texts of the calls, one at a time, that the arguments are those the handler
receives, that the function and its copy on the I/O tasks make the same exchanges up to the callers' own steps after an error, and that
what an I/O task will need has been sent; TLC evaluates it for all calls of `pio_calls` (`AllAgree` in `MCPioAgree`).
  It is false of `PIOc_inq_varid` and `PIOc_def_dim` with a NULL pointer for the id and of the calls of finding 10, which the theorems therefore leave out.  `InnerErrors = FALSE` and
`SyncErrors = FALSE` exclude the two places where the code comes out of step (finding 9 and the broadcast of `PIOc_sync`).  So TLC compares
eighty functions with sixty handlers, text with text, and the proof says that tasks whose texts agree never come apart.

* `InStep` looks at the next broadcast of a path only, and no step keeps it.  The inductive invariant is `Logged`: for every component there is a
  log `V[1]`, ..., `V[N]` of what its callers and the I/O tasks do, step by step, of which every state is in order (`OK`) and follows from the one
  before by a step (`VStep`); each task is at a place of the log that says what it has left to do and what it knows (`CompAt`, `IOAt`); and every
  path holds what the log broadcasts after the place of its reader, no more and no less (`Holds`, `Boxes`).  Only the root of a broadcast
  makes the log longer; the others find in it what they receive (`KindIs`, and the lemmas of the sections that send and receive).
* I/O tasks serve several components, the first of them chooses.  `Missed` says that a component whose I/O tasks are between two messages has
  done nothing meanwhile that they should know of, so that a task that takes a message is where the log is; the message loop has a log of its own,
  of what the first I/O task told the others.
* `OK` holds what makes a step of the log possible: what callers and I/O tasks have left covers each other (`Phase`, `Text`), under
  `PIO_BCAST_ERROR` only what everybody does tells a status (`Calm`), a message is only sent while there is no error (`NoError`), and the I/O tasks have
  got the file and the decomposition the call is about (`Knows`).  `Numbers` says that no two files on an I/O task have one number, whatever
  component they are of.
* A component is `Quiet` when all of its tasks are at the end of its log, where all four properties can be read off (`QuietSettled`).

`Gptl_proofs` holds for any number of processes, threads, timers and names, any bounds of gptl.c
(`MAX_CHARS`, `MAX_STACK`, the size of its hash tables), any hash function, every script of calls and every print method (`GptlAssumption`,
`SummaryAssumption`).  Its first part proves what one call does to one library, its second takes that to the job:

* `StacksCover` and `TreesHaveNoLoops`: from `TimersKnown` (`TimersStayKnown`), whose heart is `ThreadOK`.  `StackCovers` is not inductive, since
  it does not say why the parents' counts are the timer's own: `TimerOK` says it of one timer (one call of a parent for every start
  that is not a recursion), `StackKnown` that every entry of the stack up to the index is a timer of the thread, so that the parent that
  `update_parent_info` counts for exists, and that the index is at least the number of timers on, whatever order they are stopped in.
  `Tree` says that children are timers of the thread and that none is below itself.  `newchild` refuses a child that is above its new parent,
  so that the new link closes no loop (`BelowReaches` and the lemmas after it say what `is_descendant` computes), and `construct_tree` only
  makes and removes links this way.
* `TimersKeepTime`: the library of rank 0 implements `Stopwatch` with the refinement mapping of the run (`KeepsTime`), step by step:
  each call is that of a stopwatch of the same name, or one the library ignores.  From `TimersKnown` and `NamesKnown`: every timer has a name of its
  own, one of those a prefix and a name can make (`Keys`); a handle, once set, is the place of the timer of its name; and a thread has no timer before
  its number was asked for.  So the hash table, the handles of the C calls and the prefixes find the timer of the full
  name and no other (`FindsPlace`), and a timer that is not found is one that never ran.  It assumes `PrefixesApart`, without which it is
  false: `getentryf` compares only as many characters as the wanted name has.  The calls are those `Legal` admits: counts are added by `GPTLstartstop_vals` to a timer that does not run, timers are reset when none recurses,
  and names given to the C calls are not longer than a timer holds; and each name is called with a handle of its own.

`SerialMpi_proofs` holds for every size of the table of handles, any number of communicators, datatypes and requests, and every
program made of calls that name its own variables (`SerialAssumption`, `PlansAssumption`):

* `HandlesAlwaysOwned`: from `IInv`, whose heart is `Ledger`.  `HandlesOwned` counts the holders of handles and is about one moment;
  `Ledger` says which variable holds which handle (`Distinct`), that the item of a request names the slot that holds it (`Requests`), and that
  what waits in the lists of two communicators are different requests (`Queues`), without which the completion of a request could leave it in
  another list.  One lemma says what each change of the table does to the ledger: a handle given out (`CommMade`, `TypeMade`, `RequestMade`) or taken
  back (`CommFreed`, `TypeFreed`, `RequestFreed`), and a request listed or met (`Relisted`).  A new handle is nobody's, since the free ones are not in use; and
  the tests of a waitall, whatever it stops at, free the handle of a request that is complete, which is in no list (`TestKeeps`, `TestEachKeeps`).
  `TodoOK` adds that the calls left of a composite one still find what they need: between its receive and its send `MPI_Sendrecv` keeps its
  second slot idle.  The property is about a program that has not been ended by the library.

`newchild`, `construct_tree` and `update_parent_info` are loops over lists, here folds and recursive functions.  The library's induction theorems take
an operator as a parameter, which the provers cannot instantiate.  The proofs use its well-founded minimum instead (`WFMin`, with a set for a parameter):
the set of lengths at which a claim fails has a least element, `LeastNatural`, and there is none.  `FoldExists` and `FoldStep` take that to the
folds of the community modules, for which the existence of the function that `FoldLeft` chooses has to be shown first.

Model-checked only, and why:

* Liveness (`SchedulerEnds`, the second part of `KeepsPromise`, `CallsReturn`, `LoopEnds`, `ExchangeEnds`, `SummaryEnds`) is outside the
  prover's reach along with `ENABLED`.
* Of PIO's distributed arrays (`KeepsData`, `ReadsStored`), of GPTL's summary over processes (`SummaryTotals`) and of
  mpi-serial (`TypesRight`, `KeepsPromises`) the operations are folds over sequences: of regions, requests, lists of timers,
  entries of a type map, slots of a waitall.  What a fold returns for every input takes an induction over its data, one at a time
  in the manner of the timers above; these are not done (section 6).

No module uses RECURSIVE operators.

## 5. Disagreements between code and intent

The first is a run that must be violated, with its quotation in `PROJECT.json` under `findings`.  For the others there is a
configuration of the same name, outside the list of runs, under which TLC finds the property that it names violated.

1. `pio_excess` (`KeepsData`): the comment at `pio_darray.c:678-681` says that the excess of an array longer than the
   decomposition "will be ignored".  A buffer keeps its arrays `arraylen` apart (line 821) and the rearranger reads them `ndof`
   apart, so that the second array of a buffer begins with the excess of the first.

2. `sched_exeroot`: after `--use-existing`/`--retry`, a dependent test of an e3sm build group that resumes at XML
   expects an EXEROOT nobody publishes.
3. `sched_namelists`: a fatal `case.cmpgen_namelists` fails SETUP in memory but not in TestStatus; with `--wait`
   on a batch system `create_test` then never ends.
4. `batch_inrun`: a multi-submission test without baseline operations leaves nothing pending between its jobs;
   `wait_for_tests` says PASS after the first.
5. `batch_retry`: making a failed RUN pending for later waits defeats the test "has RUN been run before" of
   `_resetup_case`; the rerun keeps RESUBMIT 0 and runs only the last submission.  (A user's own `case.submit`
   leaves RUN FAIL: that rerun is set up again, but a wait started before the job runs returns the old verdict.)
6. `batch_half`: a refused `case.st_archive` marks SUBMIT as failed, and the job already running erases the mark.
7. `driver_rofheat`: `a2racc_ax`, the atmosphere's input to the river, is not among the accumulators
   `seq_rest_write` saves; a run continued in the middle of a river interval averages other fields than the run before.
8. `driver_datestop`: the wall-clock limit replaces the stop date by the start of the next day or month, which may be
   later: the run passes its stop date.
9. `pio_inner` (`CallsReturn`): `PIOc_def_var` asks for the size of the type through another call (`pio_nc.c:2172`), as do
   `def_var_fill`, `get_vars`, `put_vars`, `put_att`, `write_darray_multi` and others.  If the inner call fails under
   `PIO_BCAST_ERROR`, its own outcome has been broadcast already, and `check_netcdf` broadcasts once more, on the computation
   tasks only: they wait for ever, while the comment before `check_netcdf2` (`pioc_support.c`) says "Error codes are broadcast to all
   tasks".
10. `pio_unknown` (`CallsReturn`): `PIOc_def_var_szip`, `PIOc_def_var_bzip2` and `PIOc_inq_var_bzip2` send messages for which
   `pio_msg_handler2` has no case: it leaves the loop, and the computation tasks wait for ever.
11. `pio_saved` (`KeepsData`): the library keeps a map that is out of order sorted, with the order apart (`pioc.c:608-628`), and
   `PIOc_write_nc_decomp` and `PIOc_write_decomp` save the sorted map (`pioc_support.c:1321`, `1881`).  A decomposition that is read from
   its file takes the elements of an array in another order than the one that was saved.  (The former also cuts the
   elements of the map to 32 bits.)

12. `pio_unknown` with `Calls <- NullIdCalls` (`NothingLeft`): `PIOc_inq_varid` and `PIOc_def_dim` broadcast the id only `if (varidp)`
   and `if (idp)`, "Ignore NULL parameters" (`pio_nc.c:1166`, `2109`).  No flag tells the I/O tasks, whose handlers always have a
   pointer: after a call with NULL the first I/O task has broadcast an id that no computation task takes, and the next call does.

Quotations for 2 to 8: `test_scheduler.py:320-322` "this program should never hard abort, instead, errors will be placed in the
TestStatus files" (3); `system_tests_common.py:152-155` "Other submissions will need to mark those phases as PEND to ensure
wait_for_tests waits for them" (4); `system_tests_common.py:61-62` "This is necessary if user is re-running an already-run phase"
(5); `case_submit.py:207-208` "If something failed in the batch system, make sure to mark the test as failed" (6);
`src/cime/doc/source/driver_cpl/history-and-restarts.rst:9` "must be able to stop in the middle of a run and then subsequently
restart in a bit-for-bit fashion" (7); `seq_timemgr_mod.F90:1998` "make sure the datestop will always stop with dates >= stop_date" (8).

Observed while reading, and kept as hazards or notes without a run of their own.  PIO: the broadcast of `PIOc_sync`'s
outcome is commented out (`pio_file.c:482`) and the errors of the flush before it are dropped; flags of type int are received as one char
(`pio_msg.c:431`); early returns for an unknown type before the outcome is broadcast leave the other tasks waiting; `PIOc_set_chunk_cache`
ignores the result of its check (`pio_nc4.c:980`); a file whose closing failed stays in the list; fill values of boxes of different
sizes are laid out with the wrong stride (`pio_darray.c:289`); a read before a sync sees old data; unmapped elements come back as zero
or untouched depending on whether the map is sorted; a read-only decomposition with the box rearranger is refused by the
computation tasks only (`pioc.c:970`).  GPTL: `count != 0` at `gptl.c:3996` tests the pointer, so a process without timers
hangs the summary, although line 3876 says that "nothing needs to be done" then; a name that begins another one in its bucket
finds that one (`gptl.c:5094`); a start refused with "stack too big" leaves its level behind; a recursing timer records a
minimum of 0; times added with a count of 0 are not in the summary.  mpi-serial: `MPI_Testany` never sets its index,
`MPI_Testall` tests the pointer `flag` (`req.c:161`), `MPI_Testsome` increments the pointer `outcount` (`req.c:232`),
`MPI_Request_free` leaves an incomplete request in its list, `MPI_Type_struct` leaves its marker flags unset (`type.c:330`).  CIME: the cost of a build is scaled to
the pool only in XML, so that a resumed build that needs more than the pool is refused; `cpl_seq_option = NUOPC`
is accepted although nothing sends the ocean its average; a `case.st_archive` that fails before it resubmits marks nothing, so that a
test of several submissions keeps the phases pending that they would have settled and `wait_for_tests` never ends; with a stub land ice model and `histaux_l2x1yrg` the yearly
average is not saved in restarts; the clock of iac is never advanced; a startup run that ends after one ocean interval
has a driver restart without one of the ocean; `rpointer.drv` is written before the file it names.

## 6. Plan

Of the first plan, the scheduler, a test in the queue and the driver were built first, then the C libraries the model stands on.
What is left:

1. Proofs: `TypesRight` and `KeepsPromises` of mpi-serial; `SummaryTotals` of GPTL, along the tree of `collect_data`;
   `KeepsData` and `ReadsStored` of distributed arrays, which need what the regions of a map cover.
2. `CaseRun`: the chain of `case_run` and `case_st_archive` of an ordinary case: DA cycles, mpirun retry on
   node failure, CONTINUE_RUN and RESUBMIT, restart files kept and restored.  Properties: the run never continues
   from restarts that are gone, RESUBMIT + 1 submissions, the retry loop ends.
3. `CaseXml`: xml files, cached copies, flush and read between the processes of a case, locked files.
   Property: no process flushes over a change it has not read; builds are not used after a locked change.
4. Driver, what is left: pause and resume of components, ice-shelf accumulators, calendars and date arithmetic, and
   an abstract coupler in which every average consists of the fields of one interval, implemented by `DriverLoop`.
5. `Streams`: `shr_stream_findBounds` as operators against a reference definition.
6. `manage_externals`: safe-to-update rules.
