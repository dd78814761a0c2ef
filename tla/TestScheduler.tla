--------------------------- MODULE TestScheduler ----------------------------
(***************************************************************************)
(* The thread pool of create_test (CIME/test_scheduler.py, class           *)
(* TestScheduler): one producer thread that scans the tests and launches   *)
(* the next phase of each as processors allow, and one consumer thread per *)
(* launched phase.  The TestStatus file of every test is part of the state *)
(* because the phases write it and wait_for_tests reads it.                *)
(*                                                                         *)
(* Tests are numbered in the order of the OrderedDict _tests.  A phase is  *)
(* its number in TestStatus, INIT is 0 and the scheduler has no SUBMIT     *)
(* phase of its own: its RUN phase runs case.submit.                       *)
(***************************************************************************)
EXTENDS TestStatus, FiniteSets

CONSTANTS
  NumTests,        \* how many tests were asked for
  FirstOf,         \* the first test of each test's build group
  ProcPool,        \* _proc_pool, processors the scheduler may use at once
  ParallelJobs,    \* _parallel_jobs, consumer threads at once
  ModelBuildCost,  \* _model_build_cost before it is scaled to the pool
  TotalPes,        \* TOTALPES of each test's case
  LastPhase,       \* last of _phases: RUN unless no_run, no_build or no_setup
  IsE3SM,          \* get_model() is "e3sm": shared builds, parallel sharedlibs
  NoBatch,         \* _no_batch: case.submit runs the test itself
  BuildOnly,       \* tests with the "B" option, whose RUN phase is skipped
  UseExisting,     \* --use-existing or a retry: test directories exist already
  Wait,            \* --wait: wait for the batch jobs with wait_for_tests
  Faults           \* which of the failures of FaultKinds can happen

Tests == 1 .. NumTests
INIT  == 0
Phases == (INIT .. LastPhase) \ {SUBMIT_PHASE}

(* "phase": a phase's command fails and says so in TestStatus;             *)
(* "namelists": case.setup passes and case.cmpgen_namelists dies;          *)
(* "log": a phase raises and so does writing its error to the test's log.  *)
FaultKinds == {"phase", "namelists", "log"}

ASSUME TestsAssumption ==
  /\ NumTests \in Nat \ {0}
  /\ FirstOf \in [Tests -> Tests]
  /\ \A t \in Tests : FirstOf[t] <= t /\ FirstOf[FirstOf[t]] = FirstOf[t]
  /\ IsE3SM \in BOOLEAN
  /\ ~IsE3SM => \A t \in Tests : FirstOf[t] = t

ASSUME ResourceAssumption ==
  /\ ProcPool \in Nat \ {0}
  /\ ParallelJobs \in Nat \ {0}
  /\ ModelBuildCost \in Nat \ {0}
  /\ TotalPes \in [Tests -> Nat \ {0}]

ASSUME OptionAssumption ==
  /\ LastPhase \in {XML_PHASE, SETUP_PHASE, MODEL_BUILD_PHASE, RUN_PHASE}
  /\ BuildOnly \subseteq Tests
  /\ {NoBatch, UseExisting, Wait} \subseteq BOOLEAN
  /\ Faults \subseteq FaultKinds

VARIABLES
  tests,            \* _tests: the phase each test is in and its status there
  procs_avail,      \* _procs_avail
  model_build_cost, \* _model_build_cost
  exeroots,         \* the first tests whose group has an entry in _build_group_exeroots
  threads,          \* threads_in_flight, with where each consumer has got to
  producer,         \* where the producer thread is
  file,             \* the TestStatus file of each test
  submits           \* batch jobs in the queue and the number submitted, per test

vars == <<tests, procs_avail, model_build_cost, exeroots, threads, producer, file, submits>>
-----------------------------------------------------------------------------
(* A consumer is about to call its phase_method ("phase"), then to update  *)
(* the status ("finish"), then perhaps to submit at once ("chain"), and    *)
(* then its thread is not alive ("dead") until the producer reaps it.      *)
NoThread == [pc |-> "none", phase |-> INIT, procs |-> 0, success |-> FALSE]
Threads  == [pc : {"none", "phase", "finish", "chain", "dead"}, phase : Phases,
             procs : 0 .. ProcPool, success : BOOLEAN]

(* The producer scans the tests, "at" being the next one; "work" is        *)
(* work_to_do and "launched" tells whether this scan launched anything.    *)
ProducerPCs == {"scan", "wait", "join", "wait_for_tests", "exit", "aborted"}
Producer    == [pc : ProducerPCs, at : 1 .. NumTests + 1, work : BOOLEAN, launched : BOOLEAN]
NewScan     == [pc |-> "scan", at |-> 1, work |-> FALSE, launched |-> FALSE]

in_flight == {t \in Tests : threads[t].pc # "none"}

(* The processors the threads in S hold, as (thread, processor) pairs. *)
Held(S) == {s \in Tests \X (1 .. ProcPool) : s[1] \in S /\ s[2] <= threads[s[1]].procs}

NextPhase(phase) == IF phase = MODEL_BUILD_PHASE THEN RUN_PHASE ELSE phase + 1

IsFirst(t) == FirstOf[t] = t

WorkRemains(t) == tests[t].status \in {"PASS", "PEND"} /\ tests[t].phase # LastPhase

(* _get_test_status(test, phase): later phases are pending, earlier ones   *)
(* are assumed to have passed.                                             *)
TestStatusAt(t, phase) ==
  IF phase = tests[t].phase THEN tests[t].status
  ELSE IF phase > tests[t].phase THEN "PEND" ELSE "PASS"

(* The expectations of _update_test_status. *)
CanUpdate(t, phase, status) ==
  IF tests[t].phase = phase
  THEN tests[t].status = "PEND" /\ status # "PEND"
  ELSE /\ tests[t].status = "PASS"
       /\ status = "PEND"
       /\ phase = NextPhase(tests[t].phase)

(* More than any pool: what a phase that must not start yet needs. *)
NotYet == ProcPool + 1

(* The phases in which a test waits for the first test of its build group. *)
\* Variant: XML does not wait.
GroupPhasesNoXml == {SHAREDLIB_BUILD_PHASE, MODEL_BUILD_PHASE}
GroupPhases == {XML_PHASE, SHAREDLIB_BUILD_PHASE, MODEL_BUILD_PHASE}

ProcsNeeded(t, phase) ==
  CASE ~IsFirst(t) /\ phase \in GroupPhases ->
         IF TestStatusAt(FirstOf[t], phase) = "PEND" THEN NotYet ELSE 1
    [] phase = RUN_PHASE /\ NoBatch -> TotalPes[t]
    [] /\ phase = SHAREDLIB_BUILD_PHASE
       /\ ~IsE3SM
       /\ \E u \in in_flight : threads[u].phase = SHAREDLIB_BUILD_PHASE -> NotYet
    [] IsFirst(t) /\ phase = MODEL_BUILD_PHASE -> model_build_cost
    [] OTHER -> 1
-----------------------------------------------------------------------------
(* A file in which the core phases up to last passed and the next one, if  *)
(* there is one, ended with the given status.                              *)
PassedUpTo(last, next) ==
  [p \in CORE_PHASES |-> CASE p <= last -> "PASS" [] p = last + 1 -> next [] OTHER -> NoStatus]

(* With use_existing the constructor makes the failed phase of a file      *)
(* pending again, "for potential subsequent waits".                        *)
\* Variant: a failed phase stays failed.
ResumedKeepingFail(ts) == ts
Resumed(ts) ==
  [p \in CORE_PHASES |-> IF ts[p] = "FAIL" THEN "PEND" ELSE ts[p]]

(* It resumes a test after the last core phase that passed; a passed       *)
(* SUBMIT whose RUN did not pass is submitted again.                       *)
\* Variant: a submitted test counts as run.
ResumedAtNoResubmit(last) == IF last = SUBMIT_PHASE THEN RUN_PHASE ELSE last
ResumedAt(last) == IF last = SUBMIT_PHASE THEN MODEL_BUILD_PHASE ELSE last

Init ==
  /\ \/ /\ ~UseExisting
        /\ tests = [t \in Tests |-> [phase |-> INIT, status |-> "PASS"]]
        /\ file = [t \in Tests |-> PassedUpTo(INIT, NoStatus)]
     \/ /\ UseExisting
        /\ \E last \in [Tests -> INIT .. LastPhase], next \in {"PEND", "FAIL"} :
              /\ tests = [t \in Tests |-> [phase |-> ResumedAt(last[t]), status |-> "PASS"]]
              /\ file = [t \in Tests |-> Resumed(PassedUpTo(last[t], next))]
  /\ procs_avail = ProcPool
  /\ model_build_cost = ModelBuildCost
  /\ exeroots = {}
  /\ threads = [t \in Tests |-> NoThread]
  /\ producer = NewScan
  /\ submits = [t \in Tests |-> [queued |-> FALSE, count |-> 0]]
-----------------------------------------------------------------------------
(* The producer: _producer, one action per way an iteration can go. *)

AtTest(t) == producer.pc = "scan" /\ producer.at = t

\* Variant: one worker too many.
WorkersFullTooLate == Cardinality(in_flight) > ParallelJobs
WorkersFull == Cardinality(in_flight) = ParallelJobs

(* The test the loop is at has a phase to run and no thread running it. *)
\* Variant: threads_in_flight is not consulted.
ReadyInFlight(t) == AtTest(t) /\ WorkRemains(t) /\ ~WorkersFull
Ready(t) == AtTest(t) /\ WorkRemains(t) /\ ~WorkersFull /\ t \notin in_flight

(* The next phase of t can have its processors, now or once some thread    *)
(* that is in flight gives its own back.                                   *)
\* Variant: any processor left will do.
EnoughOverdrawn(t) == procs_avail > 0
Enough(t) == ProcsNeeded(t, NextPhase(tests[t].phase)) <= procs_avail

\* Variant: threads that ended and still hold processors are forgotten.
MoreToComeIfAlive == \E t \in Tests : threads[t].pc \notin {"none", "dead"}
MoreToCome == in_flight # {}

Moved(launched, work) ==
  producer' = [producer EXCEPT !.at = @ + 1, !.launched = @ \/ launched, !.work = @ \/ work]

(* Nothing to do for this test, now or ever. *)
Skip(t) ==
  /\ AtTest(t)
  /\ \/ ~WorkRemains(t)
     \/ ~WorkersFull /\ t \in in_flight
  /\ Moved(FALSE, WorkRemains(t))
  /\ UNCHANGED <<tests, procs_avail, model_build_cost, exeroots, threads, file, submits>>

(* No worker is available: break out of the loop. *)
Full(t) ==
  /\ AtTest(t)
  /\ WorkRemains(t)
  /\ WorkersFull
  /\ producer' = [producer EXCEPT !.at = NumTests + 1, !.work = TRUE]
  /\ UNCHANGED <<tests, procs_avail, model_build_cost, exeroots, threads, file, submits>>

(* The two expectations on the status of a test that has no thread. *)
Abort(t) ==
  /\ Ready(t)
  /\ ~CanUpdate(t, NextPhase(tests[t].phase), "PEND")
  /\ producer' = [producer EXCEPT !.pc = "aborted"]
  /\ UNCHANGED <<tests, procs_avail, model_build_cost, exeroots, threads, file, submits>>

Launch(t) ==
  LET next_phase == NextPhase(tests[t].phase)
      needed     == ProcsNeeded(t, next_phase)
  IN  /\ Ready(t)
      /\ CanUpdate(t, next_phase, "PEND")
      /\ Enough(t)
      /\ procs_avail' = procs_avail - needed
      /\ tests' = [tests EXCEPT ![t] = [phase |-> next_phase, status |-> "PEND"]]
      /\ threads' = [threads EXCEPT ![t] =
           [pc |-> "phase", phase |-> next_phase, procs |-> needed, success |-> FALSE]]
      /\ Moved(TRUE, TRUE)
      /\ UNCHANGED <<model_build_cost, exeroots, file, submits>>

(* Not enough processors now, but some thread will give its back. *)
Defer(t) ==
  /\ Ready(t)
  /\ CanUpdate(t, NextPhase(tests[t].phase), "PEND")
  /\ ~Enough(t)
  /\ MoreToCome
  /\ Moved(FALSE, TRUE)
  /\ UNCHANGED <<tests, procs_avail, model_build_cost, exeroots, threads, file, submits>>

(* "required more processors than this machine can provide": the test fails *)
(* in memory, in its log and in its file, unless one of the latter raises. *)
Refuse(t) ==
  LET next_phase == NextPhase(tests[t].phase)
      first_set  == IF next_phase = RUN_PHASE THEN SUBMIT_PHASE ELSE next_phase
  IN  /\ Ready(t)
      /\ CanUpdate(t, next_phase, "PEND")
      /\ ~Enough(t)
      /\ ~MoreToCome
      /\ tests' = [tests EXCEPT ![t] = [phase |-> next_phase, status |-> "FAIL"]]
      /\ \/ /\ CanSetStatus(file[t], first_set)
            /\ file' = [file EXCEPT ![t] =
                 IF next_phase = RUN_PHASE
                 THEN SetStatus(SetStatus(@, SUBMIT_PHASE, "PASS"), RUN_PHASE, "FAIL")
                 ELSE SetStatus(@, next_phase, "FAIL")]
            /\ Moved(TRUE, TRUE)
         \/ /\ "log" \in Faults \/ ~CanSetStatus(file[t], first_set)
            /\ producer' = [producer EXCEPT !.pc = "aborted"]
            /\ UNCHANGED file
      /\ UNCHANGED <<procs_avail, model_build_cost, exeroots, threads, submits>>

\* Variant: it waits even after a scan that launched or refused a phase.
EndScanWaits ==
  /\ AtTest(NumTests + 1)
  /\ producer' = [producer EXCEPT !.pc = IF producer.work THEN "wait" ELSE "join"]
  /\ UNCHANGED <<tests, procs_avail, model_build_cost, exeroots, threads, file, submits>>

(* The end of the for loop: stop, wait for a thread, or scan again. *)
EndScan ==
  /\ AtTest(NumTests + 1)
  /\ producer' =
       IF ~producer.work THEN [producer EXCEPT !.pc = "join"]
       ELSE IF producer.launched THEN NewScan
       ELSE IF Cardinality(in_flight) <= ParallelJobs THEN [producer EXCEPT !.pc = "wait"]
       ELSE [producer EXCEPT !.pc = "aborted"]
  /\ UNCHANGED <<tests, procs_avail, model_build_cost, exeroots, threads, file, submits>>

\* Variant: each thread gives one processor back.
GivenBackOneEach(finished) == Cardinality(finished)
GivenBack(finished) == Cardinality(Held(finished))

(* _wait_for_something_to_finish: every thread found not alive gives its   *)
(* processors back and leaves threads_in_flight.                           *)
Reap ==
  LET finished == {t \in Tests : threads[t].pc = "dead"}
  IN  /\ producer.pc = "wait"
      /\ finished # {}
      /\ procs_avail' = procs_avail + GivenBack(finished)
      /\ threads' = [t \in Tests |-> IF t \in finished THEN NoThread ELSE threads[t]]
      /\ producer' = NewScan
      /\ UNCHANGED <<tests, model_build_cost, exeroots, file, submits>>

(* The joins at the end of _producer, and what run_tests does next. *)
Join ==
  /\ producer.pc = "join"
  /\ \A t \in in_flight : threads[t].pc = "dead"
  /\ producer' = [producer EXCEPT !.pc = IF Wait /\ LastPhase = RUN_PHASE /\ ~NoBatch
                                         THEN "wait_for_tests" ELSE "exit"]
  /\ UNCHANGED <<tests, procs_avail, model_build_cost, exeroots, threads, file, submits>>

(* wait_for_tests watches the files there are, and sleeps while any of     *)
(* them is pending.                                                        *)
Pending(t) ==
  /\ \E p \in CORE_PHASES : file[t][p] # NoStatus
  /\ OverallStatus(file[t], TRUE) = "PEND"

Poll == producer.pc = "wait_for_tests" /\ \E t \in Tests : Pending(t)

WaitForTests ==
  /\ producer.pc = "wait_for_tests"
  /\ \A t \in Tests : ~Pending(t)
  /\ producer' = [producer EXCEPT !.pc = "exit"]
  /\ UNCHANGED <<tests, procs_avail, model_build_cost, exeroots, threads, file, submits>>
-----------------------------------------------------------------------------
(* A consumer calls its phase_method, catching any exception. *)

InPhase(t, phase) == threads[t].pc = "phase" /\ threads[t].phase = phase

Called(t, success) ==
  threads' = [threads EXCEPT ![t].pc = "finish", ![t].success = success]

(* What a command that runs a phase leaves in the file: pending, and then *)
(* how the phase ended.                                                    *)
RanPhase(ts, phase, status) == SetStatus(SetStatus(ts, phase, "PEND"), phase, status)

CreateNewcase(t) ==
  /\ InPhase(t, CREATE_NEWCASE_PHASE)
  /\ \/ Called(t, TRUE)
     \/ "phase" \in Faults /\ Called(t, FALSE)
  /\ UNCHANGED <<tests, procs_avail, model_build_cost, exeroots, producer, file, submits>>

(* _xml_phase: the first test of a build group publishes its EXEROOT, the  *)
(* others expect to find it; either scales the cost of a build to the pool.*)
Xml(t) ==
  /\ InPhase(t, XML_PHASE)
  /\ IF IsFirst(t) = (FirstOf[t] \notin exeroots)
     THEN /\ exeroots' = exeroots \cup {FirstOf[t]}
          /\ model_build_cost' = IF model_build_cost > ProcPool THEN ProcPool ELSE model_build_cost
          /\ Called(t, TRUE)
     ELSE Called(t, FALSE) /\ UNCHANGED <<exeroots, model_build_cost>>
  /\ UNCHANGED <<tests, procs_avail, producer, file, submits>>

XmlFails(t) ==
  /\ InPhase(t, XML_PHASE)
  /\ "phase" \in Faults
  /\ Called(t, FALSE)
  /\ UNCHANGED <<tests, procs_avail, model_build_cost, exeroots, producer, file, submits>>

(* case.setup records its own outcome; a fatal error of the comparison of  *)
(* namelists after it fails the phase and records nothing.                 *)
Setup(t) ==
  /\ InPhase(t, SETUP_PHASE)
  /\ \/ Called(t, TRUE)  /\ file' = [file EXCEPT ![t] = SetStatus(@, SETUP_PHASE, "PASS")]
     \/ "phase" \in Faults
        /\ Called(t, FALSE) /\ file' = [file EXCEPT ![t] = SetStatus(@, SETUP_PHASE, "FAIL")]
     \/ "namelists" \in Faults
        /\ Called(t, FALSE) /\ file' = [file EXCEPT ![t] = SetStatus(@, SETUP_PHASE, "PASS")]
  /\ UNCHANGED <<tests, procs_avail, model_build_cost, exeroots, producer, submits>>

(* case.build of the first test of a group, for either build phase. *)
Build(t) ==
  \E phase \in {SHAREDLIB_BUILD_PHASE, MODEL_BUILD_PHASE} :
     /\ InPhase(t, phase)
     /\ IsFirst(t)
     /\ \/ Called(t, TRUE) /\ file' = [file EXCEPT ![t] = RanPhase(@, phase, "PASS")]
        \/ "phase" \in Faults
           /\ Called(t, FALSE) /\ file' = [file EXCEPT ![t] = RanPhase(@, phase, "FAIL")]
     /\ UNCHANGED <<tests, procs_avail, model_build_cost, exeroots, producer, submits>>

(* The other tests of a group take over the build of the first one. *)
TakeBuild(t) ==
  \E phase \in {SHAREDLIB_BUILD_PHASE, MODEL_BUILD_PHASE} :
     /\ InPhase(t, phase)
     /\ ~IsFirst(t)
     /\ \/ Called(t, TestStatusAt(FirstOf[t], phase) = "PASS")
        \/ "phase" \in Faults /\ phase = MODEL_BUILD_PHASE /\ Called(t, FALSE)
     /\ UNCHANGED <<tests, procs_avail, model_build_cost, exeroots, producer, file, submits>>

SkipRun(t) ==
  /\ InPhase(t, RUN_PHASE)
  /\ t \in BuildOnly
  /\ Called(t, TRUE)
  /\ file' = [file EXCEPT ![t] = SetStatus(SetStatus(@, SUBMIT_PHASE, "PASS"), RUN_PHASE, "PASS")]
  /\ UNCHANGED <<tests, procs_avail, model_build_cost, exeroots, producer, submits>>

(* With no batch system the job runs inside case.submit, which ignores how *)
(* it ended.                                                               *)
RunHere(t) ==
  /\ InPhase(t, RUN_PHASE)
  /\ t \notin BuildOnly
  /\ NoBatch
  /\ Called(t, TRUE)
  /\ \E status \in {"PASS"} \cup IF "phase" \in Faults THEN {"FAIL"} ELSE {} :
        file' = [file EXCEPT ![t] = RanPhase(Submitting(@), RUN_PHASE, status)]
  /\ UNCHANGED <<tests, procs_avail, model_build_cost, exeroots, producer, submits>>

Submit(t) ==
  /\ InPhase(t, RUN_PHASE)
  /\ t \notin BuildOnly
  /\ ~NoBatch
  /\ Called(t, TRUE)
  /\ file' = [file EXCEPT ![t] = Submitting(@)]
  /\ submits' = [submits EXCEPT ![t] = [queued |-> TRUE, count |-> @.count + 1]]
  /\ UNCHANGED <<tests, procs_avail, model_build_cost, exeroots, producer>>

SubmitFails(t) ==
  /\ InPhase(t, RUN_PHASE)
  /\ t \notin BuildOnly
  /\ "phase" \in Faults
  /\ Called(t, FALSE)
  /\ file' = [file EXCEPT ![t] = SetStatus(Submitting(@), SUBMIT_PHASE, "FAIL")]
  /\ UNCHANGED <<tests, procs_avail, model_build_cost, exeroots, producer, submits>>

(* An exception that _run_catch_exceptions cannot log ends the thread. *)
Die(t) ==
  /\ "log" \in Faults
  /\ threads[t].pc = "phase"
  /\ threads' = [threads EXCEPT ![t].pc = "dead"]
  /\ UNCHANGED <<tests, procs_avail, model_build_cost, exeroots, producer, file, submits>>
-----------------------------------------------------------------------------
(* The rest of _consumer. *)

FinalStatus(t) ==
  IF ~threads[t].success THEN "FAIL"
  ELSE IF threads[t].phase = RUN_PHASE /\ ~NoBatch THEN "PEND" ELSE "PASS"

(* The phases whose outcome the scheduler itself writes to TestStatus. *)
\* Variant: a build taken over is not recorded.
WritesFileNoGroup(t) == threads[t].phase \in {CREATE_NEWCASE_PHASE, XML_PHASE}
\* Variant: XML is not recorded.
WritesFileNoXml(t) == threads[t].phase = CREATE_NEWCASE_PHASE
WritesFile(t) ==
  \/ threads[t].phase \in {CREATE_NEWCASE_PHASE, XML_PHASE}
  \/ ~IsFirst(t) /\ threads[t].phase \in {SHAREDLIB_BUILD_PHASE, MODEL_BUILD_PHASE}

(* On a batch system a test is submitted as soon as its model is built. *)
SubmitsNow(t) ==
  /\ threads[t].success
  /\ LastPhase = RUN_PHASE
  /\ ~NoBatch
  /\ threads[t].phase = MODEL_BUILD_PHASE

(* _update_test_status, then the TestStatus file; either may raise, which  *)
(* ends the thread where it stands.                                        *)
Finish(t) ==
  LET phase   == threads[t].phase
      status  == FinalStatus(t)
      updated == status = "PEND" \/ CanUpdate(t, phase, status)
      written == ~WritesFile(t) \/ CanSetStatus(file[t], phase)
  IN  /\ threads[t].pc = "finish"
      /\ tests' = IF status # "PEND" /\ updated
                  THEN [tests EXCEPT ![t] = [phase |-> phase, status |-> status]]
                  ELSE tests
      /\ file' = IF updated /\ WritesFile(t) /\ written
                 THEN [file EXCEPT ![t] = SetStatus(@, phase, status)]
                 ELSE file
      /\ threads' = [threads EXCEPT ![t].pc =
                       IF updated /\ written /\ SubmitsNow(t) THEN "chain" ELSE "dead"]
      /\ UNCHANGED <<procs_avail, model_build_cost, exeroots, producer, submits>>

\* Variant: the test is not recorded as running.
ChainUnrecorded(t) ==
  /\ threads[t].pc = "chain"
  /\ threads' = [threads EXCEPT ![t].pc = "phase", ![t].phase = RUN_PHASE, ![t].success = FALSE]
  /\ UNCHANGED <<tests, procs_avail, model_build_cost, exeroots, producer, file, submits>>

(* The nested call of _consumer for the RUN phase. *)
Chain(t) ==
  /\ threads[t].pc = "chain"
  /\ IF CanUpdate(t, RUN_PHASE, "PEND")
     THEN /\ tests' = [tests EXCEPT ![t] = [phase |-> RUN_PHASE, status |-> "PEND"]]
          /\ threads' = [threads EXCEPT ![t].pc = "phase", ![t].phase = RUN_PHASE,
                                        ![t].success = FALSE]
     ELSE /\ threads' = [threads EXCEPT ![t].pc = "dead"]
          /\ UNCHANGED tests
  /\ UNCHANGED <<procs_avail, model_build_cost, exeroots, producer, file, submits>>
-----------------------------------------------------------------------------
(* The batch system runs a queued test; the test records its RUN phase. *)
BatchJob(t) ==
  /\ submits[t].queued
  /\ \E status \in {"PASS"} \cup IF "phase" \in Faults THEN {"FAIL"} ELSE {} :
        file' = [file EXCEPT ![t] = RanPhase(@, RUN_PHASE, status)]
  /\ submits' = [submits EXCEPT ![t].queued = FALSE]
  /\ UNCHANGED <<tests, procs_avail, model_build_cost, exeroots, threads, producer>>

ProducerNext ==
  \/ \E t \in Tests : Skip(t) \/ Full(t) \/ Abort(t) \/ Launch(t) \/ Defer(t) \/ Refuse(t)
  \/ EndScan
  \/ Reap
  \/ Join
  \/ WaitForTests

ConsumerNext(t) ==
  \/ CreateNewcase(t) \/ Xml(t) \/ XmlFails(t) \/ Setup(t) \/ Build(t) \/ TakeBuild(t)
  \/ SkipRun(t) \/ RunHere(t) \/ Submit(t) \/ SubmitFails(t) \/ Die(t)
  \/ Finish(t)
  \/ Chain(t)

(* create_test is over and so is all it started. *)
Over ==
  /\ producer.pc \in {"exit", "aborted"}
  /\ \A t \in Tests : threads[t].pc \in {"none", "dead"} /\ ~submits[t].queued

Next ==
  \/ ProducerNext
  \/ \E t \in Tests : ConsumerNext(t) \/ BatchJob(t)
  \/ Poll /\ UNCHANGED vars
  \/ Over /\ UNCHANGED vars

(* Threads are scheduled fairly, every command a phase runs ends, and the  *)
(* batch system runs what is queued.                                       *)
Fairness ==
  /\ WF_vars(ProducerNext)
  /\ \A t \in Tests : WF_vars(ConsumerNext(t)) /\ WF_vars(BatchJob(t))

Spec == Init /\ [][Next]_vars /\ Fairness
-----------------------------------------------------------------------------
(* Every variable keeps its type: in particular procs_avail never goes     *)
(* below zero nor above the pool, whatever the order of launches and reaps.*)
TypeOK ==
  /\ tests \in [Tests -> [phase : Phases, status : Statuses]]
  /\ procs_avail \in 0 .. ProcPool
  /\ model_build_cost \in 1 .. ModelBuildCost
  /\ exeroots \subseteq Tests
  /\ threads \in [Tests -> Threads]
  /\ producer \in Producer
  /\ file \in [Tests -> [CORE_PHASES -> FileStatuses]]
  /\ submits \in [Tests -> [queued : BOOLEAN, count : Nat]]

(* _proc_pool is neither leaked nor oversubscribed: what is available and  *)
(* what the threads in flight hold always make up the pool.                *)
ProcsAccounted == procs_avail + Cardinality(Held(in_flight)) = ProcPool

(* "Oversubscribed?": no more consumers than _parallel_jobs, and, outside  *)
(* e3sm, sharedlib builds one at a time (they share a directory).          *)
Throttled ==
  /\ Cardinality(in_flight) <= ParallelJobs
  /\ ~IsE3SM => \A t, u \in in_flight :
       threads[t].phase = SHAREDLIB_BUILD_PHASE /\ threads[u].phase = SHAREDLIB_BUILD_PHASE
         => t = u

(* "By the end of this constructor, this program should never hard abort": *)
(* no expectation of the producer fails, so a test without a thread is     *)
(* never left pending before its last phase.                               *)
NoHardAbort == producer.pc # "aborted"

(* The thread of a phase always finds the file ready for it: the core      *)
(* phase before has passed in the file too, so that set_status, called by  *)
(* the phase's command or by the scheduler, does not refuse the update.    *)
FileKeepsUp ==
  \A t \in Tests :
    /\ threads[t].pc = "phase" =>
         CanSetStatus(file[t], IF threads[t].phase = RUN_PHASE THEN SUBMIT_PHASE
                               ELSE threads[t].phase)
    /\ threads[t].pc = "finish" /\ WritesFile(t) => CanSetStatus(file[t], threads[t].phase)

(* A test that takes over the first test's build works only after that     *)
(* build ended, and finds the EXEROOT the first one published.             *)
BuildIsThere ==
  \A t \in Tests : ~IsFirst(t) /\ threads[t].pc = "phase" =>
    /\ threads[t].phase \in {XML_PHASE, SHAREDLIB_BUILD_PHASE, MODEL_BUILD_PHASE} =>
         TestStatusAt(FirstOf[t], threads[t].phase) # "PEND"
    /\ threads[t].phase = XML_PHASE /\ TestStatusAt(FirstOf[t], XML_PHASE) = "PASS" =>
         FirstOf[t] \in exeroots

(* When the producer has joined its threads, no test is left half way, and *)
(* each is broken in memory exactly if a phase of the scheduler failed it  *)
(* in the file; a run that the scheduler does not follow is the exception. *)
ErrorsInTestStatus ==
  producer.pc \in {"wait_for_tests", "exit"} =>
    \A t \in Tests :
      /\ ~WorkRemains(t)
      /\ tests[t].status = "FAIL" => CoreStatus(file[t], FALSE) = "FAIL"
      /\ CoreStatus(file[t], FALSE) = "FAIL" =>
           tests[t].status = "FAIL" \/ file[t][RUN_PHASE] = "FAIL"

(* However the producer and the consumer that submits by itself interleave, *)
(* a test goes to the queue at most once.                                  *)
SubmittedOnce == \A t \in Tests : submits[t].count <= 1

(* "Import for potential subsequent waits": wait_for_tests never returns   *)
(* while a job that this create_test submitted is still in the queue.      *)
WaitedForJobs ==
  producer.pc = "exit" /\ Wait => \A t \in Tests : ~submits[t].queued

(* A test is refused for want of processors only if it really can never    *)
(* run: its RUN phase needs more than the pool, or the first test of its   *)
(* build group is broken.                                                  *)
RefusedOnlyIfHopeless ==
  [][\A t \in Tests : Refuse(t) =>
       \/ NextPhase(tests[t].phase) = RUN_PHASE /\ TotalPes[t] > ProcPool
       \/ ~IsFirst(t) /\ tests[FirstOf[t]].status = "FAIL"]_vars

(* create_test comes to its end, and waits no longer than its tests take. *)
SchedulerEnds == <>(producer.pc = "exit")
=============================================================================
