------------------------------ MODULE BatchTest -----------------------------
(***************************************************************************)
(* One test of create_test --wait on a batch system, from its first        *)
(* case.submit on.  A test with RESUBMIT = n is run by n + 1 case.test     *)
(* jobs; each of them but the last is followed by a resubmission, which is *)
(* done by the case.st_archive job that depends on it when DOUT_S is set,  *)
(* and by case_run inside the job otherwise.  All of them, the submitter   *)
(* and wait_for_tests share the TestStatus file: a case.test job reads it  *)
(* once, when the test object is made, and from then on writes its own     *)
(* copy back whenever it changes a phase.                                  *)
(***************************************************************************)
EXTENDS TestStatus, FiniteSets

CONSTANTS
  Resubmits,    \* RESUBMIT in the test's entry of config_tests.xml
  Archive,      \* DOUT_S of the case
  CompareTwo,   \* a multisubmit SystemTestsCompareTwo: ERR, ERRI, PET
  Baseline,     \* COMPARE_BASELINE: results are compared with a baseline
  MaxRetries,   \* bound on how often create_test --retry comes back
  Faults        \* which of the failures of FaultKinds can happen

(* "submit": the batch system refuses a job; "archive": it takes the       *)
(* case.test job and refuses the case.st_archive job submitted with it;    *)
(* "st_archive": case.st_archive runs and fails, before it resubmits;      *)
(* "init", "run", "post": the constructor of the test, the model, the      *)
(* checks after the model fail; "compare", "baseline": results differ.     *)
FaultKinds == {"submit", "archive", "st_archive", "init", "run", "post", "compare", "baseline"}

ASSUME BatchAssumption ==
  /\ Resubmits \in Nat
  /\ MaxRetries \in Nat
  /\ {Archive, CompareTwo, Baseline} \subseteq BOOLEAN
  /\ CompareTwo => Resubmits = 1
  /\ Faults \subseteq FaultKinds

VARIABLES
  file,        \* the TestStatus file
  xml,         \* RESUBMIT and IS_FIRST_RUN in the case's xml files
  submission,  \* how far the submission of each case.test job has got, and
               \* "unarchived" if its case.st_archive job failed
  jobs,        \* the case.test jobs
  verdict,     \* what wait_for_tests returned, or "none"
  retries      \* times create_test came back

vars == <<file, xml, submission, jobs, verdict, retries>>

(* One more than RESUBMIT allows, so that a job too many would be seen. *)
Jobs == 1 .. Resubmits + 2

Phases == CORE_PHASES \cup LATER_PHASES

(* A case.test job: queued, its test object made ("started"), its RUN      *)
(* phase pending ("running"), the model run, the two runs compared, the    *)
(* rest done or given up ("ending"), and how it exited.  mem is its copy   *)
(* of the file, left is RESUBMIT when it began, failed is what went wrong. *)
JobPCs == {"none", "queued", "started", "running", "ran", "compared", "ending",
           "passed", "failed"}
Job    == [pc : JobPCs, mem : [Phases -> FileStatuses], left : 0 .. Resubmits,
           failed : SUBSET {"run", "compare", "baseline"}]

(* A test that is built and about to be submitted. *)
Built == [p \in Phases |-> CASE p < SUBMIT_PHASE -> "PASS"
                             [] p = SUBMIT_PHASE -> "PEND"
                             [] OTHER            -> NoStatus]
NoJob == [pc |-> "none", mem |-> Built, left |-> 0, failed |-> {}]

NotSubmitted == [k \in Jobs |-> "none"]
NoJobs       == [k \in Jobs |-> NoJob]

Init ==
  /\ file = Built
  /\ xml = [resubmit |-> Resubmits, first |-> TRUE]
  /\ submission = NotSubmitted
  /\ jobs = NoJobs
  /\ verdict = "none"
  /\ retries = 0

Alive(k) == jobs[k].pc \notin {"none", "passed", "failed"}

(* do_baseline_ops, or the second phase of a multisubmit comparison. *)
\* Variant: the last run but one counts as the last.
FinalTooEarly(k) == jobs[k].left <= 1
Final(k) == jobs[k].left = 0
-----------------------------------------------------------------------------
(* case.submit, of job k.  The phase SUBMIT is taken for granted; then the *)
(* xml files are written; then the job is queued.  js are the jobs as they *)
(* are without it, ts the file.                                            *)

(* With DOUT_S a case.st_archive job is submitted next, in SubmitArchive. *)
Accepted(k, ts, subs, js) ==
  /\ file' = Submitting(ts)
  /\ submission' = [subs EXCEPT ![k] = IF Archive THEN "half" ELSE "done"]
  /\ jobs' = [js EXCEPT ![k].pc = "queued"]

Rejected(k, ts, subs, js) ==
  /\ "submit" \in Faults
  /\ file' = SetStatus(Submitting(ts), SUBMIT_PHASE, "FAIL")
  /\ submission' = [subs EXCEPT ![k] = "failed"]
  /\ jobs' = js

(* What a resubmission does to the xml files. *)
Resubmitted == [resubmit |-> xml.resubmit - 1, first |-> FALSE]

(* create_test submits the test. *)
SubmitFirst ==
  /\ submission[1] = "none"
  /\ xml' = [xml EXCEPT !.first = TRUE]
  /\ Accepted(1, file, submission, jobs) \/ Rejected(1, file, submission, jobs)
  /\ UNCHANGED <<verdict, retries>>

(* The rest of submit_jobs; its failure is put down to the SUBMIT phase    *)
(* while the case.test job may well be running.                            *)
SubmitArchive(k) ==
  /\ submission[k] = "half"
  /\ \/ /\ submission' = [submission EXCEPT ![k] = "done"]
        /\ UNCHANGED file
     \/ /\ "archive" \in Faults
        /\ submission' = [submission EXCEPT ![k] = "failed"]
        /\ file' = SetStatus(file, SUBMIT_PHASE, "FAIL")
  /\ UNCHANGED <<xml, jobs, verdict, retries>>

(* The case.st_archive job waits for its case.test job to succeed. *)
\* Variant: it does not wait.
DependencyIgnored(k) == jobs[k].pc \notin {"none", "queued"}
DependencyMet(k) == jobs[k].pc = "passed"

MoreRuns == xml.resubmit > 0

(* case.st_archive archives and resubmits.  When archiving raises, or one  *)
(* of its expects does, it ends before the resubmission, and leaves        *)
(* TestStatus as it is.                                                    *)
StArchive(k) ==
  /\ submission[k] = "done"
  /\ Archive
  /\ DependencyMet(k)
  /\ k + 1 \in Jobs /\ submission[k + 1] = "none"
  /\ MoreRuns
  /\ \/ /\ xml' = Resubmitted
        /\ Accepted(k + 1, file, submission, jobs) \/ Rejected(k + 1, file, submission, jobs)
     \/ /\ "st_archive" \in Faults
        /\ submission' = [submission EXCEPT ![k] = "unarchived"]
        /\ UNCHANGED <<file, xml, jobs>>
  /\ UNCHANGED <<verdict, retries>>
-----------------------------------------------------------------------------
(* A case.test job: SystemTestsCommon.__init__ and run. *)

Start(k) ==
  /\ jobs[k].pc = "queued"
  /\ jobs' = [jobs EXCEPT ![k].pc = "started", ![k].mem = file]
  /\ UNCHANGED <<file, xml, submission, verdict, retries>>

(* The constructor fails: case_test.py marks the phase on a fresh copy. *)
InitFails(k) ==
  /\ jobs[k].pc = "queued"
  /\ "init" \in Faults
  /\ CanSetStatus(file, RUN_PHASE)
  /\ file' = SetStatus(file, RUN_PHASE, "FAIL")
  /\ jobs' = [jobs EXCEPT ![k].pc = "failed", ![k].failed = {"run"}]
  /\ UNCHANGED <<xml, submission, verdict, retries>>

(* _resetup_case: a RUN phase that ended is run again from the start. *)
Resets(k) == xml.first /\ jobs[k].mem[RUN_PHASE] # "PEND"
ResubmitAtStart(k) == IF Resets(k) THEN Resubmits ELSE xml.resubmit

(* The first of two runs makes sure that the comparison is waited for. *)
Beginning(ts, left) ==
  LET ts1 == SetStatus(ts, RUN_PHASE, "PEND")
  IN  IF CompareTwo /\ left = 1 THEN SetStatus(ts1, COMPARE_PHASE, "PEND") ELSE ts1

(* The start of run; set_status refuses to if SUBMIT was marked as failed. *)
Begin(k) ==
  /\ jobs[k].pc = "started"
  /\ xml' = [xml EXCEPT !.resubmit = ResubmitAtStart(k)]
  /\ IF CanSetStatus(jobs[k].mem, RUN_PHASE)
     THEN LET ts == Beginning(jobs[k].mem, xml'.resubmit)
          IN  /\ file' = ts
              /\ jobs' = [jobs EXCEPT ![k].pc = "running", ![k].mem = ts,
                                      ![k].left = xml'.resubmit]
     ELSE /\ jobs' = [jobs EXCEPT ![k].pc = "failed", ![k].failed = {"run"}]
          /\ file' = jobs[k].mem
  /\ UNCHANGED <<submission, verdict, retries>>

(* The jobs when the run of job k goes wrong: run only writes the status. *)
GivenUp(k) == [jobs EXCEPT ![k].pc = "ending", ![k].failed = @ \cup {"run"}]

ModelFails(k) ==
  /\ jobs[k].pc = "running"
  /\ "run" \in Faults
  /\ jobs' = GivenUp(k)
  /\ UNCHANGED <<file, xml, submission, verdict, retries>>

(* case_run: the model, then _resubmit_check. *)
RunModel(k) ==
  LET ran == [jobs EXCEPT ![k].pc = "ran"]
  IN  /\ jobs[k].pc = "running"
      /\ IF ~Archive /\ MoreRuns /\ k + 1 \in Jobs
         THEN /\ xml' = Resubmitted
              /\ \/ Accepted(k + 1, file, submission, ran)
                 \/ Rejected(k + 1, file, submission, GivenUp(k))
         ELSE jobs' = ran /\ UNCHANGED <<file, xml, submission>>
      /\ UNCHANGED <<verdict, retries>>

(* Write the copy ts of job k, which goes on as pc. *)
Write(k, ts, pc, failed) ==
  /\ file' = ts
  /\ jobs' = [jobs EXCEPT ![k].pc = pc, ![k].mem = ts, ![k].failed = @ \cup failed]
  /\ UNCHANGED <<xml, submission, verdict, retries>>

Outcomes(fault, bad) == {<<"PASS", {}>>} \cup IF fault \in Faults THEN {<<"FAIL", {bad}>>} ELSE {}

(* The check of the coupler log, then the comparison of the two runs. *)
PostFails(k) ==
  /\ jobs[k].pc = "ran"
  /\ "post" \in Faults
  /\ jobs' = GivenUp(k)
  /\ UNCHANGED <<file, xml, submission, verdict, retries>>

Compare(k) ==
  /\ jobs[k].pc = "ran"
  /\ IF CompareTwo /\ Final(k)
     THEN \E o \in Outcomes("compare", "compare") :
             Write(k, SetStatus(jobs[k].mem, COMPARE_PHASE, o[1]), "compared", o[2])
     ELSE Write(k, jobs[k].mem, "compared", {})

(* do_baseline_ops: the last job compares, the others promise that one     *)
(* will.  The memory-leak and archive checks write the file in any case.   *)
CompareBaseline(k) ==
  /\ jobs[k].pc = "compared"
  /\ IF ~Baseline THEN Write(k, jobs[k].mem, "ending", {})
     ELSE IF Final(k)
          THEN \E o \in Outcomes("baseline", "baseline") :
                  Write(k, SetStatus(jobs[k].mem, BASELINE_PHASE, o[1]), "ending", o[2])
          ELSE Write(k, SetStatus(jobs[k].mem, BASELINE_PHASE, "PEND"), "ending", {})

(* The finally clause of run, and the exit of the job. *)
End(k) ==
  /\ jobs[k].pc = "ending"
  /\ IF "run" \in jobs[k].failed
     THEN Write(k, SetStatus(jobs[k].mem, RUN_PHASE, "FAIL"), "failed", {})
     ELSE Write(k, SetStatus(jobs[k].mem, RUN_PHASE, "PASS"), "passed", {})
-----------------------------------------------------------------------------
(* wait_for_test reads the file until it is not pending any more. *)
Waiting == verdict = "none" /\ submission[1] \notin {"none", "half"}

Poll == Waiting /\ OverallStatus(file, TRUE) = "PEND"

WaitForTest ==
  /\ Waiting
  /\ OverallStatus(file, TRUE) # "PEND"
  /\ verdict' = OverallStatus(file, TRUE)
  /\ UNCHANGED <<file, xml, submission, jobs, retries>>

(* The constructor of TestScheduler with use_existing makes the phase that *)
(* failed pending.                                                         *)
Resumed(ts) ==
  LET failed == {p \in CORE_PHASES : ts[p] = "FAIL"}
  IN  SetStatus(ts, CHOOSE p \in failed : \A q \in failed : p <= q, "PEND")

(* create_test --retry submits a test again whose SUBMIT or RUN failed. *)
Retry ==
  /\ retries < MaxRetries
  /\ verdict = "FAIL"
  /\ CoreStatus(file, FALSE) = "FAIL"
  /\ \A k \in Jobs : ~Alive(k) /\ submission[k] # "half"
  /\ retries' = retries + 1
  /\ verdict' = "none"
  /\ xml' = [xml EXCEPT !.first = TRUE]
  /\ \/ Accepted(1, Resumed(file), NotSubmitted, NoJobs)
     \/ Rejected(1, Resumed(file), NotSubmitted, NoJobs)

JobNext(k) ==
  \/ Start(k) \/ InitFails(k) \/ Begin(k)
  \/ ModelFails(k) \/ RunModel(k) \/ PostFails(k)
  \/ Compare(k) \/ CompareBaseline(k) \/ End(k)

Over == verdict # "none" /\ \A k \in Jobs : ~Alive(k) /\ submission[k] # "half"

Next ==
  \/ SubmitFirst
  \/ \E k \in Jobs : SubmitArchive(k) \/ StArchive(k) \/ JobNext(k)
  \/ WaitForTest
  \/ Retry
  \/ (Poll \/ Over) /\ UNCHANGED vars

(* The batch system runs what it accepted, every program ends, and         *)
(* wait_for_tests looks at the file again and again.                       *)
Fairness ==
  /\ WF_vars(SubmitFirst)
  /\ \A k \in Jobs : WF_vars(SubmitArchive(k)) /\ WF_vars(StArchive(k)) /\ WF_vars(JobNext(k))
  /\ WF_vars(WaitForTest)

Spec == Init /\ [][Next]_vars /\ Fairness
-----------------------------------------------------------------------------
(* A case.test job that writes its whole copy back loses nothing: from the *)
(* time it read the file to its end, its copy is what the file holds.      *)
CopyIsCurrent ==
  \A k \in Jobs : Alive(k) /\ jobs[k].pc # "queued" => jobs[k].mem = file

(* "Other submissions will need to mark those phases as PEND to ensure     *)
(* wait_for_tests waits for them": no good verdict while a job of the test *)
(* is queued or running, or is still to be submitted.                      *)
WaitedForAllJobs ==
  verdict \in {"PASS", "DIFF"} =>
    \A k \in Jobs : ~Alive(k) /\ (jobs[k].pc = "passed" => Final(k) \/ jobs[k + 1].pc = "passed")

(* "This is necessary if user is re-running an already-run phase": a first *)
(* run of a test that had been run before starts over, with all its        *)
(* resubmissions to come.                                                  *)
RerunStartsOver ==
  [][\A k \in Jobs : Begin(k) /\ xml.first => xml'.resubmit = Resubmits]_vars

(* "If something failed in the batch system, make sure to mark the test as *)
(* failed": once a submission failed the test stays failed.                *)
SubmitFailureMarked ==
  (\E k \in Jobs : submission[k] = "failed") => CoreStatus(file, TRUE) = "FAIL"
-----------------------------------------------------------------------------
(* The refinement of TestPromise.  Until the first job has begun, the runs *)
(* to come are those its _resetup_case will plan.                          *)
Result ==
  LET bad == UNION {jobs[k].failed : k \in Jobs}
  IN  IF (\E k \in Jobs : submission[k] = "failed") \/ bad \cap {"run", "compare"} # {} THEN "FAIL"
      ELSE IF "baseline" \in bad THEN "DIFF"
      ELSE "PASS"

Planned ==
  1 + (IF jobs[1].pc \notin {"none", "queued", "started"} THEN jobs[1].left
       ELSE IF file[RUN_PHASE] \in {"PASS", "FAIL"} THEN Resubmits ELSE xml.resubmit)

Todo == IF Result = "FAIL" THEN 0
        ELSE Planned - Cardinality({k \in Jobs : jobs[k].pc = "passed"})

Promise == INSTANCE TestPromise WITH
  MaxRuns <- Resubmits + 1, todo <- Todo, result <- Result

(* The rest of the test was never submitted, and nothing says so. *)
ArchivingFailed == \E k \in Jobs : submission[k] = "unarchived"

(* wait_for_tests tells the worst that happened, and only when nothing is  *)
(* to come or a failure ended the test, archiving that fails included; and *)
(* it always tells in the end, unless archiving failed: then the phases    *)
(* left pending for the runs to come stay so, and it is waited for ever.   *)
KeepsPromise == Promise!Safety /\ []<>(Promise!Told \/ ArchivingFailed)
=============================================================================
