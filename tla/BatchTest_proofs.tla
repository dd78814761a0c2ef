-------------------------- MODULE BatchTest_proofs --------------------------
(***************************************************************************)
(* Proofs about BatchTest, for any RESUBMIT, any number of retries and any *)
(* failures but that of half a submission; archiving may fail.             *)
(*                                                                         *)
(* They rest on one inductive invariant, InARow: when st_archive resubmits *)
(* (DOUT_S set), the jobs of a test run in a row.  At a place n of the     *)
(* row, the jobs before n have passed with runs to come after them, those  *)
(* after n do not exist, and the file is what job n makes of it:           *)
(* Recorded gives its contents from the progress of that one job.          *)
(* Countdown ties RESUBMIT in the xml files to the number of the job.      *)
(***************************************************************************)
EXTENDS BatchTest, FiniteSetTheorems, TLAPS

(* What wait_for_tests needs: jobs in a row, each submitted by the         *)
(* case.st_archive job of the one before, whose submission never fails     *)
(* half-way, and something pending between any two of them.                *)
InTurn     == Archive /\ "archive" \notin Faults
Watched    == Baseline \/ CompareTwo \/ Resubmits = 0
OneAtATime == InTurn /\ Watched

(* The test has been given up, or has been told about. *)
Closed(v) == v = "FAIL" \/ (Watched /\ v # "none")

(* The contents of the file. *)
File(run, compare, baseline) ==
  [p \in Phases |-> CASE p < RUN_PHASE     -> "PASS"
                      [] p = RUN_PHASE     -> run
                      [] p = COMPARE_PHASE -> compare
                      [] OTHER             -> baseline]
RefusedFile ==
  [p \in Phases |-> CASE p < SUBMIT_PHASE -> "PASS"
                      [] p = SUBMIT_PHASE -> "FAIL"
                      [] OTHER            -> NoStatus]

(* The phases as numbers. *)
LEMMA PhaseFacts ==
  /\ Phases = 1 .. 9 /\ CORE_PHASES = 1 .. 7 /\ LATER_PHASES = 8 .. 9
  /\ CREATE_NEWCASE_PHASE = 1 /\ SUBMIT_PHASE = 6 /\ RUN_PHASE = 7 /\ COMPARE_PHASE = 8
  /\ BASELINE_PHASE = 9
  BY DEF Phases, CORE_PHASES, LATER_PHASES, CREATE_NEWCASE_PHASE, SUBMIT_PHASE, RUN_PHASE,
         COMPARE_PHASE, BASELINE_PHASE

LEMMA FileFacts ==
  ASSUME NEW r \in FileStatuses, NEW c \in FileStatuses, NEW b \in FileStatuses
  PROVE  /\ File(r, c, b) \in [Phases -> FileStatuses]
         /\ File(r, c, b)[RUN_PHASE] = r /\ File(r, c, b)[COMPARE_PHASE] = c
         /\ File(r, c, b)[BASELINE_PHASE] = b
         /\ \A p \in 1 .. 6 : File(r, c, b)[p] = "PASS"
  BY PhaseFacts DEF File, FileStatuses, Statuses

(* What set_status and case.submit make of it. *)
LEMMA SetFile ==
  ASSUME NEW r \in FileStatuses, NEW c \in FileStatuses, NEW b \in FileStatuses, NEW s
  PROVE  /\ SetStatus(File(r, c, b), COMPARE_PHASE, s) = File(r, s, b)
         /\ SetStatus(File(r, c, b), BASELINE_PHASE, s) = File(r, c, s)
         /\ r \in {"PASS", "FAIL"} =>
              SetStatus(File(r, c, b), RUN_PHASE, s) = File(s, NoStatus, NoStatus)
         /\ r \notin {"PASS", "FAIL"} => SetStatus(File(r, c, b), RUN_PHASE, s) = File(s, c, b)
         /\ CanSetStatus(File(r, c, b), RUN_PHASE)
         /\ Submitting(File(r, c, b)) = File(r, c, b)
         /\ SetStatus(File(r, c, b), SUBMIT_PHASE, "FAIL") = RefusedFile
<1> DEFINE f == File(r, c, b)
<1>1. /\ DOMAIN f = Phases /\ f[RUN_PHASE] = r /\ f[COMPARE_PHASE] = c /\ f[BASELINE_PHASE] = b
      /\ \A p \in 1 .. 6 : f[p] = "PASS"
  BY FileFacts DEF File
<1> HIDE DEF f
<1>2. SetStatus(f, COMPARE_PHASE, s) = File(r, s, b)
  BY <1>1, PhaseFacts DEF SetStatus, ReranPhase, File
<1>3. SetStatus(f, BASELINE_PHASE, s) = File(r, c, s)
  BY <1>1, PhaseFacts DEF SetStatus, ReranPhase, File
<1>4. ASSUME r \in {"PASS", "FAIL"}
      PROVE  SetStatus(f, RUN_PHASE, s) = File(s, NoStatus, NoStatus)
  BY <1>1, <1>4, PhaseFacts DEF SetStatus, ReranPhase, File
<1>5. ASSUME r \notin {"PASS", "FAIL"}
      PROVE  SetStatus(f, RUN_PHASE, s) = File(s, c, b)
  BY <1>1, <1>5, PhaseFacts DEF SetStatus, ReranPhase, File
<1>6. CanSetStatus(f, RUN_PHASE) /\ Submitting(f) = f
  BY <1>1, PhaseFacts DEF CanSetStatus, Submitting
<1>7. SetStatus(f, SUBMIT_PHASE, "FAIL") = RefusedFile
  BY <1>1, PhaseFacts DEF SetStatus, ReranPhase, RefusedFile
<1> QED
  BY <1>2, <1>3, <1>4, <1>5, <1>6, <1>7 DEF f

(* A test that comes back, and a test that is new, when it is submitted. *)
LEMMA SubmitFile ==
  ASSUME NEW c \in FileStatuses, NEW b \in FileStatuses
  PROVE  /\ \A ts \in {Built, Resumed(RefusedFile), Resumed(File("FAIL", c, b))} :
              /\ Submitting(ts) = File("PEND", NoStatus, NoStatus)
              /\ SetStatus(Submitting(ts), SUBMIT_PHASE, "FAIL") = RefusedFile
<1> DEFINE new == File("PEND", NoStatus, NoStatus)
           half == [p \in Phases |-> CASE p < SUBMIT_PHASE -> "PASS"
                                       [] p = SUBMIT_PHASE -> "PEND"
                                       [] OTHER            -> NoStatus]
<1>1. Built = half
  BY DEF Built
<1>2. Resumed(RefusedFile) = half
  <2>1. DOMAIN RefusedFile = Phases /\ \A p \in Phases :
          RefusedFile[p] = IF p < 6 THEN "PASS" ELSE IF p = 6 THEN "FAIL" ELSE NoStatus
    BY PhaseFacts DEF RefusedFile
  <2>2. {p \in CORE_PHASES : RefusedFile[p] = "FAIL"} = {6}
    BY <2>1, PhaseFacts DEF NoStatus
  <2>3. (CHOOSE p \in {6} : \A q \in {6} : p <= q) = 6
    OBVIOUS
  <2>4. Resumed(RefusedFile) = SetStatus(RefusedFile, 6, "PEND")
    BY <2>2, <2>3 DEF Resumed
  <2> QED
    BY <2>1, <2>4, PhaseFacts DEF SetStatus, ReranPhase
<1>3. Resumed(File("FAIL", c, b)) = new
  <2> DEFINE f == File("FAIL", c, b)
  <2>1. DOMAIN f = Phases /\ f[7] = "FAIL" /\ \A p \in 1 .. 6 : f[p] = "PASS"
    BY FileFacts, PhaseFacts DEF File, FileStatuses, Statuses
  <2>2. SetStatus(f, 7, "PEND") = new
    BY SetFile, PhaseFacts DEF FileStatuses, Statuses
  <2> HIDE DEF f
  <2>3. {p \in CORE_PHASES : f[p] = "FAIL"} = {7}
    BY <2>1, PhaseFacts
  <2>4. (CHOOSE p \in {7} : \A q \in {7} : p <= q) = 7
    OBVIOUS
  <2>5. Resumed(f) = SetStatus(f, 7, "PEND")
    BY <2>3, <2>4 DEF Resumed
  <2> QED
    BY <2>2, <2>5 DEF f
<1>4. Submitting(new) = new /\ SetStatus(new, SUBMIT_PHASE, "FAIL") = RefusedFile
  BY SetFile DEF FileStatuses, Statuses
<1>5. Submitting(half) = new
  <2>1. SetStatus(half, SUBMIT_PHASE, "PASS") = new
    BY PhaseFacts DEF SetStatus, ReranPhase, File
  <2>2. half[SUBMIT_PHASE] # "PASS"
    BY PhaseFacts
  <2> HIDE DEF half
  <2> QED
    BY <2>1, <2>2 DEF Submitting
<1> HIDE DEF new, half
<1>6. ASSUME NEW ts \in {Built, Resumed(RefusedFile), Resumed(File("FAIL", c, b))}
      PROVE  Submitting(ts) = new /\ SetStatus(Submitting(ts), SUBMIT_PHASE, "FAIL") = RefusedFile
  BY <1>1, <1>2, <1>3, <1>4, <1>5
<1> QED
  BY <1>6 DEF new

(* What wait_for_tests makes of it. *)
Told(ts)  == OverallStatus(ts, TRUE)
Ended(ts) == CoreStatus(ts, FALSE)

LEMMA FileStatus ==
  ASSUME NEW r \in FileStatuses, NEW c \in FileStatuses, NEW b \in FileStatuses, r # NoStatus
  PROVE  /\ r \in {"PEND", "FAIL"} => Told(File(r, c, b)) = r
                                      /\ Ended(File(r, c, b)) = r
         /\ r = "PASS" =>
              /\ Ended(File(r, c, b)) = "PASS"
              /\ Told(File(r, c, b)) =
                   IF c = "PEND" \/ b = "PEND" THEN "PEND"
                   ELSE IF c = "FAIL" THEN "FAIL" ELSE IF b = "FAIL" THEN "DIFF" ELSE "PASS"
<1> DEFINE f == File(r, c, b)
           open == {p \in CORE_PHASES : f[p] \in {"PEND", "FAIL"}}
<1>1. /\ DOMAIN f = Phases /\ f[7] = r /\ f[8] = c /\ f[9] = b
      /\ \A p \in 1 .. 6 : f[p] = "PASS"
  BY FileFacts, PhaseFacts DEF File
<1> HIDE DEF f
<1>2. CASE r \in {"PEND", "FAIL"}
  <2>1. open = {7}
    BY <1>1, <1>2, PhaseFacts
  <2>2. (CHOOSE p \in {7} : \A q \in {7} : p <= q) = 7
    OBVIOUS
  <2>3. \A w \in BOOLEAN : CoreStatus(f, w) = r
    BY <1>1, <2>1, <2>2 DEF CoreStatus
  <2>4. Told(f) = r
    BY <1>2, <2>3 DEF Told, OverallStatus
  <2> QED
    BY <1>2, <2>3, <2>4 DEF f, Ended
<1>3. CASE r = "PASS"
  <2>1. open = {}
    BY <1>1, <1>3, PhaseFacts
  <2>2. CoreStatus(f, TRUE) = "PASS" /\ CoreStatus(f, FALSE) = "PASS"
    BY <1>1, <1>3, <2>1, PhaseFacts DEF CoreStatus, NoStatus
  <2>3. DOMAIN f \ CORE_PHASES = {8, 9} /\ {8, 9} \ {BASELINE_PHASE} = {8}
    BY <1>1, PhaseFacts
  <2>4. Told(f) =
          IF \E p \in {8, 9} : f[p] = "PEND" THEN "PEND"
          ELSE IF \E p \in {8} : f[p] = "FAIL" THEN "FAIL"
          ELSE IF \E p \in {8, 9} : f[p] = "FAIL" THEN "DIFF"
          ELSE "PASS"
    BY <2>2, <2>3 DEF Told, OverallStatus
  <2> QED
    BY <1>1, <1>3, <2>2, <2>4 DEF f, Ended
<1> QED
  BY <1>2, <1>3 DEF FileStatuses, Statuses

LEMMA RefusedStatus ==
  /\ RefusedFile \in [Phases -> FileStatuses]
  /\ Told(RefusedFile) = "FAIL" /\ CoreStatus(RefusedFile, TRUE) = "FAIL"
<1> DEFINE f == RefusedFile
           open == {p \in CORE_PHASES : f[p] \in {"PEND", "FAIL"}}
<1>1. f \in [Phases -> FileStatuses] /\ \A p \in Phases :
          f[p] = IF p < 6 THEN "PASS" ELSE IF p = 6 THEN "FAIL" ELSE NoStatus
  BY PhaseFacts DEF RefusedFile, FileStatuses, Statuses
<1> HIDE DEF f
<1>2. open = {6}
  BY <1>1, PhaseFacts DEF NoStatus
<1>3. (CHOOSE p \in {6} : \A q \in {6} : p <= q) = 6
  OBVIOUS
<1>4. CoreStatus(f, TRUE) = "FAIL"
  BY <1>1, <1>2, <1>3, PhaseFacts DEF CoreStatus
<1>5. Told(f) = "FAIL"
  BY <1>4 DEF Told, OverallStatus
<1> QED
  BY <1>1, <1>4, <1>5 DEF f

-----------------------------------------------------------------------------
(* The test at its n-th job, or before its first one. *)

CompareStatus(j) ==
  IF ~CompareTwo THEN NoStatus
  ELSE IF j.left > 0 THEN "PEND" ELSE IF "compare" \in j.failed THEN "FAIL" ELSE "PASS"

BaselineStatus(j) ==
  IF ~Baseline THEN NoStatus
  ELSE IF j.left > 0 THEN "PEND" ELSE IF "baseline" \in j.failed THEN "FAIL" ELSE "PASS"

Submissions == {"none", "half", "done", "failed", "unarchived"}

Typed ==
  /\ xml \in [resubmit : 0 .. Resubmits, first : BOOLEAN]
  /\ submission \in [Jobs -> Submissions]
  /\ jobs \in [Jobs -> Job]

(* The job has set its RUN phase, and so its number in the row. *)
Begun(j) == j.pc \notin {"none", "queued", "started", "failed"}

(* Jobs run in a row: each has passed, with more to come, before the next. *)
Row(n) ==
  /\ \A k \in Jobs : k < n => /\ jobs[k].pc = "passed" /\ jobs[k].failed = {}
                              /\ jobs[k].left > 0 /\ submission[k] = "done"
  /\ \A k \in Jobs : k > n => jobs[k] = NoJob
  /\ \A k \in Jobs : k > n + 1 => submission[k] = "none"
  /\ n > 0 => jobs[n].pc # "none" /\ submission[n] \in {"half", "done", "unarchived"}
  /\ submission[n + 1] \in {"none", "failed"}

(* The last job that was to be submitted was refused. *)
Stuck(n) == submission[n + 1] = "failed"

(* RESUBMIT counts down along the row. *)
Countdown(n) ==
  /\ \A k \in Jobs : k <= n /\ Begun(jobs[k]) => jobs[k].left = jobs[1].left - (k - 1)
  /\ n > 1 /\ ~Begun(jobs[n]) => xml.resubmit = jobs[1].left - (n - 1)
  /\ n > 1 => ~xml.first
  /\ n > 0 /\ Begun(jobs[n]) /\ ~Stuck(n) => xml.resubmit = jobs[n].left

(* What the file holds while job j, the n-th, gets on. *)
Recorded(j, n) ==
  CASE j.pc \in {"queued", "started"} ->
         /\ file = IF n = 1 THEN File("PEND", NoStatus, NoStatus)
                   ELSE File("PASS", CompareStatus(jobs[n - 1]), BaselineStatus(jobs[n - 1]))
         /\ j.failed = {}
    [] j.pc \in {"running", "ran"} ->
         /\ file = File("PEND", IF CompareTwo /\ j.left > 0 THEN "PEND" ELSE NoStatus, NoStatus)
         /\ j.failed = {}
    [] j.pc = "compared" ->
         file = File("PEND", CompareStatus(j), NoStatus) /\ j.failed \subseteq {"compare"}
    [] j.pc = "ending" /\ "run" \in j.failed ->
         \E c, b \in FileStatuses : file = File("PEND", c, b)
    [] j.pc = "ending" /\ "run" \notin j.failed ->
         file = File("PEND", CompareStatus(j), BaselineStatus(j))
    [] j.pc = "passed" ->
         file = File("PASS", CompareStatus(j), BaselineStatus(j)) /\ "run" \notin j.failed
    [] j.pc = "failed" ->
         "run" \in j.failed /\ \E c, b \in FileStatuses : file = File("FAIL", c, b)

(* Results that differ have been compared. *)
Compared(j) ==
  /\ "compare" \in j.failed => CompareTwo /\ j.left = 0
  /\ "baseline" \in j.failed => Baseline /\ j.left = 0

(* Nothing more will happen to the test. *)
Settled(n) ==
  \/ Stuck(n)
  \/ n > 0 /\ jobs[n].pc = "failed"
  \/ n > 0 /\ jobs[n].pc = "passed" /\ jobs[n].left = 0

At(n) ==
  /\ Typed /\ Row(n) /\ Countdown(n)
  /\ Stuck(n) => file = RefusedFile
                 /\ (n > 0 => jobs[n].pc = "passed" /\ jobs[n].left > 0 /\ jobs[n].failed = {})
  /\ ~Stuck(n) /\ n = 0 => file = Built
  /\ ~Stuck(n) /\ n > 0 => Recorded(jobs[n], n) /\ Compared(jobs[n])
  /\ n > 0 /\ jobs[n].pc \notin {"queued", "passed", "failed"} => jobs[n].mem = file
  /\ Closed(verdict) => Settled(n)

Places == 0 .. Resubmits + 1

(* The inductive invariant. *)
InARow == \E n \in Places : At(n)

(* Numbers and contents in range. *)
LEMMA PlaceFacts ==
  /\ Resubmits \in Nat /\ Jobs = 1 .. Resubmits + 2
  /\ \A n \in Places : n \in Nat /\ n + 1 \in Jobs /\ (n > 0 => n \in Jobs) /\ n <= Resubmits + 1
  BY BatchAssumption DEF Jobs, Places

LEMMA StatusFacts ==
  /\ NoStatus \in FileStatuses
  /\ {"PASS", "PEND", "FAIL"} \subseteq FileStatuses /\ NoStatus \notin {"PASS", "PEND", "FAIL"}
  /\ \A j : CompareStatus(j) \in FileStatuses /\ BaselineStatus(j) \in FileStatuses
  BY DEF FileStatuses, Statuses, NoStatus, CompareStatus, BaselineStatus

(* The one job that may still be in the queue or running. *)
LEMMA OnlyOne ==
  ASSUME NEW n \in Places, At(n), NEW k \in Jobs, Alive(k)
  PROVE  /\ k = n /\ n > 0 /\ ~Stuck(n)
         /\ ~Closed(verdict)
         /\ Recorded(jobs[n], n) /\ Compared(jobs[n])
<1>1. n \in Nat /\ k \in Nat /\ n + 1 \in Jobs
  BY PlaceFacts
<1>2. k = n
  <2>1. ~(k < n)
    BY DEF At, Row, Alive
  <2>2. ~(k > n)
    BY DEF At, Row, Alive, NoJob
  <2> QED
    BY <1>1, <2>1, <2>2
<1>3. n > 0
  BY <1>1, <1>2, PlaceFacts
<1>4. jobs[n].pc \notin {"none", "passed", "failed"}
  BY <1>2 DEF Alive
<1>5. ~Stuck(n)
  BY <1>3, <1>4 DEF At
<1> QED
  BY <1>2, <1>3, <1>4, <1>5 DEF At, Settled

(* Job n gets on, and nothing is submitted. *)
LEMMA JobGetsOn ==
  ASSUME NEW n \in Places, At(n), n > 0, Alive(n), NEW j \in Job,
         jobs' = [jobs EXCEPT ![n] = j], submission' = submission, verdict' = verdict,
         xml' \in [resubmit : 0 .. Resubmits, first : BOOLEAN], xml'.first = xml.first,
         j.pc # "none",
         Begun(jobs[n]) => j.left = jobs[n].left /\ xml'.resubmit = xml.resubmit,
         ~Begun(jobs[n]) /\ Begun(j) => j.left = xml.resubmit /\ xml'.resubmit = xml.resubmit,
         ~Begun(jobs[n]) /\ ~Begun(j) => xml'.resubmit = xml.resubmit,
         Recorded(j, n)', Compared(j),
         j.pc \notin {"queued", "passed", "failed"} => j.mem = file'
  PROVE  At(n)'
<1>1. n \in Nat /\ n \in Jobs /\ n + 1 \in Jobs /\ n + 1 # n /\ 1 \in Jobs /\ Resubmits \in Nat
  BY PlaceFacts
<1>2. ~Stuck(n) /\ ~Closed(verdict)
  BY <1>1, OnlyOne
<1>3. jobs \in [Jobs -> Job] /\ jobs'[n] = j /\ \A k \in Jobs : k # n => jobs'[k] = jobs[k]
  BY <1>1 DEF At, Typed
<1>4. Typed'
  BY <1>3 DEF At, Typed
<1>5. Row(n)'
  <2>1. ASSUME NEW k \in Jobs, k < n
        PROVE  /\ jobs'[k].pc = "passed" /\ jobs'[k].failed = {}
               /\ jobs'[k].left > 0 /\ submission'[k] = "done"
    <3>1. jobs'[k] = jobs[k]
      BY <1>1, <1>3, <2>1, PlaceFacts
    <3> QED
      BY <2>1, <3>1 DEF At, Row
  <2>2. ASSUME NEW k \in Jobs, k > n
        PROVE  jobs'[k] = NoJob
    <3>1. jobs'[k] = jobs[k]
      BY <1>1, <1>3, <2>2, PlaceFacts
    <3> QED
      BY <2>2, <3>1 DEF At, Row
  <2>3. \A k \in Jobs : k > n + 1 => submission'[k] = "none"
    BY DEF At, Row
  <2>4. submission'[n] \in {"half", "done", "unarchived"} /\ submission'[n + 1] \in {"none", "failed"}
    BY DEF At, Row
  <2> QED
    BY <1>3, <2>1, <2>2, <2>3, <2>4 DEF Row
<1>6. Stuck(n)' <=> Stuck(n)
  BY DEF Stuck
<1>7. Countdown(n)'
  <2>0. \A k \in Jobs : k \in Int /\ jobs[k].left \in Int
    BY <1>1, PlaceFacts DEF At, Typed, Job
  <2>00. j.left \in Int /\ xml.resubmit \in Int /\ xml'.resubmit \in Int
    BY <1>1 DEF Job, At, Typed
  <2>1. Begun(j) => j.left = jobs'[1].left - (n - 1)
    <3>1. CASE n = 1
      BY <1>1, <1>3, <2>00, <3>1
    <3>2. CASE n > 1
      <4>1. jobs'[1] = jobs[1]
        BY <1>1, <1>3, <3>2
      <4> QED
        BY <1>1, <3>2, <4>1 DEF At, Countdown
    <3> QED
      BY <1>1, <3>1, <3>2
  <2>2. ASSUME NEW k \in Jobs, k <= n, Begun(jobs'[k])
        PROVE  jobs'[k].left = jobs'[1].left - (k - 1)
    <3>1. CASE k = n
      BY <1>3, <2>1, <2>2, <3>1
    <3>2. CASE k # n
      <4>1. jobs'[k] = jobs[k] /\ k < n /\ n # 1
        BY <1>1, <1>3, <2>0, <2>2, <3>2, PlaceFacts
      <4>2. jobs'[1] = jobs[1]
        BY <1>1, <1>3, <4>1
      <4> QED
        BY <2>2, <4>1, <4>2 DEF At, Countdown
    <3> QED
      BY <3>1, <3>2
  <2>3. n > 1 /\ ~Begun(j) => xml'.resubmit = jobs'[1].left - (n - 1)
    <3> SUFFICES ASSUME n > 1, ~Begun(j)
                 PROVE  xml'.resubmit = jobs'[1].left - (n - 1)
      OBVIOUS
    <3>1. jobs'[1] = jobs[1]
      BY <1>1, <1>3
    <3>2. CASE Begun(jobs[n])
      <4>1. xml.resubmit = jobs[n].left
        BY <1>2, <3>2 DEF At, Countdown
      <4>2. jobs[n].left = jobs[1].left - (n - 1)
        BY <1>1, <3>2 DEF At, Countdown
      <4> QED
        BY <3>1, <3>2, <4>1, <4>2
    <3>3. CASE ~Begun(jobs[n])
      BY <3>1, <3>3 DEF At, Countdown
    <3> QED
      BY <3>2, <3>3
  <2>4. Begun(j) => xml'.resubmit = j.left
    BY <1>2 DEF At, Countdown
  <2>5. n > 1 => ~xml'.first
    BY DEF At, Countdown
  <2> HIDE DEF Begun
  <2> QED
    BY <1>3, <2>2, <2>3, <2>4, <2>5 DEF Countdown
<1> QED
  BY <1>2, <1>3, <1>4, <1>5, <1>6, <1>7 DEF At

-----------------------------------------------------------------------------
(* Each step of a job. *)

(* What a job that is alive finds in its copy. *)
LEMMA FileTyped ==
  ASSUME NEW n \in Places, At(n), n > 0, Alive(n)
  PROVE  /\ file \in [Phases -> FileStatuses]
         /\ jobs \in [Jobs -> Job] /\ n \in Jobs /\ jobs[n] \in Job
         /\ jobs[n].pc # "queued" => jobs[n].mem = file
<1>1. n \in Jobs /\ Recorded(jobs[n], n) /\ jobs \in [Jobs -> Job]
  BY PlaceFacts, OnlyOne DEF At, Typed
<1>2. jobs[n] \in Job /\ jobs[n].pc \in JobPCs \ {"none", "passed", "failed"}
  BY <1>1 DEF Job, Alive
<1>3. \E r, c, b \in FileStatuses : file = File(r, c, b)
  BY <1>1, <1>2, StatusFacts DEF Recorded, JobPCs
<1>4. jobs[n].pc # "queued" => jobs[n].mem = file
  BY <1>2 DEF At
<1> QED
  BY <1>1, <1>2, <1>3, <1>4, FileFacts

(* The record of job k is replaced, the file and RESUBMIT stay. *)
LEMMA StartKeeps ==
  ASSUME NEW n \in Places, At(n), NEW k \in Jobs, Start(k)
  PROVE  At(n)'
<1>1. k = n /\ n > 0 /\ Alive(n) /\ jobs[n].pc = "queued" /\ Recorded(jobs[n], n)
  BY OnlyOne DEF Start, Alive
<1>2. file \in [Phases -> FileStatuses] /\ jobs \in [Jobs -> Job] /\ n \in Jobs /\ jobs[n] \in Job
  BY <1>1, FileTyped
<1>3. PICK j : j = [jobs[n] EXCEPT !.pc = "started", !.mem = file]
  OBVIOUS
<1>4. j \in Job /\ j.pc = "started" /\ j.mem = file /\ j.failed = jobs[n].failed
  BY <1>2, <1>3 DEF Job, JobPCs
<1>5. jobs' = [jobs EXCEPT ![n] = j]
  BY <1>1, <1>2, <1>3 DEF Start
<1>6. n > 1 => jobs'[n - 1] = jobs[n - 1]
  BY <1>1, <1>2, <1>5, PlaceFacts
<1>7. UNCHANGED <<file, xml, submission, verdict>>
  BY DEF Start
<1>8. file = (IF n = 1 THEN File("PEND", NoStatus, NoStatus)
              ELSE File("PASS", CompareStatus(jobs[n - 1]), BaselineStatus(jobs[n - 1])))
      /\ jobs[n].failed = {}
  BY <1>1 DEF Recorded
<1>9. Recorded(j, n)'
  <2>1. file' = (IF n = 1 THEN File("PEND", NoStatus, NoStatus)
                 ELSE File("PASS", CompareStatus(jobs'[n - 1]), BaselineStatus(jobs'[n - 1])))
    BY <1>1, <1>6, <1>7, <1>8, PlaceFacts
  <2> QED
    BY <1>4, <1>8, <2>1 DEF Recorded
<1>10. Compared(j)
  BY <1>4, <1>8 DEF Compared
<1> QED
  BY <1>1, <1>4, <1>5, <1>7, <1>9, <1>10, JobGetsOn DEF Begun, At, Typed

LEMMA InitFailsKeeps ==
  ASSUME NEW n \in Places, At(n), NEW k \in Jobs, InitFails(k)
  PROVE  At(n)'
<1>1. k = n /\ n > 0 /\ Alive(n) /\ jobs[n].pc = "queued" /\ Recorded(jobs[n], n)
  BY OnlyOne DEF InitFails, Alive
<1>2. jobs \in [Jobs -> Job] /\ n \in Jobs /\ jobs[n] \in Job
  BY <1>1, FileTyped
<1>3. PICK j : j = [jobs[n] EXCEPT !.pc = "failed", !.failed = {"run"}]
  OBVIOUS
<1>4. j \in Job /\ j.pc = "failed" /\ j.failed = {"run"}
  BY <1>2, <1>3 DEF Job, JobPCs
<1>5. jobs' = [jobs EXCEPT ![n] = j]
  BY <1>1, <1>2, <1>3 DEF InitFails
<1>6. UNCHANGED <<xml, submission, verdict>> /\ file' = SetStatus(file, RUN_PHASE, "FAIL")
  BY DEF InitFails
<1>7. \E r, c, b \in FileStatuses : file = File(r, c, b)
  BY <1>1, StatusFacts DEF Recorded
<1>8. \E c, b \in FileStatuses : file' = File("FAIL", c, b)
  BY <1>6, <1>7, StatusFacts, SetFile
<1>9. Recorded(j, n)'
  BY <1>4, <1>8 DEF Recorded
<1>10. Compared(j)
  BY <1>4 DEF Compared
<1> QED
  BY <1>1, <1>4, <1>5, <1>6, <1>9, <1>10, JobGetsOn DEF Begun, At, Typed

LEMMA BeginKeeps ==
  ASSUME NEW n \in Places, At(n), NEW k \in Jobs, Begin(k)
  PROVE  /\ At(n)'
         /\ k = n /\ jobs'[n].pc = "running" /\ jobs'[n].left = xml.resubmit /\ xml' = xml
<1>1. k = n /\ n > 0 /\ Alive(n) /\ jobs[n].pc = "started" /\ Recorded(jobs[n], n)
  BY OnlyOne DEF Begin, Alive
<1>2. /\ file \in [Phases -> FileStatuses] /\ jobs \in [Jobs -> Job] /\ n \in Jobs /\ jobs[n] \in Job
      /\ jobs[n].mem = file
  BY <1>1, FileTyped
<1>3. file = (IF n = 1 THEN File("PEND", NoStatus, NoStatus)
              ELSE File("PASS", CompareStatus(jobs[n - 1]), BaselineStatus(jobs[n - 1])))
      /\ jobs[n].failed = {}
  BY <1>1 DEF Recorded
<1>4. ~Resets(n)
  <2>1. CASE n = 1
    BY <1>2, <1>3, <2>1, FileFacts, StatusFacts DEF Resets
  <2>2. CASE n > 1
    BY <2>2 DEF Resets, At, Countdown
  <2> QED
    BY <1>1, <2>1, <2>2, PlaceFacts
<1>5. xml \in [resubmit : 0 .. Resubmits, first : BOOLEAN] /\ xml.resubmit \in 0 .. Resubmits
  BY DEF At, Typed
<1>6. xml' = xml
  BY <1>1, <1>4, <1>5 DEF Begin, ResubmitAtStart
<1> DEFINE left == xml.resubmit
           before == IF CompareTwo /\ left > 0 THEN "PEND" ELSE NoStatus
           new == File("PEND", before, NoStatus)
<1>7. SetStatus(file, RUN_PHASE, "PEND") = File("PEND", NoStatus, NoStatus)
  BY <1>3, StatusFacts, SetFile
<1>8. Beginning(file, left) = new
  <2>1. SetStatus(File("PEND", NoStatus, NoStatus), COMPARE_PHASE, "PEND") = File("PEND", "PEND", NoStatus)
    BY StatusFacts, SetFile
  <2>2. CompareTwo => (left = 1 <=> left > 0)
    BY <1>5, BatchAssumption
  <2> QED
    BY <1>7, <2>1, <2>2 DEF Beginning
<1>9. CanSetStatus(file, RUN_PHASE)
  BY <1>3, StatusFacts, SetFile
<1>10. file' = new /\ jobs' = [jobs EXCEPT ![n].pc = "running", ![n].mem = new, ![n].left = left]
       /\ UNCHANGED <<submission, verdict>>
  BY <1>1, <1>2, <1>6, <1>8, <1>9 DEF Begin
<1>11. PICK j : j = [jobs[n] EXCEPT !.pc = "running", !.mem = new, !.left = left]
  OBVIOUS
<1>12. new \in [Phases -> FileStatuses]
  BY StatusFacts, FileFacts
<1> HIDE DEF new, left
<1>13. j \in Job /\ j.pc = "running" /\ j.mem = new /\ j.left = left /\ j.failed = {}
  BY <1>2, <1>3, <1>5, <1>11, <1>12 DEF Job, JobPCs, left
<1>14. jobs' = [jobs EXCEPT ![n] = j]
  BY <1>2, <1>10, <1>11
<1>15. Recorded(j, n)'
  <2>1. file' = File("PEND", IF CompareTwo /\ j.left > 0 THEN "PEND" ELSE NoStatus, NoStatus)
    BY <1>10, <1>13 DEF new, left
  <2> QED
    BY <1>13, <2>1 DEF Recorded
<1>16. Compared(j)
  BY <1>13 DEF Compared
<1>17. At(n)'
  BY <1>1, <1>5, <1>6, <1>10, <1>13, <1>14, <1>15, <1>16, JobGetsOn DEF Begun, left
<1> QED
  BY <1>1, <1>2, <1>6, <1>13, <1>14, <1>17 DEF left

(* The model or a check after it fails, or the model has run. *)
LEMMA ModelKeeps ==
  ASSUME InTurn, NEW n \in Places, At(n), NEW k \in Jobs,
         ModelFails(k) \/ RunModel(k) \/ PostFails(k)
  PROVE  /\ At(n)' /\ k = n /\ UNCHANGED <<file, xml, submission, verdict>>
         /\ jobs'[n].left = jobs[n].left /\ jobs[n].pc \in {"running", "ran"}
         /\ \/ jobs'[n].pc = "ran" /\ jobs'[n].failed = jobs[n].failed
            \/ jobs'[n].pc = "ending" /\ jobs'[n].failed = {"run"}
<1>1. k = n /\ n > 0 /\ Alive(n) /\ jobs[n].pc \in {"running", "ran"} /\ Recorded(jobs[n], n)
  <2>1. jobs[k].pc \in {"running", "ran"}
    BY DEF ModelFails, RunModel, PostFails
  <2> QED
    BY <2>1, OnlyOne DEF Alive
<1>2. /\ file \in [Phases -> FileStatuses] /\ jobs \in [Jobs -> Job] /\ n \in Jobs /\ jobs[n] \in Job
      /\ jobs[n].mem = file
  BY <1>1, FileTyped
<1>3. file = File("PEND", IF CompareTwo /\ jobs[n].left > 0 THEN "PEND" ELSE NoStatus, NoStatus)
      /\ jobs[n].failed = {}
  BY <1>1 DEF Recorded
<1>4. UNCHANGED <<file, xml, submission, verdict>>
  BY DEF ModelFails, RunModel, PostFails, InTurn
<1>5. PICK j : \/ j = [jobs[n] EXCEPT !.pc = "ran"] /\ jobs' = [jobs EXCEPT ![n].pc = "ran"]
               \/ j = [jobs[n] EXCEPT !.pc = "ending", !.failed = @ \cup {"run"}] /\ jobs' = GivenUp(n)
  BY <1>1 DEF ModelFails, RunModel, PostFails, InTurn
<1>6. /\ j \in Job /\ j.pc \in {"ran", "ending"} /\ j.mem = file /\ j.left = jobs[n].left
      /\ j.failed = IF j.pc = "ran" THEN {} ELSE {"run"}
  <2>1. {} \cup {"run"} = {"run"} /\ {"run"} \subseteq {"run", "compare", "baseline"}
    OBVIOUS
  <2>2. CASE j = [jobs[n] EXCEPT !.pc = "ran"]
    BY <1>2, <1>3, <2>2 DEF Job, JobPCs
  <2>3. CASE j = [jobs[n] EXCEPT !.pc = "ending", !.failed = @ \cup {"run"}]
    <3>1. j = [jobs[n] EXCEPT !.pc = "ending", !.failed = {"run"}]
      BY <1>2, <1>3, <2>1, <2>3 DEF Job
    <3> QED
      BY <1>2, <2>1, <3>1 DEF Job, JobPCs
  <2> QED
    BY <1>5, <2>2, <2>3
<1>7. jobs' = [jobs EXCEPT ![n] = j]
  BY <1>2, <1>5 DEF GivenUp
<1>8. Recorded(j, n)'
  <2>1. CASE j.pc = "ran"
    <3>1. file' = File("PEND", IF CompareTwo /\ j.left > 0 THEN "PEND" ELSE NoStatus, NoStatus)
      BY <1>3, <1>4, <1>6
    <3> QED
      BY <1>6, <2>1, <3>1 DEF Recorded
  <2>2. CASE j.pc = "ending"
    <3>1. \E c, b \in FileStatuses : file' = File("PEND", c, b)
      BY <1>3, <1>4, StatusFacts
    <3> QED
      BY <1>6, <2>2, <3>1 DEF Recorded
  <2> QED
    BY <1>6, <2>1, <2>2
<1>9. Compared(j)
  BY <1>6 DEF Compared
<1>10. At(n)'
  BY <1>1, <1>4, <1>6, <1>7, <1>8, <1>9, JobGetsOn DEF Begun, At, Typed
<1> QED
  BY <1>1, <1>2, <1>3, <1>4, <1>6, <1>7, <1>10

-----------------------------------------------------------------------------
(* Job n writes its copy and goes on. *)
LEMMA WriteFacts ==
  ASSUME NEW n \in Places, At(n), n > 0, Alive(n), Begun(jobs[n]),
         NEW ts \in [Phases -> FileStatuses], NEW pc \in JobPCs \ {"none", "queued", "started"},
         NEW failed \in SUBSET {"run", "compare", "baseline"}, Write(n, ts, pc, failed),
         NEW j, j = [pc |-> pc, mem |-> ts, left |-> jobs[n].left,
                     failed |-> jobs[n].failed \cup failed],
         Recorded(j, n)', Compared(j)
  PROVE  At(n)' /\ jobs'[n] = j
<1>1. jobs \in [Jobs -> Job] /\ n \in Jobs /\ jobs[n] \in Job
  BY FileTyped
<1>2. jobs[n] = [pc |-> jobs[n].pc, mem |-> jobs[n].mem, left |-> jobs[n].left, failed |-> jobs[n].failed]
  BY <1>1 DEF Job
<1>3. j \in Job /\ j.pc = pc /\ j.mem = ts /\ j.left = jobs[n].left
  BY <1>1 DEF Job
<1>4. jobs' = [jobs EXCEPT ![n] = j]
  <2>1. PICK j0 : j0 = [jobs[n] EXCEPT !.pc = pc, !.mem = ts, !.failed = @ \cup failed]
    OBVIOUS
  <2>2. jobs' = [jobs EXCEPT ![n] = j0]
    BY <1>1, <2>1 DEF Write
  <2>3. j0 = j
    <3>1. PICK more : more = jobs[n].failed \cup failed
      OBVIOUS
    <3>2. j0 = [jobs[n] EXCEPT !.pc = pc, !.mem = ts, !.failed = more]
      BY <1>1, <2>1, <3>1 DEF Job
    <3>3. j = [pc |-> pc, mem |-> ts, left |-> jobs[n].left, failed |-> more]
      BY <3>1
    <3>4. more \in SUBSET {"run", "compare", "baseline"}
      BY <1>1, <3>1 DEF Job
    <3>5. j0 \in Job
      <4>1. pc \in JobPCs /\ ts \in [Phases -> FileStatuses]
        OBVIOUS
      <4> QED
        BY <1>1, <3>2, <3>4, <4>1 DEF Job
    <3>6. j0.pc = pc /\ j0.mem = ts /\ j0.left = jobs[n].left /\ j0.failed = more
      BY <1>1, <3>2 DEF Job
    <3>7. j0 = [pc |-> j0.pc, mem |-> j0.mem, left |-> j0.left, failed |-> j0.failed]
      BY <3>5 DEF Job
    <3> QED
      BY <3>3, <3>6, <3>7
  <2> QED
    BY <2>2, <2>3
<1>5. UNCHANGED <<xml, submission, verdict>> /\ file' = ts
  BY DEF Write
<1>6. At(n)'
  BY <1>3, <1>4, <1>5, JobGetsOn DEF Begun, At, Typed
<1> QED
  BY <1>1, <1>4, <1>6

(* The comparison of the two runs, that with the baseline, and the end. *)
LEMMA CompareKeeps ==
  ASSUME NEW n \in Places, At(n), NEW k \in Jobs, Compare(k)
  PROVE  /\ At(n)' /\ k = n /\ UNCHANGED <<xml, submission, verdict>>
         /\ jobs'[n].left = jobs[n].left /\ jobs[n].pc = "ran" /\ jobs'[n].pc = "compared"
         /\ jobs[n].failed = {} /\ jobs'[n].failed \subseteq {"compare"}
<1>1. k = n /\ n > 0 /\ Alive(n) /\ jobs[n].pc = "ran" /\ Recorded(jobs[n], n)
  BY OnlyOne DEF Compare, Alive
<1>2. /\ jobs \in [Jobs -> Job] /\ n \in Jobs /\ jobs[n] \in Job
      /\ jobs[n].mem = file /\ Begun(jobs[n])
  BY <1>1, FileTyped DEF Begun
<1>3. file = File("PEND", IF CompareTwo /\ jobs[n].left > 0 THEN "PEND" ELSE NoStatus, NoStatus)
      /\ jobs[n].failed = {} /\ jobs[n].left \in Nat
  BY <1>1, <1>2, BatchAssumption DEF Recorded, Job
<1>4. PICK r \in {"PASS", "FAIL"}, failed \in {{}, {"compare"}} :
         /\ r = (IF failed = {} THEN "PASS" ELSE "FAIL")
         /\ failed # {} => CompareTwo /\ jobs[n].left = 0
         /\ Write(n, IF CompareTwo /\ Final(n) THEN SetStatus(file, COMPARE_PHASE, r) ELSE file,
                  "compared", failed)
  <2>1. CASE CompareTwo /\ Final(n)
    <3>1. PICK o \in Outcomes("compare", "compare") :
             Write(n, SetStatus(file, COMPARE_PHASE, o[1]), "compared", o[2])
      BY <1>1, <1>2, <2>1 DEF Compare
    <3>2. o = <<"PASS", {}>> \/ o = <<"FAIL", {"compare"}>>
      BY <3>1 DEF Outcomes
    <3> QED
      BY <2>1, <3>1, <3>2 DEF Final
  <2>2. CASE ~(CompareTwo /\ Final(n))
    <3>1. Write(n, file, "compared", {})
      BY <1>1, <1>2, <2>2 DEF Compare
    <3> QED
      BY <2>2, <3>1
  <2> QED
    BY <2>1, <2>2
<1>5. PICK ts : ts = IF CompareTwo /\ Final(n) THEN SetStatus(file, COMPARE_PHASE, r) ELSE file
  OBVIOUS
<1>6. PICK j : j = [pc |-> "compared", mem |-> ts, left |-> jobs[n].left,
                    failed |-> jobs[n].failed \cup failed]
  OBVIOUS
<1>7. jobs[n].failed \cup failed = failed
  BY <1>3
<1>8. ts = File("PEND", CompareStatus(j), NoStatus)
  <2>1. SetStatus(File("PEND", NoStatus, NoStatus), COMPARE_PHASE, r) = File("PEND", r, NoStatus)
    BY StatusFacts, SetFile
  <2>2. j.left = jobs[n].left /\ j.failed = failed
    BY <1>6, <1>7
  <2> QED
    BY <1>3, <1>4, <1>5, <2>1, <2>2 DEF Final, CompareStatus
<1>9. ts \in [Phases -> FileStatuses] /\ file' = ts /\ Write(n, ts, "compared", failed)
  <2>1. Write(n, ts, "compared", failed)
    BY <1>4, <1>5
  <2>2. PICK c \in FileStatuses : c = CompareStatus(j)
    BY StatusFacts
  <2>3. ts \in [Phases -> FileStatuses]
    BY <1>8, <2>2, StatusFacts, FileFacts
  <2> QED
    BY <2>1, <2>3 DEF Write
<1>10. j.pc = "compared" /\ j.failed = failed /\ j.failed \subseteq {"compare"} /\ j.left = jobs[n].left
  BY <1>6, <1>7
<1>11. Recorded(j, n)'
  BY <1>8, <1>9, <1>10 DEF Recorded
<1>12. Compared(j)
  BY <1>4, <1>10 DEF Compared
<1>13. At(n)' /\ jobs'[n] = j
  BY <1>1, <1>2, <1>6, <1>9, <1>11, <1>12, WriteFacts DEF JobPCs
<1> QED
  BY <1>1, <1>3, <1>9, <1>10, <1>13 DEF Write

LEMMA BaselineKeeps ==
  ASSUME NEW n \in Places, At(n), NEW k \in Jobs, CompareBaseline(k)
  PROVE  /\ At(n)' /\ k = n /\ UNCHANGED <<xml, submission, verdict>>
         /\ jobs'[n].left = jobs[n].left /\ jobs[n].pc = "compared" /\ jobs'[n].pc = "ending"
         /\ jobs[n].failed \subseteq {"compare"}
         /\ jobs'[n].failed \in {jobs[n].failed, jobs[n].failed \cup {"baseline"}}
<1>1. k = n /\ n > 0 /\ Alive(n) /\ jobs[n].pc = "compared" /\ Recorded(jobs[n], n) /\ Compared(jobs[n])
  BY OnlyOne DEF CompareBaseline, Alive
<1>2. /\ jobs \in [Jobs -> Job] /\ n \in Jobs /\ jobs[n] \in Job
      /\ jobs[n].mem = file /\ Begun(jobs[n])
  BY <1>1, FileTyped DEF Begun
<1>3. file = File("PEND", CompareStatus(jobs[n]), NoStatus)
      /\ jobs[n].failed \subseteq {"compare"} /\ jobs[n].left \in Nat
  BY <1>1, <1>2, BatchAssumption DEF Recorded, Job
<1>4. PICK r \in {"PASS", "FAIL", "PEND"}, failed \in {{}, {"baseline"}} :
         /\ Baseline => r = (IF ~Final(n) THEN "PEND" ELSE IF failed = {} THEN "PASS" ELSE "FAIL")
         /\ failed # {} => Baseline /\ jobs[n].left = 0
         /\ Write(n, IF Baseline THEN SetStatus(file, BASELINE_PHASE, r) ELSE file, "ending", failed)
  <2>1. CASE Baseline /\ Final(n)
    <3>1. PICK o \in Outcomes("baseline", "baseline") :
             Write(n, SetStatus(file, BASELINE_PHASE, o[1]), "ending", o[2])
      BY <1>1, <1>2, <2>1 DEF CompareBaseline
    <3>2. o = <<"PASS", {}>> \/ o = <<"FAIL", {"baseline"}>>
      BY <3>1 DEF Outcomes
    <3> QED
      BY <2>1, <3>1, <3>2 DEF Final
  <2>2. CASE Baseline /\ ~Final(n)
    <3>1. Write(n, SetStatus(file, BASELINE_PHASE, "PEND"), "ending", {})
      BY <1>1, <1>2, <2>2 DEF CompareBaseline
    <3> QED
      BY <2>2, <3>1
  <2>3. CASE ~Baseline
    <3>1. Write(n, file, "ending", {})
      BY <1>1, <1>2, <2>3 DEF CompareBaseline
    <3> QED
      BY <2>3, <3>1
  <2> QED
    BY <2>1, <2>2, <2>3
<1>5. PICK ts : ts = IF Baseline THEN SetStatus(file, BASELINE_PHASE, r) ELSE file
  OBVIOUS
<1>6. PICK j : j = [pc |-> "ending", mem |-> ts, left |-> jobs[n].left,
                    failed |-> jobs[n].failed \cup failed]
  OBVIOUS
<1>7. j.pc = "ending" /\ j.left = jobs[n].left /\ j.failed = jobs[n].failed \cup failed
      /\ "run" \notin j.failed
      /\ ("compare" \in j.failed <=> "compare" \in jobs[n].failed)
      /\ ("baseline" \in j.failed <=> failed = {"baseline"})
  BY <1>3, <1>6
<1>8. ts = File("PEND", CompareStatus(j), BaselineStatus(j))
  <2>1. CompareStatus(j) = CompareStatus(jobs[n])
    BY <1>7 DEF CompareStatus
  <2>2. SetStatus(file, BASELINE_PHASE, r) = File("PEND", CompareStatus(jobs[n]), r)
    BY <1>3, StatusFacts, SetFile
  <2>3. BaselineStatus(j) = IF Baseline THEN r ELSE NoStatus
    BY <1>3, <1>4, <1>7 DEF BaselineStatus, Final
  <2> QED
    BY <1>3, <1>5, <2>1, <2>2, <2>3
<1>9. ts \in [Phases -> FileStatuses] /\ file' = ts /\ Write(n, ts, "ending", failed)
  BY <1>4, <1>5, <1>8, StatusFacts, FileFacts DEF Write
<1>10. Recorded(j, n)'
  BY <1>7, <1>8, <1>9 DEF Recorded
<1>11. Compared(j)
  BY <1>1, <1>4, <1>7 DEF Compared
<1>12. At(n)' /\ jobs'[n] = j
  BY <1>1, <1>2, <1>6, <1>9, <1>10, <1>11, WriteFacts DEF JobPCs
<1> QED
  BY <1>1, <1>3, <1>4, <1>7, <1>9, <1>12 DEF Write

LEMMA EndKeeps ==
  ASSUME NEW n \in Places, At(n), NEW k \in Jobs, End(k)
  PROVE  /\ At(n)' /\ k = n /\ UNCHANGED <<xml, submission, verdict>>
         /\ jobs'[n].left = jobs[n].left /\ jobs[n].pc = "ending"
         /\ jobs'[n].failed = jobs[n].failed
         /\ jobs'[n].pc = IF "run" \in jobs[n].failed THEN "failed" ELSE "passed"
<1>1. k = n /\ n > 0 /\ Alive(n) /\ jobs[n].pc = "ending" /\ Recorded(jobs[n], n) /\ Compared(jobs[n])
  BY OnlyOne DEF End, Alive
<1>2. /\ jobs \in [Jobs -> Job] /\ n \in Jobs /\ jobs[n] \in Job
      /\ jobs[n].mem = file /\ Begun(jobs[n])
  BY <1>1, FileTyped DEF Begun
<1>3. PICK pc, s : /\ pc = IF "run" \in jobs[n].failed THEN "failed" ELSE "passed"
                   /\ s = IF "run" \in jobs[n].failed THEN "FAIL" ELSE "PASS"
  OBVIOUS
<1>4. Write(n, SetStatus(file, RUN_PHASE, s), pc, {})
  BY <1>1, <1>2, <1>3 DEF End
<1>5. PICK c \in FileStatuses, b \in FileStatuses :
         /\ file = File("PEND", c, b)
         /\ "run" \notin jobs[n].failed => c = CompareStatus(jobs[n]) /\ b = BaselineStatus(jobs[n])
  BY <1>1, StatusFacts DEF Recorded
<1>6. PICK ts : ts = File(s, c, b)
  OBVIOUS
<1>7. Write(n, ts, pc, {}) /\ ts \in [Phases -> FileStatuses]
  <2>1. SetStatus(file, RUN_PHASE, s) = ts /\ s \in FileStatuses
    BY <1>3, <1>5, <1>6, StatusFacts, SetFile
  <2> QED
    BY <1>4, <1>6, <2>1, FileFacts
<1>8. PICK j : j = [pc |-> pc, mem |-> ts, left |-> jobs[n].left, failed |-> jobs[n].failed \cup {}]
  OBVIOUS
<1>9. j.pc = pc /\ j.left = jobs[n].left /\ j.failed = jobs[n].failed
  BY <1>8
<1>10. Recorded(j, n)'
  <2>1. file' = ts
    BY <1>7 DEF Write
  <2>2. CASE "run" \in jobs[n].failed
    BY <1>3, <1>6, <1>9, <2>1, <2>2 DEF Recorded
  <2>3. CASE "run" \notin jobs[n].failed
    <3>1. CompareStatus(j) = CompareStatus(jobs[n]) /\ BaselineStatus(j) = BaselineStatus(jobs[n])
      BY <1>9 DEF CompareStatus, BaselineStatus
    <3> QED
      BY <1>3, <1>5, <1>6, <1>9, <2>1, <2>3, <3>1 DEF Recorded
  <2> QED
    BY <2>2, <2>3
<1>11. Compared(j)
  BY <1>1, <1>9 DEF Compared
<1>12. pc \in JobPCs \ {"none", "queued", "started"}
  BY <1>3 DEF JobPCs
<1>13. At(n)' /\ jobs'[n] = j
  BY <1>1, <1>2, <1>7, <1>8, <1>10, <1>11, <1>12, WriteFacts
<1> QED
  BY <1>1, <1>3, <1>7, <1>9, <1>13 DEF Write

-----------------------------------------------------------------------------
(* A test that is submitted from the start.                                *)
LEMMA FirstSubmitted ==
  ASSUME InTurn, NEW ts,
         Submitting(ts) = File("PEND", NoStatus, NoStatus),
         SetStatus(Submitting(ts), SUBMIT_PHASE, "FAIL") = RefusedFile,
         ~Closed(verdict'), xml' \in [resubmit : 0 .. Resubmits, first : BOOLEAN],
         Accepted(1, ts, NotSubmitted, NoJobs) \/ Rejected(1, ts, NotSubmitted, NoJobs)
  PROVE  \/ At(1)' /\ 1 \in Places /\ ~Stuck(1)' /\ jobs'[1] = [NoJob EXCEPT !.pc = "queued"]
         \/ At(0)' /\ 0 \in Places /\ Stuck(0)'
<1>1. /\ Resubmits \in Nat /\ Jobs = 1 .. Resubmits + 2
      /\ 1 \in Jobs /\ 2 \in Jobs /\ 0 \in Places /\ 1 \in Places
  BY PlaceFacts DEF Places
<1>2. NoJob \in Job /\ NoJob.pc = "none" /\ NoJob.failed = {} /\ NoJob.left = 0
  <2>1. Built \in [Phases -> FileStatuses]
    BY PhaseFacts DEF Built, FileStatuses, Statuses
  <2> QED
    BY <1>1, <2>1 DEF NoJob, Job, JobPCs
<1>3. CASE Accepted(1, ts, NotSubmitted, NoJobs)
  <2>1. PICK j : j = [NoJob EXCEPT !.pc = "queued"]
    OBVIOUS
  <2>2. j \in Job /\ j.pc = "queued" /\ j.failed = {}
    BY <1>2, <2>1 DEF Job, JobPCs
  <2>3. /\ jobs' = [NoJobs EXCEPT ![1] = j] /\ file' = File("PEND", NoStatus, NoStatus)
        /\ submission' = [NotSubmitted EXCEPT ![1] = "half"]
    BY <1>1, <1>3, <2>1 DEF Accepted, InTurn, NoJobs
  <2>4. /\ jobs' \in [Jobs -> Job] /\ jobs'[1] = j /\ \A k \in Jobs : k > 1 => jobs'[k] = NoJob
        /\ submission' \in [Jobs -> Submissions] /\ submission'[1] = "half"
        /\ \A k \in Jobs : k > 1 => submission'[k] = "none"
    BY <1>1, <1>2, <2>2, <2>3 DEF NoJobs, NotSubmitted, Submissions
  <2>5. Typed'
    BY <2>4 DEF Typed
  <2>6. Row(1)'
    BY <1>1, <2>2, <2>4 DEF Row
  <2>7. Countdown(1)'
    BY <1>1, <2>2, <2>4 DEF Countdown, Begun
  <2>8. ~Stuck(1)'
    BY <1>1, <2>4 DEF Stuck
  <2>9. Recorded(jobs[1], 1)'
    BY <2>2, <2>3, <2>4 DEF Recorded
  <2>10. Compared(jobs[1])'
    BY <2>2, <2>4 DEF Compared
  <2>11. At(1)'
    BY <2>2, <2>4, <2>5, <2>6, <2>7, <2>8, <2>9, <2>10 DEF At
  <2> QED
    BY <1>1, <2>1, <2>4, <2>8, <2>11
<1>4. CASE Rejected(1, ts, NotSubmitted, NoJobs)
  <2>1. jobs' = NoJobs /\ file' = RefusedFile /\ submission' = [NotSubmitted EXCEPT ![1] = "failed"]
    BY <1>4 DEF Rejected
  <2>2. /\ jobs' \in [Jobs -> Job] /\ \A k \in Jobs : jobs'[k] = NoJob
        /\ submission' \in [Jobs -> Submissions] /\ submission'[1] = "failed"
        /\ \A k \in Jobs : k > 1 => submission'[k] = "none"
    BY <1>1, <1>2, <2>1 DEF NoJobs, NotSubmitted, Submissions
  <2>3. Typed'
    BY <2>2 DEF Typed
  <2>4. Row(0)'
    BY <1>1, <2>2 DEF Row
  <2>5. Countdown(0)'
    BY <1>1 DEF Countdown
  <2>6. Stuck(0)'
    BY <2>2 DEF Stuck
  <2>7. At(0)'
    BY <2>1, <2>3, <2>4, <2>5, <2>6 DEF At
  <2> QED
    BY <1>1, <2>6, <2>7
<1> QED
  BY <1>3, <1>4

(* create_test submits the test, for the first time and again. *)
LEMMA SubmitFirstKeeps ==
  ASSUME InTurn, NEW n \in Places, At(n), SubmitFirst
  PROVE  /\ n = 0 /\ ~Stuck(n) /\ ~Closed(verdict) /\ ~Closed(verdict')
         /\ xml'.resubmit = xml.resubmit
         /\ \/ At(1)' /\ 1 \in Places /\ ~Stuck(1)' /\ jobs'[1] = [NoJob EXCEPT !.pc = "queued"]
            \/ At(0)' /\ 0 \in Places /\ Stuck(0)'
<1>1. n \in Nat /\ 1 \in Jobs /\ submission[1] = "none" /\ Jobs = 1 .. Resubmits + 2 /\ Resubmits \in Nat
  BY PlaceFacts DEF SubmitFirst
<1>2. n = 0
  <2>1. CASE n = 1
    BY <1>1, <2>1 DEF At, Row
  <2>2. CASE n > 1
    BY <1>1, <2>2 DEF At, Row
  <2> QED
    BY <1>1, <2>1, <2>2
<1>3. ~Stuck(n)
  BY <1>1, <1>2 DEF Stuck
<1>4. file = Built /\ ~Closed(verdict)
  BY <1>2, <1>3 DEF At, Settled
<1>5. submission = NotSubmitted /\ jobs = NoJobs
  BY <1>1, <1>2 DEF At, Typed, Row, NotSubmitted, NoJobs
<1>6. xml \in [resubmit : 0 .. Resubmits, first : BOOLEAN] /\ xml' = [xml EXCEPT !.first = TRUE]
  BY DEF At, Typed, SubmitFirst
<1>7. xml' \in [resubmit : 0 .. Resubmits, first : BOOLEAN] /\ xml'.resubmit = xml.resubmit
  BY <1>6
<1>8. ~Closed(verdict')
  BY <1>4 DEF SubmitFirst
<1>9. /\ Submitting(Built) = File("PEND", NoStatus, NoStatus)
      /\ SetStatus(Submitting(Built), SUBMIT_PHASE, "FAIL") = RefusedFile
  BY SubmitFile, StatusFacts
<1>10. Accepted(1, Built, NotSubmitted, NoJobs) \/ Rejected(1, Built, NotSubmitted, NoJobs)
  BY <1>4, <1>5 DEF SubmitFirst
<1> QED
  BY <1>2, <1>3, <1>4, <1>7, <1>8, <1>9, <1>10, FirstSubmitted

LEMMA RetryKeeps ==
  ASSUME InTurn, NEW n \in Places, At(n), Retry
  PROVE  /\ verdict = "FAIL" /\ verdict' = "none"
         /\ \/ At(1)' /\ 1 \in Places /\ ~Stuck(1)' /\ jobs'[1] = [NoJob EXCEPT !.pc = "queued"]
            \/ At(0)' /\ 0 \in Places /\ Stuck(0)'
<1>1. Settled(n) /\ verdict = "FAIL" /\ verdict' = "none" /\ Ended(file) = "FAIL"
  BY DEF At, Retry, Ended, Closed
<1>2. n \in Nat /\ (n > 0 => n \in Jobs)
  BY PlaceFacts
<1>3. file = RefusedFile \/ \E c, b \in FileStatuses : file = File("FAIL", c, b)
  <2>1. CASE Stuck(n)
    BY <2>1 DEF At
  <2>2. CASE ~Stuck(n)
    <3>1. n > 0 /\ jobs[n].pc \in {"passed", "failed"} /\ Recorded(jobs[n], n)
      BY <1>1, <2>2 DEF At, Settled
    <3>2. jobs[n].pc # "passed"
      <4> SUFFICES ASSUME jobs[n].pc = "passed"
                   PROVE  FALSE
        OBVIOUS
      <4>1. PICK c \in FileStatuses, b \in FileStatuses :
               c = CompareStatus(jobs[n]) /\ b = BaselineStatus(jobs[n])
        BY StatusFacts
      <4>2. file = File("PASS", c, b)
        BY <3>1, <4>1 DEF Recorded
      <4> QED
        BY <1>1, <4>2, StatusFacts, FileStatus
    <3> QED
      BY <3>1, <3>2 DEF Recorded
  <2> QED
    BY <2>1, <2>2
<1>4. PICK ts : ts = Resumed(file)
  OBVIOUS
<1>5. /\ Submitting(ts) = File("PEND", NoStatus, NoStatus)
      /\ SetStatus(Submitting(ts), SUBMIT_PHASE, "FAIL") = RefusedFile
  BY <1>3, <1>4, SubmitFile, StatusFacts
<1>6. xml' \in [resubmit : 0 .. Resubmits, first : BOOLEAN]
  <2>1. xml \in [resubmit : 0 .. Resubmits, first : BOOLEAN] /\ xml' = [xml EXCEPT !.first = TRUE]
    BY DEF At, Typed, Retry
  <2> QED
    BY <2>1
<1>7. Accepted(1, ts, NotSubmitted, NoJobs) \/ Rejected(1, ts, NotSubmitted, NoJobs)
  BY <1>4 DEF Retry
<1> QED
  <2>1. ~Closed(verdict')
    BY <1>1 DEF Closed
  <2> QED
    BY <1>1, <1>5, <1>6, <1>7, <2>1, FirstSubmitted

-----------------------------------------------------------------------------
LEMMA OpenFile ==
  ASSUME NEW c \in FileStatuses, NEW b \in FileStatuses
  PROVE  /\ Told(File("PEND", c, b)) = "PEND"
         /\ c = "PEND" \/ b = "PEND" => Told(File("PASS", c, b)) = "PEND"
         /\ ~(c = "PEND" \/ b = "PEND") /\ c # "FAIL" /\ b # "FAIL" => Told(File("PASS", c, b)) = "PASS"
<1>1. PICK r \in FileStatuses, q \in FileStatuses : r = "PEND" /\ q = "PASS" /\ r # NoStatus /\ q # NoStatus
  BY StatusFacts
<1>2. r \in {"PEND", "FAIL"} => Told(File(r, c, b)) = r
  BY <1>1, FileStatus
<1>3. q = "PASS" => Told(File(q, c, b)) =
                      IF c = "PEND" \/ b = "PEND" THEN "PEND"
                      ELSE IF c = "FAIL" THEN "FAIL" ELSE IF b = "FAIL" THEN "DIFF" ELSE "PASS"
  BY <1>1, FileStatus
<1> QED
  BY <1>1, <1>2, <1>3

(* Somebody else is waited for: the file of a job with runs to come after  *)
(* it stays pending.                                                       *)
LEMMA MoreToCome ==
  ASSUME NEW j \in Job, j.left > 0
  PROVE  LET told == Told(File("PASS", CompareStatus(j), BaselineStatus(j)))
         IN  told \in {"PASS", "PEND"} /\ (Watched => told = "PEND")
<1>1. Watched => CompareStatus(j) = "PEND" \/ BaselineStatus(j) = "PEND"
  <2>1. Watched => Baseline \/ CompareTwo
    BY BatchAssumption DEF Watched, Job
  <2> QED
    BY <2>1 DEF CompareStatus, BaselineStatus
<1>2. CompareStatus(j) \in {"PEND", NoStatus} /\ BaselineStatus(j) \in {"PEND", NoStatus}
  BY DEF CompareStatus, BaselineStatus
<1>3. PICK c \in FileStatuses, b \in FileStatuses : c = CompareStatus(j) /\ b = BaselineStatus(j)
  BY StatusFacts
<1>4. c # "FAIL" /\ b # "FAIL"
  BY <1>2, <1>3, StatusFacts
<1>5. /\ c = "PEND" \/ b = "PEND" => Told(File("PASS", c, b)) = "PEND"
      /\ ~(c = "PEND" \/ b = "PEND") => Told(File("PASS", c, b)) = "PASS"
  BY <1>4, OpenFile
<1> QED
  BY <1>1, <1>3, <1>5

(* The case.st_archive job of job n resubmits: on to the next place; or    *)
(* archiving fails, and nothing more happens at place n.                   *)
LEMMA StArchiveKeeps ==
  ASSUME InTurn, NEW n \in Places, At(n), NEW k \in Jobs, StArchive(k)
  PROVE  /\ k = n /\ n > 0 /\ ~Stuck(n) /\ ~Closed(verdict) /\ ~Closed(verdict')
         /\ jobs[n].pc = "passed" /\ jobs[n].failed = {} /\ jobs[n].left > 0
         /\ \/ /\ n + 1 \in Places /\ At(n + 1)' /\ ~Stuck(n + 1)'
               /\ jobs'[n + 1] = [NoJob EXCEPT !.pc = "queued"]
               /\ xml'.resubmit = jobs[n].left - 1
            \/ At(n)' /\ Stuck(n)'
            \/ At(n)' /\ ~Stuck(n)' /\ UNCHANGED <<xml, jobs>>
<1>1. /\ Resubmits \in Nat /\ Jobs = 1 .. Resubmits + 2 /\ n \in Nat /\ n + 1 \in Jobs
      /\ k \in Nat /\ k + 1 \in Jobs /\ (n > 0 => n \in Jobs) /\ 1 \in Jobs
  BY PlaceFacts DEF StArchive
<1>2. jobs[k].pc = "passed" /\ submission[k] = "done" /\ submission[k + 1] = "none" /\ xml.resubmit > 0
  BY DEF StArchive, DependencyMet, MoreRuns
<1>3. k = n /\ n > 0
  <2>1. ~(k > n)
    BY <1>2 DEF At, Row, NoJob
  <2>2. ~(k + 1 < n)
    BY <1>1, <1>2 DEF At, Row
  <2>3. k + 1 # n
    BY <1>1, <1>2 DEF At, Row
  <2> QED
    BY <1>1, <2>1, <2>2, <2>3
<1>4. ~Stuck(n)
  BY <1>2, <1>3 DEF Stuck
<1>5. /\ jobs \in [Jobs -> Job] /\ jobs[n] \in Job /\ jobs[1] \in Job
      /\ submission \in [Jobs -> Submissions]
      /\ xml \in [resubmit : 0 .. Resubmits, first : BOOLEAN]
      /\ Recorded(jobs[n], n) /\ Compared(jobs[n])
  BY <1>1, <1>3, <1>4 DEF At, Typed
<1>6. jobs[n].left = xml.resubmit /\ jobs[n].left \in Nat /\ jobs[n].left > 0
  BY <1>1, <1>2, <1>3, <1>4, <1>5 DEF At, Countdown, Begun, Job
<1>7. file = File("PASS", CompareStatus(jobs[n]), BaselineStatus(jobs[n])) /\ jobs[n].failed = {}
  <2>1. /\ file = File("PASS", CompareStatus(jobs[n]), BaselineStatus(jobs[n]))
        /\ "run" \notin jobs[n].failed
    BY <1>2, <1>3, <1>5 DEF Recorded
  <2>2. "compare" \notin jobs[n].failed /\ "baseline" \notin jobs[n].failed
    BY <1>5, <1>6 DEF Compared
  <2>3. jobs[n].failed \subseteq {"run", "compare", "baseline"}
    BY <1>5 DEF Job
  <2> QED
    BY <2>1, <2>2, <2>3
<1>8. ~Closed(verdict) /\ ~Closed(verdict')
  <2>1. ~Settled(n)
    BY <1>2, <1>3, <1>4, <1>6 DEF Settled
  <2> QED
    BY <2>1 DEF At, StArchive
<1>9. jobs[n].left = jobs[1].left - (n - 1) /\ jobs[1].left \in 0 .. Resubmits
  <2>1. Begun(jobs[n])
    BY <1>2, <1>3 DEF Begun
  <2>2. n \in Jobs /\ n <= n
    BY <1>1, <1>3
  <2>3. jobs[n].left = jobs[1].left - (n - 1)
    BY <2>1, <2>2 DEF At, Countdown
  <2> QED
    BY <1>5, <2>3 DEF Job
<1>10. n + 1 \in Places /\ n + 2 \in Jobs
  BY <1>1, <1>3, <1>6, <1>9 DEF Places
<1>11. ASSUME xml' = Resubmitted
       PROVE  /\ xml' = [resubmit |-> jobs[n].left - 1, first |-> FALSE]
              /\ xml' \in [resubmit : 0 .. Resubmits, first : BOOLEAN]
  <2>1. jobs[n].left - 1 \in 0 .. Resubmits
    BY <1>1, <1>5, <1>6
  <2>2. xml' = [resubmit |-> jobs[n].left - 1, first |-> FALSE]
    BY <1>6, <1>11 DEF Resubmitted
  <2> QED
    BY <2>1, <2>2
<1>12. Submitting(file) = file /\ SetStatus(Submitting(file), SUBMIT_PHASE, "FAIL") = RefusedFile
  <2>1. PICK c \in FileStatuses, b \in FileStatuses : file = File("PASS", c, b)
    BY <1>7, StatusFacts
  <2> QED
    BY <2>1, StatusFacts, SetFile
<1>13. CASE xml' = Resubmitted /\ Accepted(n + 1, file, submission, jobs)
  <2>0. /\ xml' = [resubmit |-> jobs[n].left - 1, first |-> FALSE]
        /\ xml' \in [resubmit : 0 .. Resubmits, first : BOOLEAN]
    BY <1>11, <1>13
  <2>1. PICK j : j = [NoJob EXCEPT !.pc = "queued"]
    OBVIOUS
  <2>2. j \in Job /\ j.pc = "queued" /\ j.failed = {}
    <3>1. Built \in [Phases -> FileStatuses]
      BY PhaseFacts DEF Built, FileStatuses, Statuses
    <3> QED
      BY <1>1, <2>1, <3>1 DEF NoJob, Job, JobPCs
  <2>3. jobs[n + 1] = NoJob
    BY <1>1 DEF At, Row
  <2>4. /\ jobs' = [jobs EXCEPT ![n + 1] = j] /\ file' = file
        /\ submission' = [submission EXCEPT ![n + 1] = "half"]
    BY <1>1, <1>5, <1>12, <1>13, <2>1, <2>3 DEF Accepted, InTurn
  <2>5. /\ jobs' \in [Jobs -> Job] /\ submission' \in [Jobs -> Submissions]
        /\ jobs'[n + 1] = j /\ \A i \in Jobs : i # n + 1 => jobs'[i] = jobs[i]
        /\ submission'[n + 1] = "half" /\ \A i \in Jobs : i # n + 1 => submission'[i] = submission[i]
    BY <1>1, <1>5, <2>2, <2>4 DEF Submissions
  <2>6. Typed'
    BY <2>0, <2>5 DEF Typed
  <2>7. Row(n + 1)' /\ submission'[(n + 1) + 1] = "none"
    <3>1. ASSUME NEW i \in Jobs, i < n + 1
          PROVE  /\ jobs'[i].pc = "passed" /\ jobs'[i].failed = {}
                 /\ jobs'[i].left > 0 /\ submission'[i] = "done"
      <4>1. i \in Nat /\ jobs'[i] = jobs[i] /\ submission'[i] = submission[i]
        BY <1>1, <2>5, <3>1
      <4>2. CASE i = n
        BY <1>2, <1>3, <1>6, <1>7, <4>1, <4>2
      <4>3. CASE i < n
        BY <4>1, <4>3 DEF At, Row
      <4> QED
        BY <1>1, <3>1, <4>1, <4>2, <4>3
    <3>2. ASSUME NEW i \in Jobs, i > n + 1
          PROVE  jobs'[i] = NoJob /\ submission'[i] = "none"
      <4>1. i \in Nat /\ i # n + 1 /\ i > n
        BY <1>1, <3>2
      <4>2. jobs'[i] = jobs[i] /\ submission'[i] = submission[i]
        BY <2>5, <4>1
      <4> QED
        BY <3>2, <4>1, <4>2 DEF At, Row
    <3>3. submission'[(n + 1) + 1] = "none"
      <4>1. n + 2 > n + 1 /\ (n + 1) + 1 = n + 2
        BY <1>1
      <4> QED
        BY <1>10, <3>2, <4>1
    <3>4. \A i \in Jobs : i > (n + 1) + 1 => i > n + 1
      BY <1>1
    <3> QED
      BY <2>2, <2>5, <3>1, <3>2, <3>3, <3>4 DEF Row
  <2>8. ~Stuck(n + 1)'
    BY <2>7 DEF Stuck
  <2>9. Countdown(n + 1)'
    <3>1. jobs'[1] = jobs[1] /\ n # 0
      BY <1>1, <1>3, <2>5
    <3>2. ASSUME NEW i \in Jobs, i <= n + 1, Begun(jobs'[i])
          PROVE  jobs'[i].left = jobs'[1].left - (i - 1)
      <4>1. i # n + 1
        BY <2>2, <2>5, <3>2 DEF Begun
      <4>2. jobs'[i] = jobs[i] /\ i <= n
        BY <1>1, <2>5, <3>2, <4>1
      <4> QED
        BY <3>1, <3>2, <4>2 DEF At, Countdown
    <3>3. xml'.resubmit = jobs'[1].left - ((n + 1) - 1) /\ ~xml'.first
      BY <1>1, <1>5, <1>9, <2>0, <3>1 DEF Job
    <3>4. ~Begun(jobs'[n + 1])
      BY <2>2, <2>5 DEF Begun
    <3> QED
      BY <3>2, <3>3, <3>4 DEF Countdown
  <2>10. Recorded(jobs[n + 1], n + 1)'
    <3>1. jobs'[(n + 1) - 1] = jobs[n] /\ n + 1 # 1
      BY <1>1, <1>3, <2>5
    <3>2. file' = File("PASS", CompareStatus(jobs'[(n + 1) - 1]), BaselineStatus(jobs'[(n + 1) - 1]))
      BY <1>7, <2>4, <3>1
    <3> QED
      BY <2>2, <2>5, <3>1, <3>2 DEF Recorded
  <2>11. Compared(jobs[n + 1])'
    BY <2>2, <2>5 DEF Compared
  <2>12. At(n + 1)'
    <3>1. n + 1 # 0
      BY <1>1
    <3> QED
      BY <1>8, <2>2, <2>5, <2>6, <2>7, <2>8, <2>9, <2>10, <2>11, <3>1 DEF At
  <2> QED
    BY <1>2, <1>3, <1>4, <1>6, <1>7, <1>8, <1>10, <2>0, <2>1, <2>5, <2>8, <2>12
<1>14. CASE xml' = Resubmitted /\ Rejected(n + 1, file, submission, jobs)
  <2>0. /\ xml' = [resubmit |-> jobs[n].left - 1, first |-> FALSE]
        /\ xml' \in [resubmit : 0 .. Resubmits, first : BOOLEAN]
    BY <1>11, <1>14
  <2>1. jobs' = jobs /\ file' = RefusedFile /\ submission' = [submission EXCEPT ![n + 1] = "failed"]
    BY <1>12, <1>14 DEF Rejected
  <2>2. /\ submission' \in [Jobs -> Submissions] /\ submission'[n + 1] = "failed"
        /\ \A i \in Jobs : i # n + 1 => submission'[i] = submission[i]
    BY <1>1, <1>5, <2>1 DEF Submissions
  <2>3. Typed'
    BY <1>5, <2>0, <2>1, <2>2 DEF Typed
  <2>4. Row(n)'
    <3>1. \A i \in Jobs : i < n => submission'[i] = submission[i]
      BY <1>1, <2>2
    <3>2. \A i \in Jobs : i > n + 1 => submission'[i] = submission[i]
      BY <1>1, <2>2
    <3>3. submission'[n] = "done"
      BY <1>1, <1>2, <1>3, <2>2
    <3> QED
      BY <2>1, <2>2, <3>1, <3>2, <3>3 DEF At, Row
  <2>5. Stuck(n)'
    BY <2>2 DEF Stuck
  <2>6. Countdown(n)'
    BY <1>2, <1>3, <2>0, <2>1, <2>5 DEF At, Countdown, Begun
  <2>7. At(n)'
    BY <1>2, <1>3, <1>6, <1>7, <1>8, <2>1, <2>3, <2>4, <2>5, <2>6 DEF At
  <2> QED
    BY <1>2, <1>3, <1>4, <1>6, <1>7, <1>8, <2>5, <2>7
<1>15. CASE /\ submission' = [submission EXCEPT ![n] = "unarchived"]
             /\ UNCHANGED <<file, xml, jobs>>
  <2>1. verdict' = verdict
    BY DEF StArchive
  <2>2. /\ submission' \in [Jobs -> Submissions] /\ submission'[n] = "unarchived"
        /\ \A i \in Jobs : i # n => submission'[i] = submission[i]
    BY <1>1, <1>3, <1>5, <1>15 DEF Submissions
  <2>3. Typed'
    BY <1>5, <1>15, <2>2 DEF Typed
  <2>4. Row(n)'
    <3>1. \A i \in Jobs : i < n \/ i > n + 1 => submission'[i] = submission[i]
      BY <1>1, <2>2
    <3>2. submission'[n + 1] = submission[n + 1]
      BY <1>1, <2>2
    <3> QED
      BY <1>15, <2>2, <3>1, <3>2 DEF At, Row
  <2>5. Stuck(n)' <=> Stuck(n)
    BY <1>1, <2>2 DEF Stuck
  <2>6. Countdown(n)'
    BY <1>15, <2>5 DEF At, Countdown
  <2>7. Recorded(jobs[n], n) => Recorded(jobs[n], n)'
    BY <1>15 DEF Recorded
  <2>8. Compared(jobs[n]) => Compared(jobs[n])'
    BY <1>15 DEF Compared
  <2>9. At(n)'
    BY <1>4, <1>8, <1>15, <2>1, <2>3, <2>4, <2>5, <2>6, <2>7, <2>8 DEF At
  <2> QED
    BY <1>2, <1>3, <1>4, <1>6, <1>7, <1>8, <1>15, <2>5, <2>9
<1> QED
  BY <1>3, <1>13, <1>14, <1>15 DEF StArchive

(* The case.st_archive job of job n has been submitted as well. *)
LEMMA SubmitArchiveKeeps ==
  ASSUME InTurn, NEW n \in Places, At(n), NEW k \in Jobs, SubmitArchive(k)
  PROVE  At(n)' /\ (Stuck(n)' <=> Stuck(n)) /\ UNCHANGED <<file, xml, jobs, verdict>>
<1>1. /\ n \in Nat /\ n + 1 \in Jobs /\ n + 1 # n /\ k \in Nat /\ (n > 0 => n \in Jobs)
      /\ Jobs = 1 .. Resubmits + 2 /\ Resubmits \in Nat
  BY PlaceFacts
<1>2. submission' = [submission EXCEPT ![k] = "done"] /\ submission[k] = "half"
      /\ UNCHANGED <<file, xml, jobs, verdict>>
  BY DEF SubmitArchive, InTurn
<1>3. k = n /\ n > 0
  <2>1. ~(k < n) /\ k # n + 1 /\ ~(k > n + 1)
    BY <1>2 DEF At, Row
  <2> QED
    BY <1>1, <2>1
<1>4. /\ submission' \in [Jobs -> Submissions] /\ submission'[n] = "done"
      /\ \A i \in Jobs : i # n => submission'[i] = submission[i]
  BY <1>2, <1>3 DEF At, Typed, Submissions
<1>5. Typed'
  BY <1>2, <1>4 DEF At, Typed
<1>6. Row(n)'
  <2>1. \A i \in Jobs : i < n \/ i > n + 1 => submission'[i] = submission[i]
    BY <1>1, <1>4
  <2>2. submission'[n + 1] = submission[n + 1]
    BY <1>1, <1>4
  <2> QED
    BY <1>2, <1>4, <2>1, <2>2 DEF At, Row
<1>7. Stuck(n)' <=> Stuck(n)
  BY <1>1, <1>4 DEF Stuck
<1>8. Countdown(n)'
  BY <1>2, <1>7 DEF At, Countdown
<1>9. Recorded(jobs[n], n) => Recorded(jobs[n], n)'
  BY <1>2 DEF Recorded
<1>10. Compared(jobs[n]) => Compared(jobs[n])'
  BY <1>2 DEF Compared
<1>11. Settled(n) => Settled(n)'
  BY <1>2, <1>7 DEF Settled
<1> QED
  BY <1>2, <1>5, <1>6, <1>7, <1>8, <1>9, <1>10, <1>11 DEF At

(* wait_for_tests gives a verdict. *)
LEMMA WaitForTestKeeps ==
  ASSUME InTurn, NEW n \in Places, At(n), WaitForTest
  PROVE  /\ At(n)' /\ (Stuck(n)' <=> Stuck(n)) /\ UNCHANGED <<xml, jobs>>
         /\ (Watched => Settled(n)) /\ verdict = "none" /\ verdict' = Told(file)
<1>1. /\ n \in Nat /\ n + 1 \in Jobs /\ (n > 0 => n \in Jobs)
      /\ Jobs = 1 .. Resubmits + 2 /\ Resubmits \in Nat
  BY PlaceFacts
<1>2. /\ UNCHANGED <<file, xml, submission, jobs>> /\ verdict = "none"
      /\ verdict' = Told(file) /\ Told(file) # "PEND"
      /\ submission[1] \notin {"none", "half"}
  BY DEF WaitForTest, Waiting, Told
<1>3. Closed(verdict') \/ Watched => Settled(n)
  <2> SUFFICES ASSUME ~Settled(n), Closed(verdict') \/ Watched
               PROVE  FALSE
    OBVIOUS
  <2>0. Told(file) # "PEND" /\ (Told(file) # "FAIL" => Watched)
    BY <1>2 DEF Closed
  <2>1. ~Stuck(n) /\ n > 0
    <3>1. ~Stuck(n)
      BY DEF Settled
    <3>2. n = 0 => submission[1] = "none"
      BY <1>1, <3>1 DEF At, Row, Stuck
    <3> QED
      BY <1>1, <1>2, <3>1, <3>2
  <2>2. Recorded(jobs[n], n) /\ jobs[n] \in Job /\ n \in Jobs /\ jobs[n].pc \notin {"none", "failed"}
    BY <1>1, <2>1 DEF At, Typed, Row, Settled
  <2>3. CASE jobs[n].pc \in {"queued", "started"}
    <3>1. CASE n = 1
      <4>1. file = File("PEND", NoStatus, NoStatus)
        BY <2>2, <2>3, <3>1 DEF Recorded
      <4> QED
        BY <2>0, <4>1, StatusFacts, OpenFile
    <3>2. CASE n # 1
      <4>1. file = File("PASS", CompareStatus(jobs[n - 1]), BaselineStatus(jobs[n - 1]))
        BY <2>2, <2>3, <3>2 DEF Recorded
      <4>2. n - 1 \in Jobs /\ n - 1 < n
        BY <1>1, <2>1, <2>2, <3>2
      <4>3. jobs[n - 1] \in Job /\ jobs[n - 1].left > 0
        BY <4>2 DEF At, Typed, Row
      <4> QED
        BY <2>0, <4>1, <4>3, MoreToCome
    <3> QED
      BY <3>1, <3>2
  <2>4. CASE jobs[n].pc \in {"running", "ran", "compared", "ending"}
    <3>1. \E c, b \in FileStatuses : file = File("PEND", c, b)
      BY <2>2, <2>4, StatusFacts DEF Recorded
    <3> QED
      BY <2>0, <3>1, OpenFile
  <2>5. CASE jobs[n].pc = "passed"
    <3>1. file = File("PASS", CompareStatus(jobs[n]), BaselineStatus(jobs[n]))
      BY <2>2, <2>5 DEF Recorded
    <3>2. jobs[n].left > 0
      BY <1>1, <2>1, <2>2, <2>5 DEF Settled, Job
    <3> QED
      BY <2>0, <2>2, <3>1, <3>2, MoreToCome
  <2> QED
    BY <2>2, <2>3, <2>4, <2>5 DEF Job, JobPCs
<1>4. Typed' /\ Row(n)' /\ (Stuck(n)' <=> Stuck(n))
  BY <1>2 DEF At, Typed, Row, Stuck
<1>5. Countdown(n)'
  BY <1>2, <1>4 DEF At, Countdown
<1>6. Recorded(jobs[n], n) => Recorded(jobs[n], n)'
  BY <1>2 DEF Recorded
<1>7. Compared(jobs[n]) => Compared(jobs[n])'
  BY <1>2 DEF Compared
<1>8. Settled(n) => Settled(n)'
  BY <1>2, <1>4 DEF Settled
<1> QED
  BY <1>2, <1>3, <1>4, <1>5, <1>6, <1>7, <1>8 DEF At

-----------------------------------------------------------------------------
(* InARow holds at first and is kept by every step. *)
LEMMA InitInARow ==
  Init => At(0) /\ 0 \in Places /\ ~Stuck(0) /\ xml.resubmit = Resubmits
<1> SUFFICES ASSUME Init
             PROVE  At(0) /\ 0 \in Places /\ ~Stuck(0) /\ xml.resubmit = Resubmits
  OBVIOUS
<1>1. Resubmits \in Nat /\ Jobs = 1 .. Resubmits + 2 /\ 1 \in Jobs /\ 0 \in Places
  BY PlaceFacts DEF Places
<1>2. NoJob \in Job
  <2>1. Built \in [Phases -> FileStatuses]
    BY PhaseFacts DEF Built, FileStatuses, Statuses
  <2> QED
    BY <1>1, <2>1 DEF NoJob, Job, JobPCs
<1>3. Typed
  BY <1>1, <1>2 DEF Init, Typed, NotSubmitted, NoJobs, Submissions
<1>4. Row(0) /\ ~Stuck(0)
  BY <1>1 DEF Init, Row, NotSubmitted, NoJobs, Stuck
<1>5. Countdown(0)
  BY <1>1 DEF Countdown
<1> QED
  BY <1>1, <1>3, <1>4, <1>5 DEF Init, At, Closed

LEMMA StutterKeeps ==
  ASSUME NEW n \in Places, At(n), UNCHANGED vars
  PROVE  At(n)' /\ (Stuck(n)' <=> Stuck(n))
<1>1. UNCHANGED <<file, xml, submission, jobs, verdict>>
  BY DEF vars
<1>2. Typed' /\ Row(n)' /\ (Stuck(n)' <=> Stuck(n))
  BY <1>1 DEF At, Typed, Row, Stuck
<1>3. Countdown(n)'
  BY <1>1, <1>2 DEF At, Countdown
<1>4. Recorded(jobs[n], n) => Recorded(jobs[n], n)'
  BY <1>1 DEF Recorded
<1>5. Compared(jobs[n]) => Compared(jobs[n])'
  BY <1>1 DEF Compared
<1>6. Settled(n) => Settled(n)'
  BY <1>1, <1>2 DEF Settled
<1> QED
  BY <1>1, <1>2, <1>3, <1>4, <1>5, <1>6 DEF At

LEMMA StepInARow ==
  ASSUME InTurn, InARow, [Next]_vars
  PROVE  InARow'
<1>1. PICK n \in Places : At(n)
  BY DEF InARow
<1>2. CASE SubmitFirst
  BY <1>1, <1>2, SubmitFirstKeeps DEF InARow
<1>3. ASSUME NEW k \in Jobs, SubmitArchive(k)
      PROVE  InARow'
  BY <1>1, <1>3, SubmitArchiveKeeps DEF InARow
<1>4. ASSUME NEW k \in Jobs, StArchive(k)
      PROVE  InARow'
  BY <1>1, <1>4, StArchiveKeeps DEF InARow
<1>5. ASSUME NEW k \in Jobs, JobNext(k)
      PROVE  InARow'
  <2>1. CASE Start(k)
    BY <1>1, <2>1, StartKeeps DEF InARow
  <2>2. CASE InitFails(k)
    BY <1>1, <2>2, InitFailsKeeps DEF InARow
  <2>3. CASE Begin(k)
    BY <1>1, <2>3, BeginKeeps DEF InARow
  <2>4. CASE ModelFails(k) \/ RunModel(k) \/ PostFails(k)
    BY <1>1, <2>4, ModelKeeps DEF InARow
  <2>5. CASE Compare(k)
    BY <1>1, <2>5, CompareKeeps DEF InARow
  <2>6. CASE CompareBaseline(k)
    BY <1>1, <2>6, BaselineKeeps DEF InARow
  <2>7. CASE End(k)
    BY <1>1, <2>7, EndKeeps DEF InARow
  <2> QED
    BY <1>5, <2>1, <2>2, <2>3, <2>4, <2>5, <2>6, <2>7 DEF JobNext
<1>6. CASE WaitForTest
  BY <1>1, <1>6, WaitForTestKeeps DEF InARow
<1>7. CASE Retry
  BY <1>1, <1>7, RetryKeeps DEF InARow
<1>8. CASE UNCHANGED vars
  BY <1>1, <1>8, StutterKeeps DEF InARow
<1> QED
  BY <1>2, <1>3, <1>4, <1>5, <1>6, <1>7, <1>8 DEF Next

LEMMA AlwaysInARow ==
  ASSUME InTurn
  PROVE  Spec => []InARow
<1>1. Init => InARow
  BY InitInARow DEF InARow
<1>2. InARow /\ [Next]_vars => InARow'
  BY StepInARow
<1> QED
  BY <1>1, <1>2, PTL DEF Spec

(* A case.test job that writes its whole copy of TestStatus back loses     *)
(* nothing: from the time it read the file to its end, no submitter, other *)
(* job or resubmission has changed the file under it.                      *)
THEOREM CopiesAreCurrent ==
  ASSUME InTurn
  PROVE  Spec => []CopyIsCurrent
<1>1. InARow => CopyIsCurrent
  <2> SUFFICES ASSUME NEW n \in Places, At(n), NEW k \in Jobs, Alive(k), jobs[k].pc # "queued"
               PROVE  jobs[k].mem = file
    BY DEF InARow, CopyIsCurrent
  <2>1. k = n /\ n > 0
    BY OnlyOne
  <2> QED
    BY <2>1, FileTyped
<1> QED
  BY <1>1, AlwaysInARow, PTL

-----------------------------------------------------------------------------
(* What the promise is about, read off the place in the row. *)
ResultAt(n) ==
  IF Stuck(n) THEN "FAIL"
  ELSE IF n = 0 THEN "PASS"
  ELSE IF "run" \in jobs[n].failed \/ "compare" \in jobs[n].failed THEN "FAIL"
  ELSE IF "baseline" \in jobs[n].failed THEN "DIFF"
  ELSE "PASS"

TodoAt(n) ==
  IF ResultAt(n) = "FAIL" THEN 0
  ELSE IF n = 0 THEN 1 + xml.resubmit
  ELSE IF jobs[n].pc = "passed" THEN jobs[n].left
  ELSE 1 + IF Begun(jobs[n]) THEN jobs[n].left ELSE xml.resubmit

(* The file of a job that fails says so: so does its record. *)
LEMMA FailedJob ==
  ASSUME NEW n \in Places, At(n), n > 0, jobs[n].pc = "failed"
  PROVE  ~Stuck(n) /\ "run" \in jobs[n].failed
BY DEF At, Recorded

(* Only the submission after job n can have failed. *)
LEMMA RefusalFacts ==
  ASSUME NEW n \in Places, At(n)
  PROVE  (\E k \in Jobs : submission[k] = "failed") <=> Stuck(n)
<1>1. /\ n \in Nat /\ n + 1 \in Jobs /\ (n > 0 => n \in Jobs)
      /\ Jobs = 1 .. Resubmits + 2 /\ Resubmits \in Nat
  BY PlaceFacts
<1>2. ASSUME NEW k \in Jobs, submission[k] = "failed"
      PROVE  k = n + 1
  <2>1. ~(k < n) /\ ~(k > n + 1)
    BY <1>2 DEF At, Row
  <2>2. k # n
    BY <1>1, <1>2 DEF At, Row
  <2> QED
    BY <1>1, <2>1, <2>2
<1> QED
  BY <1>1, <1>2 DEF Stuck

ResultKnown == \A n \in Places : At(n) => Result = ResultAt(n)
TodoKnown   == \A n \in Places : At(n) => Todo = TodoAt(n)

(* The refinement mapping, computed at the place in the row. *)
LEMMA ResultIsThere == ResultKnown
<1> SUFFICES ASSUME NEW n \in Places, At(n)
             PROVE  Result = ResultAt(n)
  BY DEF ResultKnown
<1>1. /\ n \in Nat /\ n + 1 \in Jobs /\ (n > 0 => n \in Jobs)
      /\ Jobs = 1 .. Resubmits + 2 /\ Resubmits \in Nat
  BY PlaceFacts
<1>2. (\E k \in Jobs : submission[k] = "failed") <=> Stuck(n)
  BY RefusalFacts
<1>3. \A k \in Jobs : k # n => jobs[k].failed = {}
  <2> TAKE k \in Jobs
  <2> HAVE k # n
  <2>1. CASE k < n
    BY <2>1 DEF At, Row
  <2>2. CASE k > n
    BY <2>2 DEF At, Row, NoJob
  <2> QED
    BY <1>1, <2>1, <2>2
<1> DEFINE bad == UNION {jobs[k].failed : k \in Jobs}
<1>4. \A x : x \in bad <=> n > 0 /\ x \in jobs[n].failed
  BY <1>1, <1>3
<1> HIDE DEF bad
<1>5. Result = IF (\E k \in Jobs : submission[k] = "failed") \/ bad \cap {"run", "compare"} # {} THEN "FAIL"
               ELSE IF "baseline" \in bad THEN "DIFF"
               ELSE "PASS"
  BY DEF Result, bad
<1>6. bad \cap {"run", "compare"} # {} <=> "run" \in bad \/ "compare" \in bad
  OBVIOUS
<1> QED
  BY <1>1, <1>2, <1>4, <1>5, <1>6 DEF ResultAt

LEMMA TodoIsThere == TodoKnown
<1> SUFFICES ASSUME NEW n \in Places, At(n)
             PROVE  Todo = TodoAt(n)
  BY DEF TodoKnown
<1>1. /\ n \in Nat /\ n + 1 \in Jobs /\ (n > 0 => n \in Jobs) /\ n <= Resubmits + 1 /\ 1 \in Jobs
      /\ Jobs = 1 .. Resubmits + 2 /\ Resubmits \in Nat
  BY PlaceFacts
<1>2. Result = ResultAt(n)
  BY ResultIsThere DEF ResultKnown
<1>3. CASE ResultAt(n) = "FAIL"
  BY <1>2, <1>3 DEF Todo, TodoAt
<1>4. CASE ResultAt(n) # "FAIL"
  <2> DEFINE passed == {k \in Jobs : jobs[k].pc = "passed"}
  <2>1. jobs \in [Jobs -> Job] /\ \A k \in Jobs : jobs[k].left \in Int
    BY <1>1 DEF At, Typed, Job
  <2>2. ~Stuck(n) /\ (n > 0 => jobs[n].pc # "failed")
    BY <1>4, FailedJob DEF ResultAt
  <2>3. CASE n = 0
    <3>1. passed = {} /\ jobs[1].pc = "none"
      BY <1>1, <2>3 DEF At, Row, NoJob
    <3>2. Cardinality(passed) = 0
      BY <3>1, FS_EmptySet
    <3>3. file[RUN_PHASE] = NoStatus
      BY <2>2, <2>3, PhaseFacts DEF At, Built
    <3>4. Planned = 1 + xml.resubmit
      BY <3>1, <3>3, StatusFacts DEF Planned
    <3>5. xml.resubmit \in Int
      BY <1>1 DEF At, Typed
    <3> HIDE DEF passed
    <3> QED
      BY <1>2, <1>4, <2>3, <3>2, <3>4, <3>5 DEF Todo, TodoAt, passed
  <2>4. CASE n > 0
    <3> DEFINE last == IF jobs[n].pc = "passed" THEN n ELSE n - 1
    <3>1. passed = 1 .. last
      <4>1. \A k \in Jobs : k < n => jobs[k].pc = "passed"
        BY DEF At, Row
      <4>2. \A k \in Jobs : k > n => jobs[k].pc # "passed"
        BY DEF At, Row, NoJob
      <4> QED
        BY <1>1, <2>4, <4>1, <4>2
    <3>2. last \in Int /\ Cardinality(passed) = last
      <4>1. last \in Nat
        BY <1>1, <2>4
      <4> HIDE DEF last, passed
      <4>2. Cardinality(1 .. last) = IF 1 > last THEN 0 ELSE last - 1 + 1
        BY <4>1, FS_Interval
      <4> QED
        BY <3>1, <4>1, <4>2
    <3>3. Planned = 1 + (IF Begun(jobs[n]) THEN jobs[n].left ELSE xml.resubmit) + (n - 1)
      <4>0. xml.resubmit \in Int
        BY <1>1 DEF At, Typed
      <4>1. CASE n = 1
        <5>1. CASE Begun(jobs[1])
          <6>1. Planned = 1 + jobs[1].left
            BY <5>1 DEF Planned, Begun
          <6> QED
            BY <2>1, <1>1, <4>1, <5>1, <6>1
        <5>2. CASE ~Begun(jobs[1])
          <6>1. jobs[1].pc \in {"queued", "started"}
            BY <2>2, <4>1, <5>2 DEF Begun, At, Row
          <6>2. file = File("PEND", NoStatus, NoStatus)
            BY <2>2, <2>4, <4>1, <6>1 DEF At, Recorded
          <6>3. file[RUN_PHASE] = "PEND"
            BY <6>2, FileFacts, StatusFacts
          <6>4. Planned = 1 + xml.resubmit
            BY <6>1, <6>3 DEF Planned
          <6> QED
            BY <4>0, <4>1, <5>2, <6>4
        <5> QED
          BY <5>1, <5>2
      <4>2. CASE n > 1
        <5>1. jobs[1].pc = "passed"
          BY <1>1, <4>2 DEF At, Row
        <5>2. Planned = 1 + jobs[1].left
          BY <5>1 DEF Planned
        <5>3. (IF Begun(jobs[n]) THEN jobs[n].left ELSE xml.resubmit) = jobs[1].left - (n - 1)
          BY <1>1, <4>2 DEF At, Countdown
        <5> HIDE DEF Begun
        <5> QED
          BY <1>1, <2>1, <5>2, <5>3
      <4> QED
        BY <1>1, <2>4, <4>1, <4>2
    <3>4. Todo = Planned - last
      BY <1>2, <1>4, <3>2 DEF Todo, passed
    <3>5. jobs[n].pc = "passed" => Begun(jobs[n])
      BY DEF Begun
    <3>6. jobs[n].left \in Int /\ xml.resubmit \in Int
      BY <1>1, <2>1, <2>4 DEF At, Typed
    <3>7. PICK left \in Int : left = IF Begun(jobs[n]) THEN jobs[n].left ELSE xml.resubmit
      BY <3>6
    <3>8. TodoAt(n) = IF jobs[n].pc = "passed" THEN left ELSE 1 + left
      BY <1>4, <2>4, <3>5, <3>7 DEF TodoAt
    <3>9. Planned = 1 + left + (n - 1)
      BY <3>3, <3>7
    <3> QED
      BY <1>1, <3>4, <3>8, <3>9
  <2> QED
    BY <1>1, <2>3, <2>4
<1> QED
  BY <1>3, <1>4

-----------------------------------------------------------------------------
(* A step of TestPromise, from t runs to come, result r and verdict v.     *)
Moves(t, r, v, t2, r2, v2) ==
  \/ t2 = t /\ r2 = r /\ v2 = v
  \/ /\ v = "none" /\ v2 = "none"
     /\ r2 \in {"PASS", "DIFF", "FAIL"}
     /\ r = "PASS" \/ r = r2 \/ r2 = "FAIL"
     /\ t2 \in IF r2 = "FAIL" THEN {0} ELSE {t, t - 1} \cap 0 .. Resubmits + 1
  \/ v = "none" /\ t = 0 /\ v2 = r /\ t2 = t /\ r2 = r
  \/ /\ v = "FAIL" /\ v2 = "none"
     /\ (t2 \in 1 .. Resubmits + 1 /\ r2 = "PASS") \/ (t2 = 0 /\ r2 = "FAIL")

MovesTo(n, m) == Moves(TodoAt(n), ResultAt(n), verdict, TodoAt(m)', ResultAt(m)', verdict')

LEMMA SizeFacts ==
  ASSUME NEW n \in Places, At(n)
  PROVE  /\ Resubmits \in Nat /\ n \in Nat
         /\ xml.resubmit \in Int /\ xml.resubmit >= 0 /\ xml.resubmit <= Resubmits
         /\ n > 0 => /\ n \in Jobs /\ jobs \in [Jobs -> Job] /\ jobs[n] \in Job
                     /\ jobs[n].left \in Int /\ jobs[n].left >= 0 /\ jobs[n].left <= Resubmits
  BY PlaceFacts DEF At, Typed, Job

(* One job gets on: as long as its result stays good, the runs to come are *)
(* the same or, when it passes, one less.                                  *)
LEMMA JobMoves ==
  ASSUME Watched, NEW n \in Places, At(n), n > 0, Alive(n), submission' = submission, verdict' = verdict,
         \/ /\ jobs'[n].failed = jobs[n].failed
            /\ jobs'[n].pc # "passed"
            /\ \/ Begun(jobs'[n]) /\ Begun(jobs[n]) /\ jobs'[n].left = jobs[n].left
               \/ Begun(jobs'[n]) /\ ~Begun(jobs[n]) /\ jobs'[n].left = xml.resubmit
               \/ ~Begun(jobs'[n]) /\ ~Begun(jobs[n]) /\ xml'.resubmit = xml.resubmit
         \/ "run" \in jobs'[n].failed \/ "compare" \in jobs'[n].failed
         \/ /\ jobs'[n].failed \in {jobs[n].failed, jobs[n].failed \cup {"baseline"}}
            /\ jobs'[n].pc # "passed" /\ Begun(jobs'[n]) /\ Begun(jobs[n])
            /\ jobs'[n].left = jobs[n].left
         \/ /\ jobs'[n].failed = jobs[n].failed /\ jobs'[n].pc = "passed"
            /\ Begun(jobs[n]) /\ jobs'[n].left = jobs[n].left
  PROVE  MovesTo(n, n)
<1>1. /\ Resubmits \in Nat /\ n \in Nat
      /\ xml.resubmit \in Int /\ xml.resubmit >= 0 /\ xml.resubmit <= Resubmits
      /\ jobs[n].left \in Int /\ jobs[n].left >= 0 /\ jobs[n].left <= Resubmits
  BY SizeFacts
<1>2. ~Stuck(n) /\ ~Stuck(n)' /\ verdict = "none" /\ verdict' = "none" /\ jobs[n].pc # "passed"
  <2>1. n \in Jobs
    BY PlaceFacts
  <2>2. ~Stuck(n) /\ verdict = "none"
    BY <2>1, OnlyOne DEF Closed
  <2> QED
    BY <2>2 DEF Stuck, Alive
<1>3. /\ ResultAt(n) = IF "run" \in jobs[n].failed \/ "compare" \in jobs[n].failed THEN "FAIL"
                       ELSE IF "baseline" \in jobs[n].failed THEN "DIFF" ELSE "PASS"
      /\ ResultAt(n)' = IF "run" \in jobs'[n].failed \/ "compare" \in jobs'[n].failed THEN "FAIL"
                        ELSE IF "baseline" \in jobs'[n].failed THEN "DIFF" ELSE "PASS"
  BY <1>1, <1>2 DEF ResultAt
<1>4. /\ TodoAt(n) = IF ResultAt(n) = "FAIL" THEN 0
                     ELSE 1 + IF Begun(jobs[n]) THEN jobs[n].left ELSE xml.resubmit
      /\ TodoAt(n)' = IF ResultAt(n)' = "FAIL" THEN 0
                      ELSE IF jobs'[n].pc = "passed" THEN jobs'[n].left
                      ELSE 1 + IF Begun(jobs'[n]) THEN jobs'[n].left ELSE xml'.resubmit
  BY <1>1, <1>2 DEF TodoAt
<1> HIDE DEF Begun
<1>5. CASE "run" \in jobs'[n].failed \/ "compare" \in jobs'[n].failed
  BY <1>1, <1>2, <1>3, <1>4, <1>5 DEF MovesTo, Moves
<1>6. CASE /\ "run" \notin jobs'[n].failed /\ "compare" \notin jobs'[n].failed
           /\ jobs'[n].failed = jobs[n].failed
  <2>1. ResultAt(n)' = ResultAt(n) /\ ResultAt(n) \in {"PASS", "DIFF"}
    BY <1>3, <1>6
  <2>2. \/ TodoAt(n)' = TodoAt(n)
        \/ TodoAt(n) = 1 + jobs[n].left /\ TodoAt(n)' = jobs[n].left
    <3>1. CASE jobs'[n].pc = "passed"
      <4>1. Begun(jobs[n]) /\ jobs'[n].left = jobs[n].left
        BY <1>6, <3>1
      <4> QED
        BY <1>4, <2>1, <3>1, <4>1
    <3>2. CASE jobs'[n].pc # "passed"
      <4>1. \/ Begun(jobs'[n]) /\ Begun(jobs[n]) /\ jobs'[n].left = jobs[n].left
            \/ Begun(jobs'[n]) /\ ~Begun(jobs[n]) /\ jobs'[n].left = xml.resubmit
            \/ ~Begun(jobs'[n]) /\ ~Begun(jobs[n]) /\ xml'.resubmit = xml.resubmit
        BY <1>6, <3>2
      <4>2. TodoAt(n) = 1 + IF Begun(jobs[n]) THEN jobs[n].left ELSE xml.resubmit
        BY <1>4, <2>1
      <4>3. TodoAt(n)' = 1 + IF Begun(jobs'[n]) THEN jobs'[n].left ELSE xml'.resubmit
        BY <1>4, <2>1, <3>2
      <4>4. CASE Begun(jobs[n])
        BY <4>1, <4>2, <4>3, <4>4
      <4>5. CASE ~Begun(jobs[n])
        BY <4>1, <4>2, <4>3, <4>5
      <4> QED
        BY <4>4, <4>5
    <3> QED
      BY <3>1, <3>2
  <2> QED
    BY <1>1, <1>2, <2>1, <2>2 DEF MovesTo, Moves
<1>7. CASE /\ "run" \notin jobs'[n].failed /\ "compare" \notin jobs'[n].failed
           /\ jobs'[n].failed # jobs[n].failed
  <2>1. /\ jobs'[n].failed = jobs[n].failed \cup {"baseline"}
        /\ jobs'[n].pc # "passed" /\ Begun(jobs'[n]) /\ Begun(jobs[n])
        /\ jobs'[n].left = jobs[n].left
    BY <1>7
  <2>2. ResultAt(n)' = "DIFF" /\ ResultAt(n) = "PASS"
    <3>1. "baseline" \in jobs'[n].failed
      BY <2>1
    <3>2. "baseline" \notin jobs[n].failed
      BY <1>7, <2>1
    <3>3. "run" \notin jobs[n].failed /\ "compare" \notin jobs[n].failed
      BY <1>7, <2>1
    <3> QED
      BY <1>3, <1>7, <3>1, <3>2, <3>3
  <2>3. TodoAt(n)' = TodoAt(n) /\ TodoAt(n) = 1 + jobs[n].left
    BY <1>4, <2>1, <2>2
  <2> QED
    BY <1>1, <1>2, <2>2, <2>3 DEF MovesTo, Moves
<1> QED
  BY <1>5, <1>6, <1>7

LEMMA JobNextMoves ==
  ASSUME OneAtATime, NEW n \in Places, At(n), NEW k \in Jobs, JobNext(k)
  PROVE  At(n)' /\ MovesTo(n, n)
<1>0. Watched /\ InTurn
  BY DEF OneAtATime
<1>1. k = n /\ n > 0 /\ Alive(n) /\ Recorded(jobs[n], n)
  <2>1. Alive(k)
    BY DEF JobNext, Start, InitFails, Begin, ModelFails, RunModel, PostFails, Compare,
           CompareBaseline, End, Alive
  <2> QED
    BY <2>1, OnlyOne
<1>2. jobs \in [Jobs -> Job] /\ n \in Jobs /\ jobs[n] \in Job
  BY <1>1, FileTyped
<1>3. CASE Start(k)
  <2>1. /\ jobs'[n].pc = "started" /\ jobs'[n].failed = jobs[n].failed /\ jobs[n].pc = "queued"
        /\ UNCHANGED <<xml, submission, verdict>>
    BY <1>1, <1>2, <1>3 DEF Start, Job
  <2>2. MovesTo(n, n)
    BY <1>0, <1>1, <2>1, JobMoves DEF Begun
  <2> QED
    BY <1>3, <2>2, StartKeeps
<1>4. CASE InitFails(k)
  <2>1. "run" \in jobs'[n].failed /\ UNCHANGED <<submission, verdict>>
    BY <1>1, <1>2, <1>4 DEF InitFails, Job
  <2>2. MovesTo(n, n)
    BY <1>0, <1>1, <2>1, JobMoves
  <2> QED
    BY <1>4, <2>2, InitFailsKeeps
<1>5. CASE Begin(k)
  <2>1. At(n)' /\ jobs'[n].pc = "running" /\ jobs'[n].left = xml.resubmit
    BY <1>5, BeginKeeps
  <2>2. jobs[n].pc = "started" /\ UNCHANGED <<submission, verdict>>
    BY <1>1, <1>5 DEF Begin
  <2>3. jobs'[n].failed = {} /\ jobs[n].failed = {}
    <3>1. n > 0 /\ Alive(n)' /\ Recorded(jobs[n], n)'
      <4>1. ~Stuck(n) /\ ~Stuck(n)'
        BY <1>1, <1>2, <2>2, OnlyOne DEF Stuck
      <4> QED
        BY <1>1, <2>1, <4>1 DEF At, Alive
    <3> QED
      BY <1>1, <2>1, <2>2, <3>1 DEF Recorded
  <2>4. MovesTo(n, n)
    BY <1>0, <1>1, <2>1, <2>2, <2>3, JobMoves DEF Begun
  <2> QED
    BY <2>1, <2>4
<1>6. CASE ModelFails(k) \/ RunModel(k) \/ PostFails(k)
  <2>1. /\ At(n)' /\ UNCHANGED <<file, xml, submission, verdict>>
        /\ jobs'[n].left = jobs[n].left /\ jobs[n].pc \in {"running", "ran"}
        /\ \/ jobs'[n].pc = "ran" /\ jobs'[n].failed = jobs[n].failed
           \/ jobs'[n].pc = "ending" /\ jobs'[n].failed = {"run"}
    BY <1>0, <1>6, ModelKeeps
  <2>2. CASE jobs'[n].pc = "ran" /\ jobs'[n].failed = jobs[n].failed
    BY <1>0, <1>1, <2>1, <2>2, JobMoves DEF Begun
  <2>3. CASE jobs'[n].failed = {"run"}
    BY <1>0, <1>1, <2>1, <2>3, JobMoves
  <2> QED
    BY <2>1, <2>2, <2>3
<1>7. CASE Compare(k)
  <2>1. /\ At(n)' /\ UNCHANGED <<xml, submission, verdict>>
        /\ jobs'[n].left = jobs[n].left /\ jobs[n].pc = "ran" /\ jobs'[n].pc = "compared"
        /\ jobs[n].failed = {} /\ jobs'[n].failed \subseteq {"compare"}
    BY <1>7, CompareKeeps
  <2>2. CASE "compare" \in jobs'[n].failed
    BY <1>0, <1>1, <2>1, <2>2, JobMoves
  <2>3. CASE "compare" \notin jobs'[n].failed
    <3>1. jobs'[n].failed = jobs[n].failed
      BY <2>1, <2>3
    <3> QED
      BY <1>0, <1>1, <2>1, <3>1, JobMoves DEF Begun
  <2> QED
    BY <2>1, <2>2, <2>3
<1>8. CASE CompareBaseline(k)
  <2>1. /\ At(n)' /\ UNCHANGED <<xml, submission, verdict>>
        /\ jobs'[n].left = jobs[n].left /\ jobs[n].pc = "compared" /\ jobs'[n].pc = "ending"
        /\ jobs'[n].failed \in {jobs[n].failed, jobs[n].failed \cup {"baseline"}}
    BY <1>8, BaselineKeeps
  <2>2. Begun(jobs[n]) /\ Begun(jobs'[n]) /\ jobs'[n].pc # "passed"
    BY <2>1 DEF Begun
  <2>3. MovesTo(n, n)
    BY <1>0, <1>1, <2>1, <2>2, JobMoves
  <2> QED
    BY <2>1, <2>3
<1>9. CASE End(k)
  <2>1. /\ At(n)' /\ UNCHANGED <<xml, submission, verdict>>
        /\ jobs'[n].left = jobs[n].left /\ jobs[n].pc = "ending"
        /\ jobs'[n].failed = jobs[n].failed
        /\ jobs'[n].pc = IF "run" \in jobs[n].failed THEN "failed" ELSE "passed"
    BY <1>9, EndKeeps
  <2>2. CASE "run" \in jobs[n].failed
    BY <1>0, <1>1, <2>1, <2>2, JobMoves
  <2>3. CASE "run" \notin jobs[n].failed
    <3>1. Begun(jobs[n]) /\ jobs'[n].pc = "passed"
      BY <2>1, <2>3 DEF Begun
    <3> QED
      BY <1>0, <1>1, <2>1, <3>1, JobMoves
  <2> QED
    BY <2>1, <2>2, <2>3
<1> QED
  BY <1>3, <1>4, <1>5, <1>6, <1>7, <1>8, <1>9 DEF JobNext

(* A test that is submitted has all its runs to come, or failed. *)
LEMMA NewRow ==
  ASSUME \/ At(1)' /\ 1 \in Places /\ ~Stuck(1)' /\ jobs'[1] = [NoJob EXCEPT !.pc = "queued"]
         \/ At(0)' /\ 0 \in Places /\ Stuck(0)'
  PROVE  \E m \in Places : /\ At(m)'
                           /\ \/ /\ TodoAt(m)' = 1 + xml'.resubmit /\ ResultAt(m)' = "PASS"
                                 /\ xml'.resubmit \in 0 .. Resubmits
                              \/ TodoAt(m)' = 0 /\ ResultAt(m)' = "FAIL"
<1>1. CASE At(1)' /\ 1 \in Places /\ ~Stuck(1)' /\ jobs'[1] = [NoJob EXCEPT !.pc = "queued"]
  <2>1. jobs'[1].pc = "queued" /\ jobs'[1].failed = {}
    BY <1>1 DEF NoJob
  <2>2. ResultAt(1)' = "PASS"
    BY <1>1, <2>1 DEF ResultAt
  <2>3. TodoAt(1)' = 1 + xml'.resubmit
    BY <2>1, <2>2 DEF TodoAt, Begun
  <2>4. xml'.resubmit \in 0 .. Resubmits
    BY <1>1 DEF At, Typed
  <2> QED
    BY <1>1, <2>2, <2>3, <2>4
<1>2. CASE At(0)' /\ 0 \in Places /\ Stuck(0)'
  BY <1>2 DEF ResultAt, TodoAt
<1> QED
  BY <1>1, <1>2

(* Every step of the test is a step of TestPromise, or a stutter. *)
LEMMA StepMoves ==
  ASSUME OneAtATime, NEW n \in Places, At(n), [Next]_vars
  PROVE  \E m \in Places : At(m)' /\ MovesTo(n, m)
<1>0. Resubmits \in Nat /\ Watched /\ InTurn
  BY PlaceFacts DEF OneAtATime
<1>1. CASE SubmitFirst
  <2>1. /\ n = 0 /\ ~Stuck(n) /\ verdict = "none" /\ verdict' = "none"
        /\ xml'.resubmit = xml.resubmit
        /\ \/ At(1)' /\ 1 \in Places /\ ~Stuck(1)' /\ jobs'[1] = [NoJob EXCEPT !.pc = "queued"]
           \/ At(0)' /\ 0 \in Places /\ Stuck(0)'
    BY <1>0, <1>1, SubmitFirstKeeps DEF Closed
  <2>2. PICK m \in Places : /\ At(m)'
                            /\ \/ TodoAt(m)' = 1 + xml'.resubmit /\ ResultAt(m)' = "PASS"
                               \/ TodoAt(m)' = 0 /\ ResultAt(m)' = "FAIL"
    BY <2>1, NewRow
  <2>3. TodoAt(n) = 1 + xml.resubmit /\ ResultAt(n) = "PASS"
    BY <2>1 DEF TodoAt, ResultAt
  <2>4. MovesTo(n, m)
    BY <2>1, <2>2, <2>3 DEF MovesTo, Moves
  <2> QED
    BY <2>2, <2>4
<1>2. ASSUME NEW k \in Jobs, SubmitArchive(k)
      PROVE  At(n)' /\ MovesTo(n, n)
  <2>1. At(n)' /\ (Stuck(n)' <=> Stuck(n)) /\ UNCHANGED <<file, xml, jobs, verdict>>
    BY <1>0, <1>2, SubmitArchiveKeeps
  <2>2. ResultAt(n)' = ResultAt(n)
    BY <2>1 DEF ResultAt
  <2>3. TodoAt(n)' = TodoAt(n)
    BY <2>1, <2>2 DEF TodoAt
  <2> QED
    BY <2>1, <2>2, <2>3 DEF MovesTo, Moves
<1>3. ASSUME NEW k \in Jobs, StArchive(k)
      PROVE  \E m \in Places : At(m)' /\ MovesTo(n, m)
  <2>1. /\ n > 0 /\ ~Stuck(n) /\ verdict = "none" /\ verdict' = "none"
        /\ jobs[n].pc = "passed" /\ jobs[n].failed = {} /\ jobs[n].left > 0
        /\ \/ /\ n + 1 \in Places /\ At(n + 1)' /\ ~Stuck(n + 1)'
              /\ jobs'[n + 1] = [NoJob EXCEPT !.pc = "queued"]
              /\ xml'.resubmit = jobs[n].left - 1
           \/ At(n)' /\ Stuck(n)'
           \/ At(n)' /\ ~Stuck(n)' /\ UNCHANGED <<xml, jobs>>
    BY <1>0, <1>3, StArchiveKeeps DEF Closed
  <2>2. n \in Nat /\ n # 0 /\ jobs[n].left \in Int
    BY <2>1, SizeFacts
  <2>3. ResultAt(n) = "PASS" /\ TodoAt(n) = jobs[n].left
    <3>1. ResultAt(n) = "PASS"
      BY <2>1, <2>2 DEF ResultAt
    <3> QED
      BY <2>1, <2>2, <3>1 DEF TodoAt
  <2>4. CASE At(n)' /\ Stuck(n)'
    <3>1. ResultAt(n)' = "FAIL" /\ TodoAt(n)' = 0
      BY <2>4 DEF ResultAt, TodoAt
    <3>2. MovesTo(n, n)
      BY <2>1, <2>3, <3>1 DEF MovesTo, Moves
    <3> QED
      BY <2>4, <3>2
  <2>5. CASE /\ n + 1 \in Places /\ At(n + 1)' /\ ~Stuck(n + 1)'
             /\ jobs'[n + 1] = [NoJob EXCEPT !.pc = "queued"]
             /\ xml'.resubmit = jobs[n].left - 1
    <3>1. jobs'[n + 1].pc = "queued" /\ jobs'[n + 1].failed = {} /\ n + 1 # 0
      BY <2>2, <2>5 DEF NoJob
    <3>2. ResultAt(n + 1)' = "PASS"
      BY <2>5, <3>1 DEF ResultAt
    <3>3. TodoAt(n + 1)' = 1 + xml'.resubmit
      BY <3>1, <3>2 DEF TodoAt, Begun
    <3>4. TodoAt(n + 1)' = TodoAt(n)
      BY <2>2, <2>3, <2>5, <3>3
    <3>5. MovesTo(n, n + 1)
      BY <2>1, <2>3, <3>2, <3>4 DEF MovesTo, Moves
    <3> QED
      BY <2>5, <3>5
  <2>6. CASE At(n)' /\ ~Stuck(n)' /\ UNCHANGED <<xml, jobs>>
    <3>1. ResultAt(n)' = ResultAt(n)
      BY <2>1, <2>6 DEF ResultAt
    <3>2. TodoAt(n)' = TodoAt(n)
      BY <2>6, <3>1 DEF TodoAt
    <3> QED
      BY <2>1, <2>6, <3>1, <3>2 DEF MovesTo, Moves
  <2> QED
    BY <2>1, <2>4, <2>5, <2>6
<1>4. CASE WaitForTest
  <2>1. /\ At(n)' /\ (Stuck(n)' <=> Stuck(n)) /\ UNCHANGED <<xml, jobs>>
        /\ Settled(n) /\ verdict = "none" /\ verdict' = Told(file)
    BY <1>0, <1>4, WaitForTestKeeps
  <2>2. ResultAt(n)' = ResultAt(n)
    BY <2>1 DEF ResultAt
  <2>3. TodoAt(n)' = TodoAt(n)
    BY <2>1, <2>2 DEF TodoAt
  <2>4. Told(file) = ResultAt(n) /\ TodoAt(n) = 0
    <3>1. CASE Stuck(n)
      BY <3>1, RefusedStatus DEF At, ResultAt, TodoAt
    <3>2. CASE ~Stuck(n)
      <4>1. /\ n > 0 /\ n # 0 /\ Recorded(jobs[n], n) /\ Compared(jobs[n])
            /\ jobs[n].pc = "failed" \/ (jobs[n].pc = "passed" /\ jobs[n].left = 0)
        <5>1. n > 0 /\ (jobs[n].pc = "failed" \/ (jobs[n].pc = "passed" /\ jobs[n].left = 0))
          <6>1. Settled(n)
            BY <2>1
          <6> QED
            BY <3>2, <6>1 DEF Settled
        <5>2. n # 0
          BY <5>1
        <5> QED
          BY <3>2, <5>1, <5>2 DEF At
      <4>2. CASE jobs[n].pc = "failed"
        <5>1. "run" \in jobs[n].failed /\ \E c, b \in FileStatuses : file = File("FAIL", c, b)
          BY <4>1, <4>2 DEF Recorded
        <5>2. Told(file) = "FAIL"
          BY <5>1, StatusFacts, FileStatus
        <5> QED
          BY <3>2, <4>1, <5>1, <5>2 DEF ResultAt, TodoAt
      <4>3. CASE jobs[n].pc = "passed" /\ jobs[n].left = 0
        <5>1. PICK c \in FileStatuses, b \in FileStatuses :
                 c = CompareStatus(jobs[n]) /\ b = BaselineStatus(jobs[n])
          BY StatusFacts
        <5>2. file = File("PASS", c, b) /\ "run" \notin jobs[n].failed
          BY <4>1, <4>3, <5>1 DEF Recorded
        <5>3. /\ c \notin {"PEND"} /\ b \notin {"PEND"}
              /\ (c = "FAIL" <=> "compare" \in jobs[n].failed)
              /\ (b = "FAIL" <=> "baseline" \in jobs[n].failed)
          BY <4>1, <4>3, <5>1 DEF CompareStatus, BaselineStatus, Compared, NoStatus
        <5>4. Told(file) = IF c = "FAIL" THEN "FAIL" ELSE IF b = "FAIL" THEN "DIFF" ELSE "PASS"
          BY <5>2, <5>3, StatusFacts, FileStatus
        <5>5. ResultAt(n) = Told(file)
          BY <3>2, <4>1, <5>2, <5>3, <5>4 DEF ResultAt
        <5> QED
          BY <4>1, <4>3, <5>5 DEF TodoAt
      <4> QED
        BY <4>1, <4>2, <4>3
    <3> QED
      BY <3>1, <3>2
  <2>5. MovesTo(n, n)
    BY <2>1, <2>2, <2>3, <2>4 DEF MovesTo, Moves
  <2> QED
    BY <2>1, <2>5
<1>5. CASE Retry
  <2>1. verdict = "FAIL" /\ verdict' = "none"
    BY <1>0, <1>5, RetryKeeps
  <2>2. PICK m \in Places : /\ At(m)'
                            /\ \/ /\ TodoAt(m)' = 1 + xml'.resubmit /\ ResultAt(m)' = "PASS"
                                  /\ xml'.resubmit \in 0 .. Resubmits
                               \/ TodoAt(m)' = 0 /\ ResultAt(m)' = "FAIL"
    BY <1>0, <1>5, RetryKeeps, NewRow
  <2>3. CASE /\ TodoAt(m)' = 1 + xml'.resubmit /\ ResultAt(m)' = "PASS"
             /\ xml'.resubmit \in 0 .. Resubmits
    <3>1. TodoAt(m)' \in 1 .. Resubmits + 1
      BY <1>0, <2>3
    <3> QED
      BY <2>1, <2>2, <2>3, <3>1 DEF MovesTo, Moves
  <2>4. CASE TodoAt(m)' = 0 /\ ResultAt(m)' = "FAIL"
    BY <2>1, <2>2, <2>4 DEF MovesTo, Moves
  <2> QED
    BY <2>2, <2>3, <2>4
<1>6. CASE UNCHANGED vars
  <2>1. At(n)' /\ (Stuck(n)' <=> Stuck(n)) /\ UNCHANGED <<xml, jobs, verdict>>
    BY <1>6, StutterKeeps DEF vars
  <2>2. ResultAt(n)' = ResultAt(n)
    BY <2>1 DEF ResultAt
  <2>3. TodoAt(n)' = TodoAt(n)
    BY <2>1, <2>2 DEF TodoAt
  <2> QED
    BY <2>1, <2>2, <2>3 DEF MovesTo, Moves
<1>7. ASSUME NEW k \in Jobs, JobNext(k)
      PROVE  At(n)' /\ MovesTo(n, n)
  BY <1>7, JobNextMoves
<1> QED
  BY <1>1, <1>2, <1>3, <1>4, <1>5, <1>6, <1>7 DEF Next

(* wait_for_tests tells the worst that happened, and nothing before every  *)
(* run has ended or one has failed: the safety part of KeepsPromise.       *)
THEOREM PromiseKeptSafely ==
  ASSUME OneAtATime
  PROVE  Spec => Promise!Safety
<1>1. Init => Promise!Init
  <2> SUFFICES ASSUME Init
               PROVE  Promise!Init
    OBVIOUS
  <2>1. At(0) /\ 0 \in Places /\ ~Stuck(0) /\ xml.resubmit = Resubmits
    BY InitInARow
  <2>2. Result = "PASS" /\ Todo = 1 + Resubmits
    <3>1. ResultAt(0) = "PASS" /\ TodoAt(0) = 1 + Resubmits
      BY <2>1 DEF ResultAt, TodoAt
    <3> QED
      BY <2>1, <3>1, ResultIsThere, TodoIsThere DEF ResultKnown, TodoKnown
  <2>3. Todo \in 1 .. Resubmits + 1
    BY <2>2, PlaceFacts
  <2> QED
    BY <2>2, <2>3 DEF Promise!Init, Promise!Fresh, Init
<1>3. ResultKnown'
  BY ResultIsThere, PTL
<1>4. TodoKnown'
  BY TodoIsThere, PTL
<1>5. OneAtATime => InTurn
  BY DEF OneAtATime
<1>2. OneAtATime /\ InARow /\ [Next]_vars => [Promise!Next]_(Promise!vars)
  <2> SUFFICES ASSUME OneAtATime, InARow, [Next]_vars
               PROVE  [Promise!Next]_(Promise!vars)
    OBVIOUS
  <2>1. PICK n \in Places : At(n)
    BY DEF InARow
  <2>2. PICK m \in Places : At(m)' /\ MovesTo(n, m)
    BY <2>1, StepMoves
  <2>3. Result = ResultAt(n) /\ Todo = TodoAt(n)
    BY <2>1, ResultIsThere, TodoIsThere DEF ResultKnown, TodoKnown
  <2>6. Places' = Places
    BY DEF Places
  <2>7. Result' = ResultAt(m)' /\ Todo' = TodoAt(m)'
    BY <1>3, <1>4, <2>2, <2>6 DEF ResultKnown, TodoKnown
  <2>8. Moves(Todo, Result, verdict, Todo', Result', verdict')
    BY <2>2, <2>3, <2>7 DEF MovesTo
  <2> HIDE DEF Todo, Result
  <2> QED
    BY <2>8 DEF Moves, Promise!Next, Promise!Work, Promise!Tell, Promise!Retry, Promise!Fresh,
                Promise!vars, Promise!Results, Promise!Worsens
<1> QED
  BY <1>1, <1>2, <1>5, AlwaysInARow, PTL DEF Spec, Promise!Safety

-----------------------------------------------------------------------------
(* Whoever was told was told the truth, which is still true. *)
ToldTheTruth == verdict # "none" => verdict = Result

LEMMA AlwaysToldTheTruth ==
  ASSUME OneAtATime
  PROVE  Spec => []ToldTheTruth
<1>1. Promise!Init => ToldTheTruth
  BY DEF Promise!Init, Promise!Fresh, ToldTheTruth
<1>2. ToldTheTruth /\ [Promise!Next]_(Promise!vars) => ToldTheTruth'
  <2> HIDE DEF Result, Todo
  <2> QED
    BY DEF Promise!Next, Promise!Work, Promise!Tell, Promise!Retry, Promise!Fresh, Promise!vars,
           ToldTheTruth
<1> QED
  BY <1>1, <1>2, PromiseKeptSafely, PTL DEF Promise!Safety

(* No good verdict while a job of the test is queued or running or is      *)
(* still to be submitted.                                                  *)
THEOREM AllJobsWaitedFor ==
  ASSUME OneAtATime
  PROVE  Spec => []WaitedForAllJobs
<1>1. OneAtATime /\ InARow /\ ToldTheTruth => WaitedForAllJobs
  <2> SUFFICES ASSUME OneAtATime, NEW n \in Places, At(n), ToldTheTruth, verdict \in {"PASS", "DIFF"},
                      NEW k \in Jobs
               PROVE  ~Alive(k) /\ (jobs[k].pc = "passed" => Final(k) \/ jobs[k + 1].pc = "passed")
    BY DEF InARow, WaitedForAllJobs
  <2>1. /\ n \in Nat /\ n + 1 \in Jobs /\ (n > 0 => n \in Jobs)
        /\ Jobs = 1 .. Resubmits + 2 /\ Resubmits \in Nat
    BY PlaceFacts
  <2>2. Settled(n)
    BY DEF At, Closed, OneAtATime
  <2>3. ResultAt(n) # "FAIL"
    BY ResultIsThere DEF ResultKnown, ToldTheTruth
  <2>4. ~Stuck(n) /\ (n > 0 => jobs[n].pc # "failed")
    BY <2>3, FailedJob DEF ResultAt
  <2>5. n > 0 /\ jobs[n].pc = "passed" /\ jobs[n].left = 0
    BY <2>2, <2>4 DEF Settled
  <2>6. ~Alive(k)
    BY <2>2, <2>4, OnlyOne DEF Closed, OneAtATime
  <2>7. CASE k < n
    <3>1. k + 1 \in Jobs /\ (k + 1 < n \/ k + 1 = n)
      BY <2>1, <2>7
    <3>2. jobs[k + 1].pc = "passed"
      BY <2>5, <3>1 DEF At, Row
    <3> QED
      BY <2>6, <3>2
  <2>8. CASE k = n
    BY <2>5, <2>6, <2>8 DEF Final
  <2>9. CASE k > n
    <3>1. jobs[k].pc # "passed"
      BY <2>9 DEF At, Row, NoJob
    <3> QED
      BY <2>6, <3>1
  <2> QED
    BY <2>1, <2>7, <2>8, <2>9
<1>2. OneAtATime => InTurn
  BY DEF OneAtATime
<1> QED
  BY <1>1, <1>2, AlwaysInARow, AlwaysToldTheTruth, PTL

(* A test whose submission failed stays failed. *)
THEOREM SubmitFailuresMarked ==
  ASSUME InTurn
  PROVE  Spec => []SubmitFailureMarked
<1>1. InARow => SubmitFailureMarked
  <2> SUFFICES ASSUME NEW n \in Places, At(n), NEW k \in Jobs, submission[k] = "failed"
               PROVE  CoreStatus(file, TRUE) = "FAIL"
    BY DEF InARow, SubmitFailureMarked
  <2>1. Stuck(n)
    BY RefusalFacts
  <2>2. file = RefusedFile
    BY <2>1 DEF At
  <2> QED
    BY <2>2, RefusedStatus
<1> QED
  BY <1>1, AlwaysInARow, PTL
=============================================================================
