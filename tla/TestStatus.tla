----------------------------- MODULE TestStatus -----------------------------
(***************************************************************************)
(* The contents of one TestStatus file (CIME/test_status.py) and the three *)
(* things every process does with it: set_status, the precondition it      *)
(* enforces, and get_overall_test_status.                                  *)
(*                                                                         *)
(* A file is a function from phases to "PASS", "PEND", "FAIL" or NoStatus  *)
(* (no line for the phase).  Its domain is chosen by the user of the       *)
(* module: CORE_PHASES alone, or CORE_PHASES with LATER_PHASES, which      *)
(* stand for the non-core phases a run adds after RUN.  Phases are numbers *)
(* in the order of ALL_PHASES.  NLCOMP is left out: no transition reads it.*)
(***************************************************************************)
EXTENDS Integers

CREATE_NEWCASE_PHASE  == 1
XML_PHASE             == 2
SETUP_PHASE           == 3
SHAREDLIB_BUILD_PHASE == 4
MODEL_BUILD_PHASE     == 5
SUBMIT_PHASE          == 6
RUN_PHASE             == 7
COMPARE_PHASE         == 8
BASELINE_PHASE        == 9

CORE_PHASES  == CREATE_NEWCASE_PHASE .. RUN_PHASE
LATER_PHASES == COMPARE_PHASE .. BASELINE_PHASE

Statuses     == {"PASS", "PEND", "FAIL"}
NoStatus     == "none"
FileStatuses == Statuses \cup {NoStatus}

(* The check of set_status: a core phase may be set only when the core     *)
(* phase before it has passed, if the file knows it at all.                *)
CanSetStatus(ts, phase) ==
  phase \in CORE_PHASES /\ phase # CREATE_NEWCASE_PHASE
    => ts[phase - 1] \in {"PASS", NoStatus}

(* A core phase that had already ended is being run again. *)
ReranPhase(ts, phase) == phase \in CORE_PHASES /\ ts[phase] \in {"PASS", "FAIL"}

(* set_status: re-running a core phase forgets all that came after it, and *)
(* passing a core phase makes the next core phase pending.                 *)
SetStatus(ts, phase, status) ==
  [q \in DOMAIN ts |->
     CASE q = phase -> status
       [] /\ q = phase + 1
          /\ phase \in CORE_PHASES \ {RUN_PHASE}
          /\ status = "PASS"                        -> "PEND"
       [] OTHER -> IF q > phase /\ ReranPhase(ts, phase) THEN NoStatus ELSE ts[q]]

(* case.submit takes a passed SUBMIT phase for granted before it submits. *)
\* Variant: SUBMIT is not taken for granted.
SubmittingLate(ts) == ts
Submitting(ts) == IF ts[SUBMIT_PHASE] = "PASS" THEN ts ELSE SetStatus(ts, SUBMIT_PHASE, "PASS")

(* The loop over CORE_PHASES of get_overall_test_status: the first core    *)
(* phase that is recorded and did not pass decides.                        *)
CoreStatus(ts, wait_for_run) ==
  LET open == {p \in CORE_PHASES : ts[p] \in {"PEND", "FAIL"}}
  IN  IF open # {}
      THEN ts[CHOOSE p \in open : \A q \in open : p <= q]
      ELSE IF wait_for_run /\ ts[RUN_PHASE] = NoStatus THEN "PEND" ELSE "PASS"

(* get_overall_test_status (with the throughput, memory and namelist       *)
(* comparisons ignored): the core phases first; then, if they all passed,  *)
(* any pending phase, then any failed one, a failed BASELINE being "DIFF". *)
OverallStatus(ts, wait_for_run) ==
  LET core  == CoreStatus(ts, wait_for_run)
      later == DOMAIN ts \ CORE_PHASES
  IN  IF core # "PASS" THEN core
      ELSE IF \E p \in later : ts[p] = "PEND" THEN "PEND"
      ELSE IF \E p \in later \ {BASELINE_PHASE} : ts[p] = "FAIL" THEN "FAIL"
      ELSE IF \E p \in later : ts[p] = "FAIL" THEN "DIFF"
      ELSE "PASS"
=============================================================================
