---------------------------- MODULE TestPromise -----------------------------
(***************************************************************************)
(* What a TestStatus file promises to whoever waits for a test that takes  *)
(* several runs: one verdict, in the end, which is the worst thing that    *)
(* happened, and no good verdict while a run is still to come.             *)
(***************************************************************************)
EXTENDS Integers

CONSTANT MaxRuns   \* runs a test can take

VARIABLES
  todo,     \* runs that have yet to end; 0 once one of them failed
  result,   \* the worst that happened so far
  verdict   \* what the one who waits was told, or "none"

vars == <<todo, result, verdict>>

Results == {"PASS", "DIFF", "FAIL"}

(* A bad result stays bad. *)
Worsens(r, s) == r = "PASS" \/ r = s \/ s = "FAIL"

Fresh == todo \in 1 .. MaxRuns /\ result = "PASS" /\ verdict = "none"

Init == Fresh

(* Something happens in a run, or the run ends; a failure ends the test. *)
Work ==
  /\ verdict = "none"
  /\ result' \in Results /\ Worsens(result, result')
  /\ todo' \in IF result' = "FAIL" THEN {0} ELSE {todo, todo - 1} \cap 0 .. MaxRuns
  /\ UNCHANGED verdict

Tell ==
  /\ verdict = "none"
  /\ todo = 0
  /\ verdict' = result
  /\ UNCHANGED <<todo, result>>

(* The test is run again after it was given up for failed. *)
Retry ==
  /\ verdict = "FAIL"
  /\ \/ Fresh'
     \/ todo' = 0 /\ result' = "FAIL" /\ verdict' = "none"

Next == Work \/ Tell \/ Retry

Told == verdict # "none"

Safety == Init /\ [][Next]_vars

Spec == Safety /\ []<>Told
=============================================================================
