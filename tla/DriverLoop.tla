---------------------------- MODULE DriverLoop ----------------------------
(***************************************************************************)
(* The run loop of the MCT driver (cime_comp_mod), the accumulators of the *)
(* prep modules, and the driver's and the components' restart files, with  *)
(* runs that crash, reach their stop time or their wall-clock limit, and   *)
(* continue from an earlier restart.                                       *)
(*                                                                         *)
(* A field is known by the driver step at which it was computed.  What a   *)
(* component does with its inputs is left out, except that it remembers    *)
(* which of them it has received.  Stub or absent are the external system  *)
(* processes, ocean shelves, the iac accumulator, auxiliary history files  *)
(* and the pause of components.                                            *)
(***************************************************************************)
EXTENDS DriverClock, FiniteSets

CONSTANTS
    Horizon,     \* bound on time: a run that could pass it is not continued
    MaxRuns,     \* bound on runs: the first one and its continuations
    Day, Month   \* lengths, Month a multiple of Day

ASSUME BoundAssumption ==
    /\ Horizon \in Nat \ {0} /\ MaxRuns \in Nat \ {0}
    /\ Day \in Nat \ {0} /\ Month \in Nat \ {0}
    /\ Horizon < Never

Times == 1..Horizon

\* Accumulators: x2oacc_ox, l2racc_lx, a2racc_ax, l2gacc_lx, and who gets them.
Links == {"x2o", "l2r", "a2r", "l2g"}
Dest == [x2o |-> "ocn", l2r |-> "rof", a2r |-> "rof", l2g |-> "glc"]
Inputs(c) == {l \in Links : Dest[l] = c}

VARIABLES
    phase,       \* where the loop is, or how the run ended
    due,         \* run alarms as the loop sees them: xxxrun_alarm, ocnnext_alarm
    skipOcean,   \* skip_ocean_run
    ocnRuns,     \* ocnrun_count
    force,       \* date of a forced stop, -1 if force_stop is false
    acc,         \* accumulators: number of fields and the fields summed up
    made,        \* fields computed so far for each accumulator
    used,        \* how often a component has received each field
    drvFile,     \* driver restart files: date -> accumulators saved, and what
                 \* had been made until then, for the properties
    compFile,    \* component restart files: date -> inputs received until then
    runs         \* runs so far

loopVars == <<phase, due, skipOcean, ocnRuns, force, runs>>
vars == <<clockVars, loopVars, acc, made, used, drvFile, compFile>>

Phases == {"advance", "ocnsetup", "surface", "flux", "land", "late", "restart", "end"}
Stopped == {"done", "crashed", "aborted"}

Present(c) == c \in nml.present
Prognostic(c) == c \in nml.prognostic

\* Couplings that exist: ocn_prognostic, lnd_c2_rof, atm_c2_rof, lnd_c2_glc.
Active(nl, l) ==
    CASE l = "x2o" -> "ocn" \in nl.prognostic
      [] l = "l2r" -> "lnd" \in nl.present /\ "rof" \in nl.prognostic
      [] l = "a2r" -> "atm" \in nl.present /\ "rof" \in nl.prognostic /\ nl.rof_heat
      [] l = "l2g" -> "lnd" \in nl.present /\ "glc" \in nl.prognostic

---------------------------------------------------------------------------
\* Accumulators.

NoField == [cnt |-> 0, sum |-> {}]

\* Variant: the old sum is kept.
AccumulatedForEver(a) == [cnt |-> a.cnt + 1, sum |-> a.sum \union {Now}]

\* prep_ocn_accum, prep_rof_accum_lnd, prep_rof_accum_atm, prep_glc_accum_lnd:
\* the first field after an average replaces what is left of the old sum.
Accumulated(a) ==
    [cnt |-> a.cnt + 1, sum |-> IF a.cnt = 0 THEN {Now} ELSE a.sum \union {Now}]

\* The averaging of xxx_accum_avg: the sum stays, its count is cleared.
Averaged(a) == [a EXCEPT !.cnt = 0]

\* Sampled adds a field to accumulators L, Sent averages and sends L; the two
\* may come in one phase, so both work on given accumulators.
Sampled(as, L) == [l \in Links |-> IF l \in L THEN Accumulated(as[l]) ELSE as[l]]
Sent(as, L) == [l \in Links |-> IF l \in L THEN Averaged(as[l]) ELSE as[l]]
Received(as, L) ==
    [l \in Links |-> IF l \in L
                     THEN [t \in Times |-> used[l][t] + (IF t \in as[l].sum THEN 1 ELSE 0)]
                     ELSE used[l]]
Computed(L) == [l \in Links |-> IF l \in L THEN made[l] \union {Now} ELSE made[l]]

ActiveOf(L) == {l \in L : Active(nml, l)}

\* A restart file is named after its date and replaces one of the same name.
Filed(files, t, contents) ==
    [u \in DOMAIN files \union {t} |-> IF u = t THEN contents ELSE files[u]]

\* Variant: components look at the restart alarm of the driver's clock.
RunComponentsByDriver(C) ==
    compFile' = [c \in Comps |->
        IF c \in C /\ Present(c) /\ c \in due /\ clockAlarm["drv"]["restart"].ringing
        THEN Filed(compFile[c], clk[c], [l \in Inputs(c) |-> used'[l]])
        ELSE compFile[c]]

\* component_run for a set of components: each due one writes a restart file
\* if the restart alarm of its own clock rings, named after that clock.
RunComponents(C) ==
    compFile' = [c \in Comps |->
        IF c \in C /\ Present(c) /\ c \in due /\ clockAlarm[c]["restart"].ringing
        THEN Filed(compFile[c], clk[c], [l \in Inputs(c) |-> used'[l]])
        ELSE compFile[c]]

---------------------------------------------------------------------------
\* One step of the loop.

Goto(p) == phase' = p

\* do while (.not. stop_alarm), which is evaluated before the first step too:
\* a run continued from its stop date does nothing.
Again == IF StopAlarm THEN "done" ELSE "advance"
SameLoop == UNCHANGED <<clockVars, due, skipOcean, ocnRuns, force, runs>>

Ringing == {r \in RunAlarms : runAlarm'[r].ringing}

\* glc may be called more often than its input is averaged, not less often.
GlcAlarmsAgree == "glcavg" \in Ringing => "glc" \in Ringing

\* Advance Clock: the clocks, the run alarms, and the override for the first
\* ocean interval of a startup run.
Advance ==
    /\ phase = "advance"
    /\ Now < Horizon
    /\ ClockAdvance(force)
    /\ Prognostic("glc") => GlcAlarmsAgree
    /\ LET count == IF "ocn" \in Ringing THEN ocnRuns + 1 ELSE ocnRuns
           skip == skipOcean /\ count <= 1
       IN  /\ ocnRuns' = count
           /\ skipOcean' = skip
           /\ due' = IF skip THEN Ringing \ {"ocn", "ocnnext"} ELSE Ringing
    /\ Goto("ocnsetup")
    /\ UNCHANGED <<force, acc, made, used, drvFile, compFile, runs>>

\* glcrun_avg_alarm is true, but glcrun_alarm is false.
AbortOnGlcAlarms ==
    /\ phase = "advance"
    /\ Now < Horizon
    /\ ClockAdvance(force)
    /\ Prognostic("glc") /\ ~GlcAlarmsAgree
    /\ Goto("aborted")
    /\ UNCHANGED <<due, skipOcean, ocnRuns, force, acc, made, used, drvFile, compFile, runs>>

\* cime_run_atmocn_setup, where the options place it, and
\* cime_run_ocn_setup_send, which follows it or comes before.
AccumulatesFor(options) == IF nml.seq \in options THEN ActiveOf({"x2o"}) ELSE {}
SendsFor(options) ==
    IF nml.seq \in options /\ "ocn" \in due THEN ActiveOf({"x2o"}) ELSE {}

OcnSetup ==
    /\ phase = "ocnsetup"
    /\ LET L == AccumulatesFor({"RASM_OPTION1"})
           S == SendsFor({"CESM1_MOD", "CESM1_MOD_TIGHT", "NUOPC_TIGHT", "RASM_OPTION1"})
           as == Sampled(acc, L)
       IN  /\ acc' = Sent(as, S)
           /\ used' = Received(as, S)
           /\ made' = Computed(L)
    /\ Goto("surface")
    /\ UNCHANGED <<drvFile, compFile>> /\ SameLoop

\* rof setup-send, which averages both of its inputs, then the runs of iac,
\* ice, lnd, rof, wav, and of the ocean when it is tightly coupled.
Tight == nml.seq \in {"CESM1_MOD_TIGHT", "NUOPC_TIGHT"}

Surface ==
    /\ phase = "surface"
    /\ LET S == IF Present("rof") /\ "rof" \in due THEN ActiveOf({"l2r", "a2r"}) ELSE {}
       IN  acc' = Sent(acc, S) /\ used' = Received(acc, S)
    /\ RunComponents({"iac", "ice", "lnd", "rof", "wav"} \union (IF Tight THEN {"ocn"} ELSE {}))
    /\ Goto("flux")
    /\ UNCHANGED <<made, drvFile>> /\ SameLoop

\* ATM/OCN SETUP (cesm1_mod or cesm1_mod_tight).
Flux ==
    /\ phase = "flux"
    /\ LET L == AccumulatesFor({"CESM1_MOD", "CESM1_MOD_TIGHT", "NUOPC", "NUOPC_TIGHT"})
       IN  acc' = Sampled(acc, L) /\ made' = Computed(L)
    /\ Goto("land")
    /\ UNCHANGED <<used, drvFile, compFile>> /\ SameLoop

\* lnd recv-post accumulates for rof and glc; glc setup-send averages if
\* glcrun_avg_alarm says so.
Land ==
    /\ phase = "land"
    /\ LET L == IF Present("lnd") /\ "lnd" \in due THEN ActiveOf({"l2r", "l2g"}) ELSE {}
           S == IF Present("glc") /\ {"glc", "glcavg"} \subseteq due
                THEN ActiveOf({"l2g"}) ELSE {}
           as == Sampled(acc, L)
       IN  /\ acc' = Sent(as, S)
           /\ used' = Received(as, S)
           /\ made' = Computed(L)
    /\ Goto("late")
    /\ UNCHANGED <<drvFile, compFile>> /\ SameLoop

\* rasm_option2, the runs of ocn, atm and glc, and atm recv-post.
Late ==
    /\ phase = "late"
    /\ LET L == AccumulatesFor({"RASM_OPTION2"})
           A == IF Present("atm") /\ "atm" \in due THEN ActiveOf({"a2r"}) ELSE {}
           S == SendsFor({"RASM_OPTION2"})
           as == Sampled(acc, L \union A)
       IN  /\ acc' = Sent(as, S)
           /\ used' = Received(as, S)
           /\ made' = Computed(L \union A)
    /\ RunComponents({"atm", "glc"} \union (IF Tight THEN {} ELSE {"ocn"}))
    /\ Goto("restart")
    /\ UNCHANGED drvFile /\ SameLoop

\* Variant: the input of glc is not saved.
SavedLinksWithoutGlc == {"x2o", "l2r"}

\* seq_rest_write saves these accumulators.
SavedLinks ==
    {l \in Links :
        \/ l = "x2o" /\ Present("ocn")
        \/ l = "l2r" /\ Present("lnd") /\ Prognostic("rof")
        \/ l = "l2g" /\ Present("lnd") /\ Prognostic("glc")}

WriteRestart ==
    /\ phase = "restart"
    /\ drvFile' = IF clockAlarm["drv"]["restart"].ringing
                  THEN Filed(drvFile, Now, [acc |-> [l \in SavedLinks |-> acc[l]], made |-> made])
                  ELSE drvFile
    /\ Goto("end")
    /\ UNCHANGED <<acc, made, used, compFile>> /\ SameLoop

\* The end of a step.  At the start of a day the wall clock may turn out to be
\* past wall_time_limit, and the run is to stop at the next day or month.
NextStart(length) == length * (Now \div length) + length

EndStep ==
    /\ phase = "end"
    /\ \/ force' = force
       \/ /\ nml.wall_limit /\ force < 0 /\ Now % Day = 0
          /\ force' = NextStart(IF nml.force_stop_at = "day" THEN Day ELSE Month)
    /\ Goto(Again)
    /\ UNCHANGED <<clockVars, due, skipOcean, ocnRuns, runs>>
    /\ UNCHANGED <<acc, made, used, drvFile, compFile>>

---------------------------------------------------------------------------
\* Starting, crashing, continuing.

Init ==
    /\ nml \in Namelists
    /\ LET new == ClockInit(nml, 0)
       IN  endRestart = new.end /\ clk = new.clk /\ runAlarm = new.run /\ clockAlarm = new.alarms
    /\ phase = Again
    /\ due = {} /\ skipOcean = TRUE /\ ocnRuns = 0 /\ force = -1 /\ runs = 1
    /\ acc = [l \in Links |-> NoField]
    /\ made = [l \in Links |-> {}]
    /\ used = [l \in Links |-> [t \in Times |-> 0]]
    /\ drvFile = [t \in {} |-> NoField]
    /\ compFile = [c \in Comps |-> [t \in {} |-> {}]]

Crash ==
    /\ phase \in Phases
    /\ Goto("crashed")
    /\ UNCHANGED <<clockVars, due, skipOcean, ocnRuns, force, runs>>
    /\ UNCHANGED <<acc, made, used, drvFile, compFile>>

\* A continued run reads a driver restart file and needs a restart file of the
\* same date from every component.
Complete(t) ==
    t \in DOMAIN drvFile /\ \A c \in nml.present : t \in DOMAIN compFile[c]

\* CONTINUE_RUN: clocks from the date of the restart, accumulators that are in
\* the file, inputs that the components remember.
Continue ==
    /\ phase \in {"done", "crashed"}
    /\ runs < MaxRuns
    /\ \E t \in DOMAIN drvFile :
        /\ Complete(t)
        /\ t + nml.stop_n <= Horizon
        /\ LET new == ClockInit(nml, t)
           IN  /\ endRestart' = new.end /\ clk' = new.clk
               /\ runAlarm' = new.run /\ clockAlarm' = new.alarms
        /\ acc' = [l \in Links |-> IF l \in DOMAIN drvFile[t].acc THEN drvFile[t].acc[l] ELSE NoField]
        /\ made' = drvFile[t].made
        /\ used' = [l \in Links |-> IF Active(nml, l) THEN compFile[Dest[l]][t][l] ELSE used[l]]
    /\ Goto(Again')
    /\ due' = {} /\ skipOcean' = FALSE /\ ocnRuns' = 0 /\ force' = -1 /\ runs' = runs + 1
    /\ UNCHANGED <<nml, drvFile, compFile>>

Step == Advance \/ AbortOnGlcAlarms \/ OcnSetup \/ Surface \/ Flux \/ Land \/ Late
        \/ WriteRestart \/ EndStep
Next == Step \/ Crash \/ Continue

\* Weak fairness of the loop: a program that is not stopped goes on.
Spec == Init /\ [][Next]_vars /\ WF_vars(Step)

---------------------------------------------------------------------------
\* Properties.

Pending(l) == IF acc[l].cnt = 0 THEN {} ELSE acc[l].sum

\* Every field a component computes for another one's average is received
\* exactly once or still waits in the accumulator, whose count is the number
\* of fields in it, also when the run was stopped and continued in between.
EachFieldOnce ==
    \A l \in Links : Active(nml, l) =>
        /\ acc[l].cnt = Cardinality(Pending(l))
        /\ \A t \in Times :
              used[l][t] + (IF t \in Pending(l) THEN 1 ELSE 0) = (IF t \in made[l] THEN 1 ELSE 0)

\* A component's clock is never a whole coupling interval away from the
\* driver's, for as long as the run goes on and from wherever it continued
\* (the clock of iac is never advanced).
ClocksInStep ==
    \A c \in nml.present \ {"iac"} :
        clk[c] - Now < nml.dt[c] /\ Now - clk[c] < nml.dt[c]

\* When the driver writes a restart file at a time where every component's
\* coupling interval ends, then each component has written one for that time
\* too, although it wrote it at another step of the driver.  The ocean of a
\* startup run does not run in its first interval and has none for its end.
RestartsComplete ==
    \A t \in DOMAIN drvFile :
        (\A c \in nml.present : t % nml.dt[c] = 0) =>
            \A c \in nml.present : t \in DOMAIN compFile[c] \/ (c = "ocn" /\ t = nml.dt["ocn"])

\* A restart is exact: whichever run comes by a date again, from whichever
\* restart, writes the same restart files for it as the run before.
ExactRestart ==
    [][/\ \A t \in DOMAIN drvFile : t \in DOMAIN drvFile' /\ drvFile'[t] = drvFile[t]
       /\ \A c \in Comps : \A t \in DOMAIN compFile[c] :
              t \in DOMAIN compFile[c]' /\ compFile'[c][t] = compFile[c][t]]_vars

\* A run does not pass the date of its stop alarm nor the stop date of the
\* namelist, also when the wall-clock limit wants it to stop at another date.
StopsInTime == Now <= clockAlarm["drv"]["stop"].ring /\ Now <= nml.stop_date

\* A run that is to leave a restart at its end leaves one wherever it ends: at
\* stop_n, at the stop date or where the wall-clock limit stops it.
LeavesRestart == phase = "done" /\ endRestart => Now \in DOMAIN drvFile

=============================================================================
