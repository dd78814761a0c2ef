---------------------------- MODULE DriverClock ----------------------------
(***************************************************************************)
(* The synchronised clocks of the MCT driver: seq_timemgr_mod on top of    *)
(* esmf_wrf_timemgr.  The driver and every component have a clock of their *)
(* own with stop, datestop and restart alarms; the driver's clock has the  *)
(* alarms that say which component runs.                                   *)
(*                                                                         *)
(* Time is counted in driver steps from the start date.  The driver's step *)
(* is the smallest coupling interval, and clockInit aborts unless every    *)
(* interval and every offset is a multiple of it, so nothing is lost.      *)
(* A year has a whole number of steps and starts at step 0.                *)
(***************************************************************************)
EXTENDS Integers

CONSTANTS
    Namelists,   \* drv_in files the run may start with, records as in Namelist
    Year,        \* length of a year
    Never        \* a date beyond every run, as year 9999 or stop_ymd < 0

\* Components that have a clock; the driver's is "drv".  The esp clock and
\* the pause alarms are left out: no component pauses.
Comps == {"atm", "lnd", "ice", "ocn", "rof", "glc", "wav", "iac"}
Clocks == Comps \union {"drv"}
RunAlarms == Comps \union {"ocnnext", "glcavg"}
ClockAlarms == {"stop", "datestop", "restart"}

CplSeqOptions == {"CESM1_MOD", "CESM1_MOD_TIGHT", "RASM_OPTION1", "RASM_OPTION2",
                  "NUOPC", "NUOPC_TIGHT"}

\* What clockInit accepts, with the settings of cime_comp_mod that matter for
\* the loop.  stop_n and restart_n are 0 when the option is none or never.
Namelist ==
    [present: SUBSET Comps, prognostic: SUBSET Comps, rof_heat: BOOLEAN,
     dt: [Comps -> Nat \ {0}], offset: [Comps -> Int],
     stop_n: Nat, stop_date: Nat, restart_n: Nat, end_restart: BOOLEAN,
     glc_avg: {"glc_coupling_period", "yearly"}, seq: CplSeqOptions,
     wall_limit: BOOLEAN, force_stop_at: {"day", "month"}]

\* The checks of clockInit on intervals and offsets.
Accepted(nl) ==
    /\ nl.dt["lnd"] = nl.dt["atm"] /\ nl.dt["ice"] = nl.dt["atm"]
    /\ \E c \in Comps : nl.dt[c] = 1
    /\ \A c \in Comps : -nl.dt[c] <= nl.offset[c] /\ nl.offset[c] <= nl.dt[c]
    /\ nl.prognostic \subseteq nl.present

ASSUME NamelistAssumption ==
    Namelists \subseteq Namelist /\ \A nl \in Namelists : Accepted(nl)
ASSUME CalendarAssumption == Year \in Nat \ {0} /\ Never \in Nat \ {0}

VARIABLES
    nml,         \* the namelist of the run
    endRestart,  \* seq_timemgr_end_restart
    clk,         \* CurrTime of each clock
    runAlarm,    \* run alarms of the driver's clock
    clockAlarm   \* stop, datestop and restart alarm of each clock

clockVars == <<nml, endRestart, clk, runAlarm, clockAlarm>>

Now == clk["drv"]

---------------------------------------------------------------------------
\* Alarms.  interval = 0 stands for RingIntervalSet = .false.

Alarm == [ring: Int, interval: Nat, prev: Int, ringing: BOOLEAN]

\* ESMF_AlarmCreate and ESMF_ClockAddAlarm.
NewAlarm(ring, interval) ==
    [ring |-> ring, interval |-> interval, prev |-> ring - interval, ringing |-> FALSE]

\* The ring time alarmInit computes: one interval before the reference time,
\* then forward by whole intervals until it is later than the clock.
NextAlarm(ref, interval, now) ==
    IF now < ref - interval
    THEN ref - interval
    ELSE ref + interval * ((now - ref) \div interval) + interval

Periodic(ref, interval, now) == NewAlarm(NextAlarm(ref, interval, now), interval)

\* Options none, never and date: an interval of 9999 years, no forwarding.
OneShot(date) == NewAlarm(date, Never)

\* ESMF_AlarmSet with a new ring time and no interval.
AlarmSet(a, date) == [a EXCEPT !.ring = date, !.interval = 0, !.ringing = FALSE]

SetOff(a) == [a EXCEPT !.ringing = FALSE]
SetOn(a) == [a EXCEPT !.ringing = TRUE]

\* The alarm's part of ESMF_ClockAdvance, for a clock that has just been
\* moved by step to now.
Tick(a, now, step) ==
    LET first == a.ring <= now /\ now < a.ring + step
        again == a.prev + a.interval <= now
    IN  IF a.interval > 0
        THEN [a EXCEPT !.ringing = @ \/ first \/ again,
                       !.prev = IF again THEN @ + a.interval ELSE @]
        ELSE [a EXCEPT !.ringing = @ \/ a.ring <= now]

\* Variant: datestop has to ring as the others do.
DateStopByRinging(a, now) == a.ringing

\* alarmIsOn for datestop is a matter of level, for the others of ringing.
DateStopOn(a, now) == a.ringing \/ now >= a.ring

---------------------------------------------------------------------------
\* EClockInit: from the start date by whole steps until curr is reached.
FirstTick(step, curr) ==
    IF curr % step = 0 THEN curr ELSE step * (curr \div step) + step

\* restart_option end means none with end_restart, none turns end_restart off;
\* in the namelists here restart_n = 0 says that no alarm of its own is wanted.
InitialAlarms(nl, curr, now) ==
    [a \in ClockAlarms |->
        CASE a = "stop" -> IF nl.stop_n = 0 THEN OneShot(Never) ELSE Periodic(curr, nl.stop_n, now)
          [] a = "datestop" -> OneShot(nl.stop_date)
          [] a = "restart" -> IF nl.restart_n = 0 THEN OneShot(Never)
                              ELSE Periodic(curr, nl.restart_n, now)]

\* Run alarms are set on the driver's clock.  Components other than glc run at
\* the first step of their interval, glc and ocnnext at the last.
RunReference(nl, r, curr) ==
    CASE r = "glc" -> curr + nl.offset["glc"]
      [] r = "ocnnext" -> curr + nl.offset["ocn"]
      [] OTHER -> curr + nl.offset[r] + 1

InitialRunAlarm(nl, r, curr) ==
    IF r = "glcavg"
    THEN IF nl.glc_avg = "yearly"
         THEN Periodic(Year * (curr \div Year), Year, curr)
         ELSE Periodic(curr + nl.offset["glc"], nl.dt["glc"], curr)
    ELSE LET c == IF r = "ocnnext" THEN "ocn" ELSE r
         IN  Periodic(RunReference(nl, r, curr), nl.dt[c], curr)

\* seq_timemgr_clockInit for a run that starts or continues at curr.
ClockInit(nl, curr) ==
    LET first == [c \in Clocks |-> IF c = "drv" THEN curr ELSE FirstTick(nl.dt[c], curr)]
    IN  [end |-> nl.end_restart,
         clk |-> first,
         run |-> [r \in RunAlarms |-> InitialRunAlarm(nl, r, curr)],
         alarms |-> [c \in Clocks |-> InitialAlarms(nl, curr, first[c])]]

---------------------------------------------------------------------------
\* seq_timemgr_clockAdvance.  force is the date of a forced stop, or -1.

\* Everything is set off first, and a forced stop replaces the stop date.
Quiet(c, force) ==
    [clockAlarm[c] EXCEPT
        !["stop"] = SetOff(@), !["restart"] = SetOff(@),
        !["datestop"] = IF force >= 0 THEN AlarmSet(@, force) ELSE SetOff(@)]

\* Variant: run alarms are not set off.
RunAlarmsLeftOn(now) == [r \in RunAlarms |-> Tick(runAlarm[r], now, 1)]

\* The driver's clock moves by one step and its run alarms tick.
RunAlarmsAt(now) == [r \in RunAlarms |-> Tick(SetOff(runAlarm[r]), now, 1)]

\* A component's clock moves by its interval when its run alarm rings; there
\* is no such statement for iac.
ClockMoves(c, alarms) ==
    c = "drv" \/ (c \in Comps \ {"iac"} /\ alarms[c].ringing)

StepOf(c) == IF c = "drv" THEN 1 ELSE nml.dt[c]

\* Where end_restart sets the restart alarm on: at any kind of stop.
EndsAtStopOnly(alarms, now) == alarms["stop"].ringing   \* Variant: not at a stop date.
Ends(alarms, now) == alarms["stop"].ringing \/ DateStopOn(alarms["datestop"], now)

ClockAdvance(force) ==
    /\ runAlarm' = RunAlarmsAt(Now + 1)
    /\ endRestart' = (endRestart \/ force >= 0)
    /\ clk' = [c \in Clocks |-> IF ClockMoves(c, runAlarm') THEN clk[c] + StepOf(c) ELSE clk[c]]
    /\ clockAlarm' = [c \in Clocks |->
           LET quiet == Quiet(c, force)
               after == IF ClockMoves(c, runAlarm')
                        THEN [a \in ClockAlarms |-> Tick(quiet[a], clk'[c], StepOf(c))]
                        ELSE quiet
           IN  IF endRestart' /\ Ends(after, clk'[c])
               THEN [after EXCEPT !["restart"] = SetOn(@)]
               ELSE after]
    /\ UNCHANGED nml

\* The driver's loop ends when this holds after a step.
StopAlarm == clockAlarm["drv"]["stop"].ringing \/ DateStopOn(clockAlarm["drv"]["datestop"], Now)
=============================================================================
