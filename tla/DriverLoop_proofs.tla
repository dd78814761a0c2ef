------------------------- MODULE DriverLoop_proofs -------------------------
(***************************************************************************)
(* Theorems about DriverLoop for every set of namelists that clockInit     *)
(* accepts and for any number of crashes and continued runs.               *)
(***************************************************************************)
EXTENDS DriverLoop, FiniteSetTheorems, TLAPS

-----------------------------------------------------------------------------
(* Arithmetic of clocks. *)

(* Whole intervals below a number: division leaves less than an interval. *)
LEMMA Division ==
  ASSUME NEW n \in Nat \ {0}, NEW t \in Int
  PROVE  /\ t \div n \in Int
         /\ n * (t \div n) <= t
         /\ t < n * (t \div n) + n
         /\ t % n = t - n * (t \div n)
  OBVIOUS

(* A new alarm rings later than the clock, by at most one interval, if its *)
(* reference time is not further ahead than one interval and a step.       *)
LEMMA NextAlarmBounds ==
  ASSUME NEW n \in Nat \ {0}, NEW ref \in Int, NEW now \in Int, ref <= now + n + 1
  PROVE  /\ NextAlarm(ref, n, now) \in Int
         /\ now < NextAlarm(ref, n, now)
         /\ NextAlarm(ref, n, now) <= now + n
<1>1. CASE now < ref - n
  BY <1>1 DEF NextAlarm
<1>2. CASE ~(now < ref - n)
  <2> DEFINE q == (now - ref) \div n
  <2>1. /\ q \in Int
        /\ n * q <= now - ref
        /\ now - ref < n * q + n
    BY Division
  <2>2. NextAlarm(ref, n, now) = ref + n * q + n
    BY <1>2 DEF NextAlarm
  <2>3. n * q \in Int
    BY <2>1
  <2> HIDE DEF q
  <2> QED
    BY <2>1, <2>2, <2>3
<1> QED
  BY <1>1, <1>2

(* Aligned dates are those of whole intervals. *)
Aligned(n, t) == \E k \in Int : t = n * k

LEMMA AlignedNext ==
  ASSUME NEW n \in Nat \ {0}, NEW t \in Int, Aligned(n, t)
  PROVE  Aligned(n, t + n)
<1>1. PICK k \in Int : t = n * k
  BY DEF Aligned
<1>2. t + n = n * (k + 1)
  BY <1>1
<1> QED
  BY <1>2 DEF Aligned

(* No multiple of an interval lies within it, except its beginning.        *)
LEMMA NoMultipleBelow ==
  ASSUME NEW n \in Nat \ {0}, NEW m \in Int, 0 <= n * m, n * m < n
  PROVE  m = 0
<1>1. CASE m >= 1
  <2>1. n * (m - 1) >= 0
    BY <1>1
  <2>2. n * (m - 1) = n * m - n
    OBVIOUS
  <2>3. n * m \in Int
    OBVIOUS
  <2> QED
    BY <2>1, <2>2, <2>3
<1>2. CASE m <= -1
  <2>1. n * (-(m + 1)) >= 0
    BY <1>2
  <2>2. n * (-(m + 1)) = -(n * m) - n
    OBVIOUS
  <2>3. n * m \in Int
    OBVIOUS
  <2> QED
    BY <2>1, <2>2, <2>3
<1> QED
  BY <1>1, <1>2

(* A clock that is advanced from the start date to an aligned date is      *)
(* exactly there, and at any other it is at the next aligned date.         *)
LEMMA FirstTickAligned ==
  ASSUME NEW n \in Nat \ {0}, NEW t \in Int
  PROVE  /\ FirstTick(n, t) \in Int
         /\ Aligned(n, FirstTick(n, t))
         /\ Aligned(n, t) => FirstTick(n, t) = t
<1> DEFINE q == t \div n
<1>1. /\ q \in Int
      /\ n * q <= t
      /\ t < n * q + n
      /\ t % n = t - n * q
  BY Division
<1>2. n * q \in Int
  BY <1>1
<1>3. n * q + n = n * (q + 1)
  BY <1>1
<1>4. FirstTick(n, t) = IF t % n = 0 THEN t ELSE n * q + n
  BY DEF FirstTick
<1>5. FirstTick(n, t) \in Int
  BY <1>2, <1>4
<1>6. Aligned(n, FirstTick(n, t))
  <2>1. CASE t % n = 0
    <3>1. t = n * q
      BY <2>1, <1>1, <1>2
    <3> QED
      BY <2>1, <3>1, <1>1, <1>4 DEF Aligned
  <2>2. CASE t % n # 0
    <3> HIDE DEF q
    <3>1. FirstTick(n, t) = n * (q + 1)
      BY <2>2, <1>3, <1>4
    <3>2. q + 1 \in Int
      BY <1>1
    <3> QED
      BY <3>1, <3>2 DEF Aligned
  <2> QED
    BY <2>1, <2>2
<1>7. ASSUME Aligned(n, t)
      PROVE  t % n = 0
  <2>1. PICK k \in Int : t = n * k
    BY <1>7 DEF Aligned
  <2> HIDE DEF q
  <2>2. n * (k - q) = n * k - n * q
    BY <1>1, <2>1
  <2>3. k - q \in Int /\ n * k \in Int
    BY <1>1, <2>1
  <2>4. 0 <= n * (k - q) /\ n * (k - q) < n
    BY <1>1, <1>2, <2>1, <2>2, <2>3
  <2>5. k - q = 0
    BY <2>3, <2>4, NoMultipleBelow
  <2>6. n * (k - q) = 0
    BY <2>5
  <2> QED
    BY <1>1, <1>2, <2>1, <2>2, <2>3, <2>6
<1> QED
  BY <1>4, <1>5, <1>6, <1>7

(* An alarm in step with its clock: the clock is within the interval that  *)
(* began at prev, and the ring time is the end of that interval or past.   *)
Paced(a, n, now) ==
  /\ a \in Alarm
  /\ a.interval = n
  /\ a.prev <= now
  /\ now < a.prev + n
  /\ a.ring = a.prev + n \/ a.ring <= a.prev

(* A paced alarm rings exactly when the clock reaches the end of its       *)
(* interval, and is paced again.                                           *)
LEMMA TickPaced ==
  ASSUME NEW n \in Nat \ {0}, NEW now \in Int, NEW a, Paced(a, n, now)
  PROVE  LET b == Tick(SetOff(a), now + 1, 1)
         IN  /\ Paced(b, n, now + 1)
             /\ b.prev = IF b.ringing THEN a.prev + n ELSE a.prev
<1> DEFINE b == Tick(SetOff(a), now + 1, 1)
           rings == a.prev + n <= now + 1
<1>1. /\ a \in Alarm /\ a.interval = n
      /\ a.ring \in Int /\ a.prev \in Int /\ n > 0
      /\ a.prev <= now /\ now < a.prev + n
      /\ a.ring = a.prev + n \/ a.ring <= a.prev
  BY DEF Paced, Alarm
<1>2. a.ring <= now + 1 /\ now + 1 < a.ring + 1 => rings
  BY <1>1
<1>3. CASE rings
  <2>1. b = [SetOff(a) EXCEPT !.ringing = TRUE, !.prev = a.prev + n]
    BY <1>1, <1>3 DEF Tick, SetOff, Alarm
  <2>2. b \in Alarm /\ b.interval = n /\ b.ring = a.ring /\ b.ringing = TRUE /\ b.prev = a.prev + n
    <3>1. a.prev + n \in Int
      BY <1>1
    <3>2. SetOff(a) \in Alarm /\ SetOff(a).interval = n /\ SetOff(a).ring = a.ring
      BY <1>1 DEF SetOff, Alarm
    <3> HIDE DEF b
    <3> QED
      BY <2>1, <3>1, <3>2 DEF Alarm
  <2> HIDE DEF b
  <2>3. Paced(b, n, now + 1)
    BY <1>1, <1>3, <2>2 DEF Paced
  <2> QED
    BY <2>2, <2>3 DEF b
<1>4. CASE ~rings
  <2>1. b = [SetOff(a) EXCEPT !.ringing = FALSE, !.prev = a.prev]
    BY <1>1, <1>2, <1>4 DEF Tick, SetOff, Alarm
  <2>2. b \in Alarm /\ b.interval = n /\ b.ring = a.ring /\ b.ringing = FALSE /\ b.prev = a.prev
    BY <1>1, <2>1 DEF SetOff, Alarm
  <2> HIDE DEF b
  <2>3. Paced(b, n, now + 1)
    BY <1>1, <1>4, <2>2 DEF Paced
  <2> QED
    BY <2>2, <2>3 DEF b
<1> QED
  BY <1>3, <1>4

(* A new alarm is paced. *)
LEMMA PeriodicPaced ==
  ASSUME NEW n \in Nat \ {0}, NEW ref \in Int, NEW now \in Int, ref <= now + n + 1
  PROVE  Paced(Periodic(ref, n, now), n, now)
<1>1. /\ NextAlarm(ref, n, now) \in Int
      /\ now < NextAlarm(ref, n, now)
      /\ NextAlarm(ref, n, now) <= now + n
  BY NextAlarmBounds
<1> HIDE DEF NextAlarm
<1> QED
  BY <1>1 DEF Paced, Periodic, NewAlarm, Alarm

-----------------------------------------------------------------------------
(* Clocks stay in step. *)

(* The part of a namelist's type that the clocks need. *)
LEMMA NamelistFacts ==
  ASSUME NEW nl \in Namelists
  PROVE  /\ nl.present \subseteq Comps
         /\ nl.dt \in [Comps -> Nat \ {0}]
         /\ nl.offset \in [Comps -> Int]
         /\ nl.stop_n \in Nat /\ nl.stop_date \in Nat /\ nl.wall_limit \in BOOLEAN
         /\ \A c \in Comps : nl.offset[c] <= nl.dt[c]
  BY NamelistAssumption DEF Namelist, Accepted

(* Components whose clock is advanced. *)
Moving == nml.present \ {"iac"}

(* The clock of a component is at the beginning or the end of a coupling   *)
(* interval, in the interval of its run alarm.                             *)
ClockPaced(c) ==
  /\ Aligned(nml.dt[c], clk[c])
  /\ Paced(runAlarm[c], nml.dt[c], Now)
  /\ runAlarm[c].prev <= clk[c]
  /\ clk[c] < runAlarm[c].prev + nml.dt[c]

(* Restart files of components are made for the ends of their intervals,   *)
(* so that a run continues from a date at which all of them coincide.      *)
FilesAligned == \A c \in Moving : \A t \in DOMAIN compFile[c] : Aligned(nml.dt[c], t)

InStep ==
  /\ nml \in Namelists
  /\ clk \in [Clocks -> Int]
  /\ DOMAIN drvFile \subseteq Int
  /\ \A c \in Moving : ClockPaced(c)
  /\ FilesAligned

(* A run that starts at the end of a component's interval has the          *)
(* component's clock at that date and its run alarm in step.               *)
LEMMA ClockInitPaced ==
  ASSUME NEW nl \in Namelists, NEW t \in Int
  PROVE  LET new == ClockInit(nl, t)
         IN  /\ new.clk \in [Clocks -> Int]
             /\ new.clk["drv"] = t
             /\ \A c \in Comps : Aligned(nl.dt[c], t) =>
                    new.clk[c] = t /\ Paced(new.run[c], nl.dt[c], t)
<1> DEFINE new == ClockInit(nl, t)
<1>1. \A c \in Comps : nl.dt[c] \in Nat \ {0} /\ nl.offset[c] \in Int /\ nl.offset[c] <= nl.dt[c]
  BY NamelistFacts
<1>2. /\ new.clk = [c \in Clocks |-> IF c = "drv" THEN t ELSE FirstTick(nl.dt[c], t)]
      /\ new.run = [r \in RunAlarms |-> InitialRunAlarm(nl, r, t)]
  BY DEF ClockInit
<1>3. new.clk \in [Clocks -> Int] /\ new.clk["drv"] = t
  BY <1>1, <1>2, FirstTickAligned DEF Clocks
<1>4. ASSUME NEW c \in Comps, Aligned(nl.dt[c], t)
      PROVE  new.clk[c] = t /\ Paced(new.run[c], nl.dt[c], t)
  <2>1. c \in Clocks /\ c \in RunAlarms /\ c # "drv" /\ c # "glcavg" /\ c # "ocnnext"
    BY DEF Comps, Clocks, RunAlarms
  <2>2. new.clk[c] = t
    BY <1>1, <1>2, <1>4, <2>1, FirstTickAligned
  <2>3. new.run[c] = Periodic(RunReference(nl, c, t), nl.dt[c], t)
    BY <1>2, <2>1 DEF InitialRunAlarm
  <2>4. /\ RunReference(nl, c, t) \in Int
        /\ RunReference(nl, c, t) <= t + nl.dt[c] + 1
    <3>1. CASE c = "glc"
      BY <1>1, <3>1 DEF RunReference
    <3>2. CASE c # "glc"
      BY <1>1, <2>1, <3>2 DEF RunReference
    <3> QED
      BY <3>1, <3>2
  <2> QED
    BY <1>1, <2>2, <2>3, <2>4, PeriodicPaced
<1> QED
  BY <1>3, <1>4

(* Advancing the clocks keeps each one in the interval of its run alarm,   *)
(* because the alarm rings in the step in which its interval ends and in   *)
(* no other, and the clock moves when it rings.                            *)
LEMMA AdvancePaced ==
  ASSUME InStep, NEW f, ClockAdvance(f)
  PROVE  /\ nml' = nml
         /\ clk' \in [Clocks -> Int]
         /\ \A c \in Moving : ClockPaced(c)'
<1> USE DEF InStep
<1>1. nml' = nml
  BY DEF ClockAdvance
<1>2. \A c \in Comps : nml.dt[c] \in Nat \ {0}
  BY NamelistFacts
<1>3. nml.present \subseteq Comps
  BY NamelistFacts
<1>4. clk' = [c \in Clocks |-> IF ClockMoves(c, runAlarm') THEN clk[c] + StepOf(c) ELSE clk[c]]
  BY DEF ClockAdvance
<1>5. \A c \in Clocks : clk[c] \in Int /\ StepOf(c) \in Int
  BY <1>2 DEF StepOf, Clocks
<1>6. clk' \in [Clocks -> Int]
  BY <1>4, <1>5
<1>7. Now' = Now + 1 /\ Now \in Int
  BY <1>4, <1>5 DEF Now, ClockMoves, StepOf, Clocks
<1>8. ASSUME NEW c \in Moving
      PROVE  ClockPaced(c)'
  <2> DEFINE n == nml.dt[c]
             a == runAlarm[c]
             b == Tick(SetOff(a), Now + 1, 1)
  <2>1. c \in Comps /\ c # "iac" /\ c # "drv" /\ c \in Clocks /\ c \in RunAlarms
    BY <1>3 DEF Moving, Comps, Clocks, RunAlarms
  <2>2. n \in Nat \ {0} /\ clk[c] \in Int
    BY <1>2, <1>5, <2>1
  <2>3. ClockPaced(c)
    OBVIOUS
  <2>4. Paced(a, n, Now) /\ a.prev \in Int
    BY <2>3 DEF ClockPaced, Paced, Alarm
  <2>5. runAlarm'[c] = b
    BY <2>1, <1>7 DEF ClockAdvance, RunAlarmsAt
  <2>6. clk'[c] = IF b.ringing THEN clk[c] + n ELSE clk[c]
    BY <1>4, <2>1, <2>5 DEF ClockMoves, StepOf
  <2> HIDE DEF n, a
  <2>7. /\ Paced(b, n, Now + 1)
        /\ b.prev = IF b.ringing THEN a.prev + n ELSE a.prev
    BY <2>2, <2>4, <1>7, TickPaced
  <2> HIDE DEF b
  <2>8. Aligned(n, clk[c]) /\ a.prev <= clk[c] /\ clk[c] < a.prev + n
    BY <2>3 DEF ClockPaced, n, a
  <2>9. Aligned(n, clk'[c])
    BY <2>2, <2>6, <2>8, AlignedNext
  <2>10. b.prev <= clk'[c] /\ clk'[c] < b.prev + n
    BY <2>2, <2>4, <2>6, <2>7, <2>8
  <2>11. nml'.dt[c] = n
    BY <1>1 DEF n
  <2> QED
    BY <1>7, <2>5, <2>7, <2>9, <2>10, <2>11 DEF ClockPaced
<1> QED
  BY <1>1, <1>6, <1>8

(* What the run loop does between two advances leaves the clocks alone;    *)
(* restart files of components are named after their clocks.               *)
LEMMA RunPaced ==
  ASSUME InStep, NEW C, RunComponents(C), UNCHANGED clockVars, UNCHANGED drvFile
  PROVE  InStep'
<1>1. nml' = nml /\ clk' = clk /\ runAlarm' = runAlarm /\ drvFile' = drvFile
  BY DEF clockVars
<1>2. ASSUME NEW c \in Moving, NEW t \in DOMAIN compFile'[c]
      PROVE  Aligned(nml.dt[c], t)
  <2>1. c \in Comps
    BY NamelistFacts DEF Moving, InStep
  <2>2. t \in DOMAIN compFile[c] \union {clk[c]}
    BY <1>2, <2>1 DEF RunComponents, Filed
  <2>3. Aligned(nml.dt[c], clk[c])
    BY DEF InStep, ClockPaced
  <2> QED
    BY <2>2, <2>3 DEF InStep, FilesAligned
<1>3. FilesAligned'
  BY <1>1, <1>2 DEF FilesAligned, Moving
<1> QED
  BY <1>1, <1>3 DEF InStep, Moving, ClockPaced, Now

(* The inductive step. *)
LEMMA InStepInitially ==
  Init => InStep
<1> SUFFICES ASSUME Init PROVE InStep
  OBVIOUS
<1>1. nml \in Namelists /\ nml.present \subseteq Comps /\ \A c \in Comps : nml.dt[c] \in Nat \ {0}
  BY NamelistFacts DEF Init
<1>2. clk = ClockInit(nml, 0).clk /\ runAlarm = ClockInit(nml, 0).run
  BY DEF Init
<1>3. \A c \in Comps : Aligned(nml.dt[c], 0)
  <2> TAKE c \in Comps
  <2>1. 0 = nml.dt[c] * 0
    BY <1>1
  <2> QED
    BY <2>1 DEF Aligned
<1>4. /\ clk \in [Clocks -> Int]
      /\ clk["drv"] = 0
      /\ \A c \in Comps : clk[c] = 0 /\ Paced(runAlarm[c], nml.dt[c], 0)
  <2> HIDE DEF ClockInit
  <2> QED
    BY <1>1, <1>2, <1>3, ClockInitPaced
<1>5. ASSUME NEW c \in Moving
      PROVE  ClockPaced(c)
  <2>1. c \in Comps
    BY <1>1 DEF Moving
  <2> QED
    BY <2>1, <1>3, <1>4 DEF ClockPaced, Now, Paced
<1>6. FilesAligned /\ DOMAIN drvFile \subseteq Int
  BY <1>1 DEF Init, FilesAligned, Moving
<1> QED
  BY <1>1, <1>4, <1>5, <1>6 DEF InStep

LEMMA InStepKept ==
  InStep /\ [Next]_vars => InStep'
<1> SUFFICES ASSUME InStep, [Next]_vars PROVE InStep'
  OBVIOUS
<1>1. ASSUME NEW f, ClockAdvance(f), UNCHANGED <<drvFile, compFile>>
      PROVE  InStep'
  <2>1. nml' = nml /\ clk' \in [Clocks -> Int] /\ \A c \in Moving : ClockPaced(c)'
    BY <1>1, AdvancePaced
  <2>2. FilesAligned'
    BY <1>1, <2>1 DEF InStep, FilesAligned, Moving
  <2> QED
    BY <1>1, <2>1, <2>2 DEF InStep, Moving
<1>2. ASSUME UNCHANGED <<clockVars, compFile>>, DOMAIN drvFile' \subseteq Int
      PROVE  InStep'
  BY <1>2 DEF InStep, clockVars, FilesAligned, Moving, ClockPaced, Now
<1>3. CASE Advance
  BY <1>3, <1>1 DEF Advance
<1>4. CASE AbortOnGlcAlarms
  BY <1>4, <1>1 DEF AbortOnGlcAlarms
<1>5. CASE OcnSetup
  BY <1>5, <1>2 DEF OcnSetup, SameLoop, InStep
<1>6. CASE Surface
  BY <1>6, RunPaced DEF Surface, SameLoop
<1>7. CASE Flux
  BY <1>7, <1>2 DEF Flux, SameLoop, InStep
<1>8. CASE Land
  BY <1>8, <1>2 DEF Land, SameLoop, InStep
<1>9. CASE Late
  BY <1>9, RunPaced DEF Late, SameLoop
<1>10. CASE WriteRestart
  <2>1. Now \in Int
    BY DEF InStep, Now, Clocks
  <2>2. DOMAIN drvFile' \subseteq DOMAIN drvFile \union {Now}
    BY <1>10 DEF WriteRestart, Filed
  <2> QED
    BY <1>10, <1>2, <2>1, <2>2 DEF WriteRestart, SameLoop, InStep
<1>11. CASE EndStep
  BY <1>11, <1>2 DEF EndStep, InStep
<1>12. CASE Crash
  BY <1>12, <1>2 DEF Crash, InStep
<1>13. CASE Continue
  <2>1. PICK t \in DOMAIN drvFile :
          /\ Complete(t)
          /\ clk' = ClockInit(nml, t).clk
          /\ runAlarm' = ClockInit(nml, t).run
    BY <1>13 DEF Continue
  <2>2. UNCHANGED <<nml, drvFile, compFile>>
    BY <1>13 DEF Continue
  <2>3. t \in Int /\ nml \in Namelists /\ nml.present \subseteq Comps
    BY NamelistFacts DEF InStep
  <2>4. \A c \in Moving : Aligned(nml.dt[c], t)
    BY <2>1 DEF Complete, InStep, FilesAligned, Moving
  <2>5. /\ clk' \in [Clocks -> Int]
        /\ clk'["drv"] = t
        /\ \A c \in Moving : clk'[c] = t /\ Paced(runAlarm'[c], nml.dt[c], t)
    BY <2>1, <2>3, <2>4, ClockInitPaced DEF Moving
  <2>6. ASSUME NEW c \in Moving
        PROVE  ClockPaced(c)'
    BY <2>2, <2>4, <2>5 DEF ClockPaced, Now, Paced
  <2> QED
    BY <2>2, <2>3, <2>5, <2>6 DEF InStep, FilesAligned, Moving
<1>14. CASE UNCHANGED vars
  BY <1>14, <1>2 DEF vars, InStep
<1> QED
  BY <1>3, <1>4, <1>5, <1>6, <1>7, <1>8, <1>9, <1>10, <1>11, <1>12, <1>13, <1>14 DEF Next, Step

(* ClocksInStep for every namelist: no component's clock is ever a whole   *)
(* coupling interval away from the driver's, also when seq_timemgr_mod     *)
(* initialises the clocks again from a restart (clockInit, clockAdvance).  *)
THEOREM ClocksStayInStep == Spec => []ClocksInStep
<1>1. InStep => ClocksInStep
  <2> SUFFICES ASSUME InStep, NEW c \in Moving
               PROVE  clk[c] - Now < nml.dt[c] /\ Now - clk[c] < nml.dt[c]
    BY DEF ClocksInStep, Moving
  <2>1. c \in Comps /\ c \in Clocks /\ "drv" \in Clocks
    BY NamelistFacts DEF InStep, Moving, Clocks
  <2>2. nml.dt[c] \in Nat /\ clk[c] \in Int /\ Now \in Int
    BY <2>1, NamelistFacts DEF InStep, Now
  <2>3. ClockPaced(c)
    BY DEF InStep
  <2> QED
    BY <2>2, <2>3 DEF ClockPaced, Paced, Alarm
<1>2. Init => InStep
  BY InStepInitially
<1>3. InStep /\ [Next]_vars => InStep'
  BY InStepKept
<1> QED
  BY <1>1, <1>2, <1>3, PTL DEF Spec
-----------------------------------------------------------------------------
(* The end of a run. *)

Stop == clockAlarm["drv"]["stop"]
StopDate == clockAlarm["drv"]["datestop"]
Restart == clockAlarm["drv"]["restart"]

(* An alarm that ticks with a clock of step 1 rings at its ring time. *)
LEMMA TickAtRing ==
  ASSUME NEW a \in Alarm, NEW now \in Int
  PROVE  /\ Tick(a, now, 1) \in Alarm
         /\ Tick(a, now, 1).ring = a.ring
         /\ a.ring = now => Tick(a, now, 1).ringing = TRUE
<1>1. /\ a.ring \in Int /\ a.interval \in Nat /\ a.prev \in Int /\ a.ringing \in BOOLEAN
      /\ a.prev + a.interval \in Int
  BY DEF Alarm
<1> DEFINE again == a.prev + a.interval <= now
           first == a.ring <= now /\ now < a.ring + 1
<1>2. CASE a.interval > 0
  <2> DEFINE r == a.ringing \/ first \/ again
             p == IF again THEN a.prev + a.interval ELSE a.prev
  <2>1. Tick(a, now, 1) = [a EXCEPT !.ringing = r, !.prev = p]
    BY <1>2 DEF Tick
  <2>2. r \in BOOLEAN /\ p \in Int
    BY <1>1
  <2>3. a.ring = now => r = TRUE
    BY <1>1
  <2> HIDE DEF r, p
  <2> QED
    BY <2>1, <2>2, <2>3 DEF Alarm
<1>3. CASE ~(a.interval > 0)
  <2> DEFINE r == a.ringing \/ a.ring <= now
  <2>1. Tick(a, now, 1) = [a EXCEPT !.ringing = r]
    BY <1>3 DEF Tick
  <2>2. r \in BOOLEAN
    BY <1>1
  <2>3. a.ring = now => r = TRUE
    BY <1>1
  <2> HIDE DEF r
  <2> QED
    BY <2>1, <2>2, <2>3 DEF Alarm
<1> QED
  BY <1>2, <1>3

LEMMA SetAlarm ==
  ASSUME NEW a \in Alarm, NEW d \in Int
  PROVE  /\ SetOff(a) \in Alarm /\ SetOff(a).ring = a.ring
         /\ SetOn(a) \in Alarm /\ SetOn(a).ringing = TRUE
         /\ AlarmSet(a, d) \in Alarm
  BY DEF SetOff, SetOn, AlarmSet, Alarm

(* What clockAdvance does to the alarms of the driver's clock.  When the   *)
(* run is to end here and to leave a restart, the restart alarm rings.     *)
LEMMA DriverAlarms ==
  ASSUME clockAlarm["drv"] \in [ClockAlarms -> Alarm], Now \in Int, Now' = Now + 1,
         NEW f \in Int, ClockAdvance(f)
  PROVE  /\ clockAlarm'["drv"] \in [ClockAlarms -> Alarm]
         /\ Stop' = Tick(SetOff(Stop), Now + 1, 1)
         /\ f < 0 => StopDate' = Tick(SetOff(StopDate), Now + 1, 1)
         /\ endRestart' /\ StopAlarm' => Restart'.ringing = TRUE
<1> DEFINE quiet == Quiet("drv", f)
           after == [a \in ClockAlarms |-> Tick(quiet[a], Now + 1, 1)]
           ends == endRestart' /\ Ends(after, Now + 1)
<1>1. quiet \in [ClockAlarms -> Alarm]
  <2>1. \A a \in ClockAlarms : clockAlarm["drv"][a] \in Alarm
    OBVIOUS
  <2>2. /\ SetOff(Stop) \in Alarm /\ SetOff(Restart) \in Alarm
        /\ (IF f >= 0 THEN AlarmSet(StopDate, f) ELSE SetOff(StopDate)) \in Alarm
    BY <2>1, SetAlarm DEF Stop, Restart, StopDate, ClockAlarms
  <2> QED
    BY <2>2 DEF Quiet, ClockAlarms, Stop, Restart, StopDate
<1>2. quiet["stop"] = SetOff(Stop) /\ (f < 0 => quiet["datestop"] = SetOff(StopDate))
  BY DEF Quiet, ClockAlarms, Stop, StopDate
<1>3. "drv" \in Clocks /\ clk'["drv"] = Now + 1 /\ StepOf("drv") = 1 /\ ClockMoves("drv", runAlarm')
  BY DEF Clocks, Now, StepOf, ClockMoves
<1>4. clockAlarm'["drv"] = IF ends THEN [after EXCEPT !["restart"] = SetOn(@)] ELSE after
  BY <1>3 DEF ClockAdvance
<1>5. after \in [ClockAlarms -> Alarm]
  <2> HIDE DEF quiet
  <2>1. Now + 1 \in Int
    OBVIOUS
  <2>2. ASSUME NEW a \in ClockAlarms
        PROVE  Tick(quiet[a], Now + 1, 1) \in Alarm
    <3>1. quiet[a] \in Alarm
      BY <1>1
    <3> QED
      BY <2>1, <3>1, TickAtRing
  <2> QED
    BY <2>2
<1>6. SetOn(after["restart"]) \in Alarm /\ SetOn(after["restart"]).ringing = TRUE
  <2>1. after["restart"] \in Alarm
    BY <1>5 DEF ClockAlarms
  <2> HIDE DEF after
  <2> QED
    BY <2>1, SetAlarm
<1> HIDE DEF quiet
<1>7. /\ after["stop"] = Tick(SetOff(Stop), Now + 1, 1)
      /\ f < 0 => after["datestop"] = Tick(SetOff(StopDate), Now + 1, 1)
  BY <1>2 DEF ClockAlarms
<1> HIDE DEF after
<1>8. /\ clockAlarm'["drv"] \in [ClockAlarms -> Alarm]
      /\ Stop' = after["stop"] /\ StopDate' = after["datestop"]
      /\ ends => Restart'.ringing = TRUE
  BY <1>4, <1>5, <1>6 DEF ClockAlarms, Stop, StopDate, Restart
<1>9. StopAlarm' = Ends(after, Now + 1)
  BY <1>8 DEF StopAlarm, Ends, Stop, StopDate, DateStopOn
<1> QED
  BY <1>7, <1>8, <1>9

(* The stop alarm rings when the clock reaches its ring time, which the    *)
(* clock has not passed; the stop date and the dates of restarts bound the *)
(* clock too.  A step is begun only when none of them has been reached.    *)
InTime ==
  /\ force = -1
  /\ clockAlarm["drv"] \in [ClockAlarms -> Alarm]
  /\ Now <= Stop.ring
  /\ Now = Stop.ring => Stop.ringing
  /\ StopDate.ring = nml.stop_date
  /\ Now <= nml.stop_date /\ Now <= Horizon
  /\ phase = "advance" => Now < Stop.ring /\ Now < nml.stop_date
  /\ \A t \in DOMAIN drvFile : t <= nml.stop_date /\ t <= Horizon

(* The alarms of the driver's clock at the start of a run. *)
LEMMA InitialDriverAlarms ==
  ASSUME NEW nl \in Namelists, NEW t \in Int, t <= Horizon
  PROVE  LET alarms == ClockInit(nl, t).alarms["drv"]
         IN  /\ alarms \in [ClockAlarms -> Alarm]
             /\ t < alarms["stop"].ring
             /\ alarms["datestop"].ring = nl.stop_date
<1> DEFINE alarms == ClockInit(nl, t).alarms["drv"]
<1>1. nl.stop_n \in Nat /\ nl.stop_date \in Nat /\ nl.restart_n \in Nat
  BY NamelistAssumption DEF Namelist
<1>2. Never \in Nat \ {0} /\ Horizon < Never /\ Horizon \in Nat
  BY CalendarAssumption, BoundAssumption
<1>3. alarms = InitialAlarms(nl, t, t)
  BY DEF ClockInit, Clocks
<1>4. \A d \in Nat : OneShot(d) \in Alarm /\ OneShot(d).ring = d
  BY <1>2 DEF OneShot, NewAlarm, Alarm
<1>5. ASSUME NEW n \in Nat \ {0}
      PROVE  Periodic(t, n, t) \in Alarm /\ t < Periodic(t, n, t).ring
  <2>1. NextAlarm(t, n, t) \in Int /\ t < NextAlarm(t, n, t)
    <3>1. t <= t + n + 1
      OBVIOUS
    <3> QED
      BY <3>1, NextAlarmBounds
  <2> QED
    BY <2>1 DEF Periodic, NewAlarm, Alarm
<1>6. /\ alarms["stop"] = IF nl.stop_n = 0 THEN OneShot(Never) ELSE Periodic(t, nl.stop_n, t)
      /\ alarms["datestop"] = OneShot(nl.stop_date)
      /\ alarms["restart"] = IF nl.restart_n = 0 THEN OneShot(Never)
                             ELSE Periodic(t, nl.restart_n, t)
  BY <1>3 DEF InitialAlarms, ClockAlarms
<1>7. alarms["stop"] \in Alarm /\ t < alarms["stop"].ring
  BY <1>1, <1>2, <1>4, <1>5, <1>6
<1>8. alarms["restart"] \in Alarm
  BY <1>1, <1>2, <1>4, <1>5, <1>6
<1>9. alarms["datestop"] \in Alarm /\ alarms["datestop"].ring = nl.stop_date
  BY <1>1, <1>4, <1>6
<1>10. alarms = [a \in ClockAlarms |-> alarms[a]]
  BY <1>3 DEF InitialAlarms
<1> HIDE DEF alarms
<1>11. alarms \in [ClockAlarms -> Alarm]
  BY <1>7, <1>8, <1>9, <1>10 DEF ClockAlarms
<1> QED
  BY <1>7, <1>9, <1>11 DEF alarms
LEMMA InTimeInitially ==
  Init => InTime
<1> SUFFICES ASSUME Init PROVE InTime
  OBVIOUS
<1>1. /\ nml \in Namelists /\ nml.stop_date \in Nat
      /\ 0 <= Horizon
      /\ drvFile = [t \in {} |-> NoField]
      /\ force = -1
      /\ phase = Again
  BY NamelistFacts, BoundAssumption DEF Init
<1>2. /\ Now = 0
      /\ clockAlarm = ClockInit(nml, 0).alarms
  BY DEF Init, ClockInit, Now, Clocks
<1>3. /\ clockAlarm["drv"] \in [ClockAlarms -> Alarm]
      /\ 0 < Stop.ring
      /\ StopDate.ring = nml.stop_date
  <2> HIDE DEF ClockInit
  <2> QED
    BY <1>1, <1>2, InitialDriverAlarms DEF Stop, StopDate
<1>4. phase = "advance" => Now < nml.stop_date
  BY <1>1, <1>2, <1>3 DEF Again, StopAlarm, DateStopOn, StopDate
<1>5. Stop.ring \in Int
  BY <1>3 DEF Stop, Alarm, ClockAlarms
<1>6. DOMAIN drvFile = {}
  BY <1>1
<1> QED
  BY <1>1, <1>2, <1>3, <1>4, <1>5, <1>6 DEF InTime

(* No namelist sets a wall-clock limit. *)
NoWallLimit == \A nl \in Namelists : ~nl.wall_limit

LEMMA InTimeKept ==
  ASSUME NoWallLimit
  PROVE  InStep /\ InTime /\ [Next]_vars => InTime'
<1> SUFFICES ASSUME InStep, InTime, [Next]_vars PROVE InTime'
  OBVIOUS
<1>1. /\ nml \in Namelists /\ nml.stop_date \in Nat /\ Horizon \in Nat
      /\ Now \in Int /\ Stop \in Alarm /\ StopDate \in Alarm /\ Stop.ring \in Int
      /\ \A t \in DOMAIN drvFile : t \in Int
  <2>1. nml \in Namelists /\ Now \in Int /\ DOMAIN drvFile \subseteq Int
    BY DEF InStep, Now, Clocks
  <2>2. Stop \in Alarm /\ StopDate \in Alarm
    BY DEF InTime, Stop, StopDate, ClockAlarms
  <2> QED
    BY <2>1, <2>2, NamelistFacts, BoundAssumption DEF Alarm
<1>2. ASSUME phase = "advance", Now < Horizon, ClockAdvance(force),
             UNCHANGED <<force, drvFile>>, phase' # "advance"
      PROVE  InTime'
  <2>1. nml' = nml
    BY <1>2 DEF ClockAdvance
  <2>2. Now' = Now + 1
    BY <1>1, <1>2 DEF ClockAdvance, Now, Clocks, ClockMoves, StepOf
  <2>3. force = -1 /\ clockAlarm["drv"] \in [ClockAlarms -> Alarm]
    BY DEF InTime
  <2>4. /\ clockAlarm'["drv"] \in [ClockAlarms -> Alarm]
        /\ Stop' = Tick(SetOff(Stop), Now + 1, 1)
        /\ StopDate' = Tick(SetOff(StopDate), Now + 1, 1)
    <3>1. force \in Int /\ force < 0 /\ ClockAdvance(force) /\ Now \in Int
      BY <1>1, <1>2, <2>3
    <3> HIDE DEF ClockAdvance, Stop, StopDate
    <3> QED
      BY <2>2, <2>3, <3>1, DriverAlarms
  <2>5. /\ SetOff(Stop) \in Alarm /\ SetOff(Stop).ring = Stop.ring
        /\ SetOff(StopDate) \in Alarm /\ SetOff(StopDate).ring = StopDate.ring
    BY <1>1, SetAlarm
  <2>6. Now + 1 \in Int
    BY <1>1
  <2>7. /\ Stop'.ring = Stop.ring /\ StopDate'.ring = nml.stop_date
        /\ Stop.ring = Now + 1 => Stop'.ringing = TRUE
    BY <2>4, <2>5, <2>6, TickAtRing DEF InTime
  <2>8. Now + 1 <= Stop.ring /\ Now + 1 <= nml.stop_date /\ Now + 1 <= Horizon
    BY <1>1, <1>2 DEF InTime
  <2> QED
    BY <1>2, <2>1, <2>2, <2>3, <2>4, <2>7, <2>8 DEF InTime
<1>3. ASSUME UNCHANGED <<clockVars, force, drvFile>>, phase' # "advance"
      PROVE  InTime'
  BY <1>3 DEF InTime, clockVars, Now, Stop, StopDate
<1>4. CASE Advance
  BY <1>4, <1>2 DEF Advance, Goto
<1>5. CASE AbortOnGlcAlarms
  BY <1>5, <1>2 DEF AbortOnGlcAlarms, Goto
<1>6. CASE OcnSetup
  BY <1>6, <1>3 DEF OcnSetup, SameLoop, Goto
<1>7. CASE Surface
  BY <1>7, <1>3 DEF Surface, SameLoop, Goto
<1>8. CASE Flux
  BY <1>8, <1>3 DEF Flux, SameLoop, Goto
<1>9. CASE Land
  BY <1>9, <1>3 DEF Land, SameLoop, Goto
<1>10. CASE Late
  BY <1>10, <1>3 DEF Late, SameLoop, Goto
<1>11. CASE WriteRestart
  <2>1. UNCHANGED clockVars /\ force' = force /\ phase' = "end"
    BY <1>11 DEF WriteRestart, SameLoop, Goto
  <2>2. DOMAIN drvFile' \subseteq DOMAIN drvFile \union {Now}
    BY <1>11 DEF WriteRestart, Filed
  <2>3. \A t \in DOMAIN drvFile' : t <= nml.stop_date /\ t <= Horizon
    BY <2>2 DEF InTime
  <2> QED
    BY <2>1, <2>3 DEF InTime, clockVars, Now, Stop, StopDate
<1>12. CASE EndStep
  <2>1. UNCHANGED <<clockVars, drvFile>> /\ phase' = Again
    BY <1>12 DEF EndStep, Goto
  <2>2. force' = force
    BY <1>1, <1>12 DEF EndStep, NoWallLimit
  <2>3. phase' = "advance" => ~Stop.ringing /\ ~(Now >= StopDate.ring)
    BY <2>1 DEF Again, StopAlarm, DateStopOn, Stop, StopDate
  <2>4. phase' = "advance" => Now < Stop.ring /\ Now < nml.stop_date
    BY <1>1, <2>3 DEF InTime
  <2> QED
    BY <2>1, <2>2, <2>4 DEF InTime, clockVars, Now, Stop, StopDate
<1>13. CASE Crash
  BY <1>13, <1>3 DEF Crash, Goto
<1>14. CASE Continue
  <2>1. PICK t \in DOMAIN drvFile :
          /\ clk' = ClockInit(nml, t).clk
          /\ clockAlarm' = ClockInit(nml, t).alarms
    BY <1>14 DEF Continue
  <2>2. nml' = nml /\ drvFile' = drvFile /\ force' = -1 /\ phase' = Again'
    BY <1>14 DEF Continue, Goto
  <2>3. t \in Int /\ t <= nml.stop_date /\ t <= Horizon
    BY <1>1 DEF InTime
  <2>4. Now' = t
    BY <1>1, <2>1, <2>3, ClockInitPaced DEF Now
  <2>5. /\ clockAlarm'["drv"] \in [ClockAlarms -> Alarm]
        /\ t < Stop'.ring
        /\ StopDate'.ring = nml.stop_date
    BY <1>1, <2>1, <2>3, InitialDriverAlarms DEF Stop, StopDate
  <2>6. phase' = "advance" => ~(Now' >= StopDate'.ring)
    BY <2>2 DEF Again, StopAlarm, DateStopOn, StopDate
  <2>7. phase' = "advance" => Now' < nml.stop_date
    BY <1>1, <2>3, <2>4, <2>5, <2>6
  <2>8. Stop'.ring \in Int
    BY <2>5 DEF Stop, Alarm, ClockAlarms
  <2> QED
    BY <1>1, <2>2, <2>3, <2>4, <2>5, <2>7, <2>8 DEF InTime
<1>15. CASE UNCHANGED vars
  BY <1>15 DEF vars, loopVars, clockVars, InTime, Now, Stop, StopDate
<1> QED
  BY <1>4, <1>5, <1>6, <1>7, <1>8, <1>9, <1>10, <1>11, <1>12, <1>13, <1>14, <1>15 DEF Next, Step

(* StopsInTime for every namelist, if no wall-clock limit moves the stop   *)
(* date: no run and no continued run passes its stop alarm or its stop     *)
(* date (seq_timemgr_stopAlarmIsOn and the loop of cime_run).              *)
THEOREM RunsStopInTime ==
  ASSUME NoWallLimit
  PROVE  Spec => []StopsInTime
<1>1. InTime => StopsInTime
  BY DEF InTime, StopsInTime, Stop
<1>2. Init => InStep /\ InTime
  BY InStepInitially, InTimeInitially
<1>3. InStep /\ InTime /\ [Next]_vars => InStep' /\ InTime'
  BY InStepKept, InTimeKept
<1> QED
  BY <1>1, <1>2, <1>3, PTL DEF Spec
-----------------------------------------------------------------------------
(* A restart at the end of a run. *)

(* Between the advance of the clocks and the restart write. *)
Running == {"ocnsetup", "surface", "flux", "land", "late", "restart"}

(* In the last step of a run that is to leave a restart, the restart alarm *)
(* of the driver rings until the file is written.                          *)
EndsWithRestart ==
  /\ force \in Int
  /\ clockAlarm["drv"] \in [ClockAlarms -> Alarm]
  /\ endRestart /\ StopAlarm =>
        /\ phase \in Running => Restart.ringing = TRUE
        /\ phase = "end" => Now \in DOMAIN drvFile
  /\ phase = "done" /\ endRestart => Now \in DOMAIN drvFile

(* Every namelist has a stop date after the start date. *)
StopDateAhead == \A nl \in Namelists : nl.stop_date > 0

LEMMA EndsWithRestartInitially ==
  ASSUME StopDateAhead
  PROVE  Init => EndsWithRestart
<1> SUFFICES ASSUME Init PROVE EndsWithRestart
  OBVIOUS
<1>1. nml \in Namelists /\ nml.stop_date \in Nat /\ nml.stop_date > 0 /\ 0 <= Horizon
  BY NamelistFacts, BoundAssumption DEF Init, StopDateAhead
<1>2. force = -1 /\ phase = Again /\ Now = 0 /\ clockAlarm = ClockInit(nml, 0).alarms
  BY DEF Init, ClockInit, Now, Clocks
<1>3. clockAlarm["drv"] \in [ClockAlarms -> Alarm] /\ StopDate.ring = nml.stop_date
  <2> HIDE DEF ClockInit
  <2> QED
    BY <1>1, <1>2, InitialDriverAlarms DEF StopDate
<1>4. Stop.ringing = FALSE /\ StopDate.ringing = FALSE
  BY <1>2 DEF Stop, StopDate, ClockInit, Clocks, InitialAlarms, ClockAlarms, OneShot, Periodic,
              NewAlarm
<1>5. ~StopAlarm
  BY <1>1, <1>2, <1>3, <1>4 DEF StopAlarm, DateStopOn, Stop, StopDate
<1>6. phase = "advance"
  BY <1>2, <1>5 DEF Again
<1> QED
  BY <1>2, <1>3, <1>5, <1>6 DEF EndsWithRestart

LEMMA EndsWithRestartKept ==
  InStep /\ EndsWithRestart /\ [Next]_vars => EndsWithRestart'
<1> SUFFICES ASSUME InStep, EndsWithRestart, [Next]_vars PROVE EndsWithRestart'
  OBVIOUS
<1>1. /\ nml \in Namelists /\ Now \in Int /\ force \in Int
      /\ clockAlarm["drv"] \in [ClockAlarms -> Alarm]
  BY DEF InStep, EndsWithRestart, Now, Clocks
<1>2. ASSUME ClockAdvance(force), UNCHANGED force, phase' \in {"ocnsetup", "aborted"}
      PROVE  EndsWithRestart'
  <2>1. Now' = Now + 1
    BY <1>1, <1>2 DEF ClockAdvance, Now, Clocks, ClockMoves, StepOf, InStep
  <2>2. /\ clockAlarm'["drv"] \in [ClockAlarms -> Alarm]
        /\ endRestart' /\ StopAlarm' => Restart'.ringing = TRUE
    <3> HIDE DEF ClockAdvance, Restart, StopAlarm
    <3> QED
      BY <1>1, <1>2, <2>1, DriverAlarms
  <2> QED
    BY <1>1, <1>2, <2>2 DEF EndsWithRestart
<1>3. ASSUME phase \in Running, phase' \in Running, UNCHANGED <<clockVars, force, drvFile>>
      PROVE  EndsWithRestart'
  BY <1>3 DEF EndsWithRestart, clockVars, StopAlarm, DateStopOn, Restart, Now, Running
<1>4. CASE Advance
  BY <1>4, <1>2 DEF Advance, Goto
<1>5. CASE AbortOnGlcAlarms
  BY <1>5, <1>2 DEF AbortOnGlcAlarms, Goto
<1>6. CASE OcnSetup
  BY <1>6, <1>3 DEF OcnSetup, SameLoop, Goto, Running
<1>7. CASE Surface
  BY <1>7, <1>3 DEF Surface, SameLoop, Goto, Running
<1>8. CASE Flux
  BY <1>8, <1>3 DEF Flux, SameLoop, Goto, Running
<1>9. CASE Land
  BY <1>9, <1>3 DEF Land, SameLoop, Goto, Running
<1>10. CASE Late
  BY <1>10, <1>3 DEF Late, SameLoop, Goto, Running
<1>11. CASE WriteRestart
  <2>1. phase = "restart" /\ phase' = "end" /\ UNCHANGED <<clockVars, force>>
    BY <1>11 DEF WriteRestart, SameLoop, Goto
  <2>2. Now' = Now /\ StopAlarm' = StopAlarm
    BY <2>1 DEF clockVars, Now, StopAlarm, DateStopOn
  <2>3. endRestart /\ StopAlarm => clockAlarm["drv"]["restart"].ringing
    BY <2>1 DEF EndsWithRestart, Running, Restart
  <2>4. endRestart /\ StopAlarm => Now \in DOMAIN drvFile'
    BY <1>11, <2>3 DEF WriteRestart, Filed
  <2> QED
    BY <1>1, <2>1, <2>2, <2>4 DEF EndsWithRestart, clockVars, Running
<1>12. CASE EndStep
  <2>1. phase = "end" /\ phase' = Again /\ UNCHANGED <<clockVars, drvFile>>
    BY <1>12 DEF EndStep, Goto
  <2>2. force' \in Int
    <3>1. Day \in Nat \ {0} /\ Month \in Nat \ {0}
      BY BoundAssumption
    <3>2. \A length \in Nat \ {0} : NextStart(length) \in Int
      BY <1>1, Division DEF NextStart
    <3> QED
      BY <1>1, <1>12, <3>1, <3>2 DEF EndStep
  <2>3. Now' = Now /\ StopAlarm' = StopAlarm /\ endRestart' = endRestart
    BY <2>1 DEF clockVars, Now, StopAlarm, DateStopOn
  <2>4. phase' = "done" => StopAlarm
    BY <2>1 DEF Again
  <2>5. phase' \notin Running /\ phase' # "end"
    BY <2>1 DEF Again, Running
  <2> QED
    BY <1>1, <2>1, <2>2, <2>3, <2>4, <2>5 DEF EndsWithRestart, clockVars
<1>13. CASE Crash
  BY <1>13, <1>1 DEF Crash, Goto, EndsWithRestart, Running, clockVars
<1>14. CASE Continue
  <2>1. PICK t \in DOMAIN drvFile :
          /\ t + nml.stop_n <= Horizon
          /\ clk' = ClockInit(nml, t).clk
          /\ clockAlarm' = ClockInit(nml, t).alarms
    BY <1>14 DEF Continue
  <2>2. drvFile' = drvFile /\ force' = -1 /\ phase' = Again'
    BY <1>14 DEF Continue, Goto
  <2>3. t \in Int /\ t <= Horizon
    BY <1>1, <2>1, NamelistFacts, BoundAssumption DEF InStep
  <2>4. Now' = t
    BY <1>1, <2>1, <2>3, ClockInitPaced DEF Now
  <2>5. clockAlarm'["drv"] \in [ClockAlarms -> Alarm]
    BY <1>1, <2>1, <2>3, InitialDriverAlarms
  <2>6. phase' \notin Running /\ phase' # "end"
    BY <2>2 DEF Again, Running
  <2> QED
    BY <2>2, <2>4, <2>5, <2>6 DEF EndsWithRestart
<1>15. CASE UNCHANGED vars
  BY <1>15 DEF vars, loopVars, clockVars, EndsWithRestart, Now, StopAlarm, DateStopOn, Restart
<1> QED
  BY <1>4, <1>5, <1>6, <1>7, <1>8, <1>9, <1>10, <1>11, <1>12, <1>13, <1>14, <1>15 DEF Next, Step

(* LeavesRestart for every namelist whose stop date is ahead, wall-clock   *)
(* limits included: a run that is to leave a restart at its end (REST_OPT  *)
(* end, or a forced stop) has written one when it is done.                 *)
THEOREM RunsLeaveRestart ==
  ASSUME StopDateAhead
  PROVE  Spec => []LeavesRestart
<1>1. EndsWithRestart => LeavesRestart
  BY DEF EndsWithRestart, LeavesRestart
<1>2. Init => InStep /\ EndsWithRestart
  BY InStepInitially, EndsWithRestartInitially
<1>3. InStep /\ EndsWithRestart /\ [Next]_vars => InStep' /\ EndsWithRestart'
  BY InStepKept, EndsWithRestartKept
<1> QED
  BY <1>1, <1>2, <1>3, PTL DEF Spec

-----------------------------------------------------------------------------
(* Where every field is, as a function of the namelist and of the time.    *)

(* A run alarm rings in every interval, from its reference date on. *)
Interval(nl, r) ==
  IF r = "glcavg" THEN IF nl.glc_avg = "yearly" THEN Year ELSE nl.dt["glc"] ELSE nl.dt[r]

Reference(nl, r) ==
  IF r = "glcavg" THEN IF nl.glc_avg = "yearly" THEN 0 ELSE nl.offset["glc"]
  ELSE RunReference(nl, r, 0)

Rings(nl, r, s) == Aligned(Interval(nl, r), s - Reference(nl, r))

(* The ocean does not run in its first interval. *)
DueAt(nl, r, s) == Rings(nl, r, s) /\ (r = "ocn" => s > nl.dt["ocn"])

(* The steps at which a field is computed for an accumulator, and those at *)
(* which the accumulator is averaged and sent; ocean input is not sent     *)
(* under NUOPC, for which no place is given.                               *)
SampleAt(nl, l, s) == Active(nl, l) /\ (l # "x2o" => DueAt(nl, "lnd", s))

SendAt(nl, l, s) ==
  /\ Active(nl, l)
  /\ DueAt(nl, Dest[l], s)
  /\ l = "x2o" => nl.seq # "NUOPC"
  /\ l = "l2g" => DueAt(nl, "glcavg", s)

(* The order of the two in one step. *)
SampleFirst(nl, l) == l = "l2g" \/ (l = "x2o" /\ nl.seq \in {"RASM_OPTION1", "RASM_OPTION2"})

(* The sending of step s has taken the field u with it, or an earlier one. *)
Carries(nl, l, s, u) == u < s \/ (u = s /\ SampleFirst(nl, l))

Made(nl, l, a) == {u \in Times : u <= a /\ SampleAt(nl, l, u)}

Covered(nl, l, u, b) == \E s \in 1 .. b : SendAt(nl, l, s) /\ Carries(nl, l, s, u)

Waiting(nl, l, a, b) == {u \in Made(nl, l, a) : ~Covered(nl, l, u, b)}

(* What the last sending took and none before it. *)
LastBatch(nl, l, a, b) ==
  {u \in Made(nl, l, a) :
     /\ Covered(nl, l, u, b)
     /\ \A s1, s2 \in 1 .. b :
          SendAt(nl, l, s1) /\ SendAt(nl, l, s2) /\ s1 < s2 => ~Carries(nl, l, s1, u)}

(* With samples up to step a and sendings up to step b: how often each     *)
(* field was received, and the accumulator, which keeps its old sum.       *)
UsedTo(nl, l, a, b) ==
  [u \in Times |-> IF u \in Made(nl, l, a) /\ Covered(nl, l, u, b) THEN 1 ELSE 0]

AccTo(nl, l, a, b) ==
  [cnt |-> Cardinality(Waiting(nl, l, a, b)),
   sum |-> IF Waiting(nl, l, a, b) = {} THEN LastBatch(nl, l, a, b) ELSE Waiting(nl, l, a, b)]

(* Land and rivers exchange no heat with a restart in between, and no      *)
(* component is called more often than its input is computed.              *)
KeepsUp(nl) ==
  /\ ~nl.rof_heat
  /\ Active(nl, "l2r") => nl.dt["lnd"] <= nl.dt["rof"]
  /\ Active(nl, "l2g") => nl.dt["lnd"] <= nl.dt["glc"]

InputsKeepUp == \A nl \in Namelists : KeepsUp(nl)

(* Two dates of the same alarm are a whole interval apart. *)
LEMMA AlignedApart ==
  ASSUME NEW n \in Nat \ {0}, NEW x \in Int, NEW y \in Int, Aligned(n, x), Aligned(n, y),
         x <= y, y < x + n
  PROVE  x = y
<1>1. PICK j \in Int : x = n * j
  BY DEF Aligned
<1>2. PICK k \in Int : y = n * k
  BY DEF Aligned
<1>3. n * (k - j) = y - x
  BY <1>1, <1>2
<1>4. k - j \in Int /\ 0 <= n * (k - j) /\ n * (k - j) < n
  BY <1>3
<1>5. k - j = 0
  BY <1>4, NoMultipleBelow
<1> QED
  BY <1>3, <1>5

(* Dates a whole number of intervals apart. *)
LEMMA AlignedSum ==
  ASSUME NEW n \in Nat \ {0}, NEW x \in Int, NEW y \in Int, Aligned(n, x), Aligned(n, y)
  PROVE  Aligned(n, x + y) /\ Aligned(n, x - y)
<1>1. PICK j \in Int : x = n * j
  BY DEF Aligned
<1>2. PICK k \in Int : y = n * k
  BY DEF Aligned
<1>3. n * (j + k) = x + y /\ n * (j - k) = x - y /\ j + k \in Int /\ j - k \in Int
  BY <1>1, <1>2
<1> QED
  BY <1>3 DEF Aligned

(* Every interval's length holds a date of the alarm. *)
LEMMA AlignedInWindow ==
  ASSUME NEW n \in Nat \ {0}, NEW ref \in Int, NEW w \in Int
  PROVE  \E u \in Int : w <= u /\ u < w + n /\ Aligned(n, u - ref)
<1> DEFINE q == (w - ref) \div n
           p == (w - ref) % n
<1>1. /\ q \in Int /\ n * q <= w - ref /\ w - ref < n * q + n
  BY Division
<1>2. n * q \in Int
  BY <1>1
<1> HIDE DEF q, p
<1>3. CASE w - ref = n * q
  <2>1. Aligned(n, w - ref)
    BY <1>1, <1>3 DEF Aligned
  <2> QED
    BY <2>1
<1>4. CASE w - ref # n * q
  <2>1. n * (q + 1) = n * q + n /\ q + 1 \in Int
    BY <1>1
  <2>2. Aligned(n, (n * q + n + ref) - ref)
    <3>1. (n * q + n + ref) - ref = n * (q + 1)
      BY <1>2, <2>1
    <3> QED
      BY <2>1, <3>1 DEF Aligned
  <2>3. n * q + n + ref \in Int /\ w <= n * q + n + ref /\ n * q + n + ref < w + n
    BY <1>1, <1>2, <1>4
  <2> QED
    BY <2>2, <2>3
<1> QED
  BY <1>3, <1>4

-----------------------------------------------------------------------------
(* The pure part: what a sample and a sending do to the closed form. *)

LEMMA TimesFacts ==
  /\ Horizon \in Nat \ {0}
  /\ \A u : u \in Times <=> u \in Int /\ 1 <= u /\ u <= Horizon
  BY BoundAssumption DEF Times

LEMMA WaitingFinite ==
  ASSUME NEW nl, NEW l, NEW a, NEW b
  PROVE  /\ IsFiniteSet(Waiting(nl, l, a, b))
         /\ Cardinality(Waiting(nl, l, a, b)) \in Nat
         /\ Cardinality(Waiting(nl, l, a, b)) = 0 <=> Waiting(nl, l, a, b) = {}
<1>1. IsFiniteSet(Times)
  BY FS_Interval, BoundAssumption DEF Times
<1>2. Waiting(nl, l, a, b) \subseteq Times
  BY DEF Waiting, Made
<1>3. IsFiniteSet(Waiting(nl, l, a, b))
  BY <1>1, <1>2, FS_Subset
<1> QED
  BY <1>3, FS_CardinalityType, FS_EmptySet

LEMMA MadeTo ==
  ASSUME NEW nl, NEW l, NEW s \in Times
  PROVE  /\ Made(nl, l, s) = IF SampleAt(nl, l, s) THEN Made(nl, l, s - 1) \union {s}
                             ELSE Made(nl, l, s - 1)
         /\ s \notin Made(nl, l, s - 1)
<1>1. \A u \in Times : u <= s <=> u <= s - 1 \/ u = s
  BY TimesFacts
<1>2. s <= s /\ ~(s <= s - 1)
  BY TimesFacts
<1> QED
  BY <1>1, <1>2 DEF Made

LEMMA CoveredTo ==
  ASSUME NEW nl, NEW l, NEW s \in Times, NEW u
  PROVE  Covered(nl, l, u, s) <=>
           Covered(nl, l, u, s - 1) \/ (SendAt(nl, l, s) /\ Carries(nl, l, s, u))
<1>1. 1 .. s = 1 .. (s - 1) \union {s}
  BY TimesFacts
<1> QED
  BY <1>1 DEF Covered

(* A step without a sending, or without a field. *)
LEMMA NoSending ==
  ASSUME NEW nl, NEW l, NEW s \in Times, ~SendAt(nl, l, s), NEW a
  PROVE  UsedTo(nl, l, a, s) = UsedTo(nl, l, a, s - 1) /\ AccTo(nl, l, a, s) = AccTo(nl, l, a, s - 1)
<1>1. \A u : Covered(nl, l, u, s) <=> Covered(nl, l, u, s - 1)
  BY CoveredTo
<1>2. 1 .. s = 1 .. (s - 1) \union {s}
  BY TimesFacts
<1>3. Waiting(nl, l, a, s) = Waiting(nl, l, a, s - 1)
  BY <1>1 DEF Waiting
<1>4. LastBatch(nl, l, a, s) = LastBatch(nl, l, a, s - 1)
  BY <1>1, <1>2 DEF LastBatch
<1>5. UsedTo(nl, l, a, s) = UsedTo(nl, l, a, s - 1)
  BY <1>1 DEF UsedTo
<1> QED
  BY <1>3, <1>4, <1>5 DEF AccTo

LEMMA NoSample ==
  ASSUME NEW nl, NEW l, NEW s \in Times, ~SampleAt(nl, l, s), NEW b
  PROVE  /\ Made(nl, l, s) = Made(nl, l, s - 1)
         /\ UsedTo(nl, l, s, b) = UsedTo(nl, l, s - 1, b)
         /\ AccTo(nl, l, s, b) = AccTo(nl, l, s - 1, b)
<1>1. Made(nl, l, s) = Made(nl, l, s - 1)
  BY MadeTo
<1> QED
  BY <1>1 DEF UsedTo, AccTo, Waiting, LastBatch

(* A field that is computed joins those that wait. *)
LEMMA Sample ==
  ASSUME NEW nl, NEW l, NEW s \in Times, SampleAt(nl, l, s),
         NEW b, b = IF SampleFirst(nl, l) THEN s - 1 ELSE s
  PROVE  /\ Made(nl, l, s) = Made(nl, l, s - 1) \union {s}
         /\ UsedTo(nl, l, s, b) = UsedTo(nl, l, s - 1, b)
         /\ LET x == AccTo(nl, l, s - 1, b)
            IN  AccTo(nl, l, s, b) = [cnt |-> x.cnt + 1,
                                      sum |-> IF x.cnt = 0 THEN {s} ELSE x.sum \union {s}]
<1>1. Made(nl, l, s) = Made(nl, l, s - 1) \union {s} /\ s \notin Made(nl, l, s - 1)
  BY MadeTo
<1>2. ~Covered(nl, l, s, b)
  BY TimesFacts DEF Covered, Carries
<1>3. UsedTo(nl, l, s, b) = UsedTo(nl, l, s - 1, b)
  BY <1>1, <1>2 DEF UsedTo
<1>4. Waiting(nl, l, s, b) = Waiting(nl, l, s - 1, b) \union {s} /\ s \notin Waiting(nl, l, s - 1, b)
  BY <1>1, <1>2 DEF Waiting
<1>5. Cardinality(Waiting(nl, l, s, b)) = Cardinality(Waiting(nl, l, s - 1, b)) + 1
  BY <1>4, WaitingFinite, FS_AddElement
<1>6. Waiting(nl, l, s, b) # {}
  BY <1>4
<1>7. Cardinality(Waiting(nl, l, s - 1, b)) = 0 <=> Waiting(nl, l, s - 1, b) = {}
  BY WaitingFinite
<1> QED
  BY <1>1, <1>3, <1>4, <1>5, <1>6, <1>7 DEF AccTo

(* The intervals and references of the alarms. *)
LEMMA IntervalFacts ==
  ASSUME NEW nl \in Namelists
  PROVE  \A r \in Comps \union {"glcavg"} :
           /\ Interval(nl, r) \in Nat \ {0}
           /\ Reference(nl, r) \in Int
           /\ r \in Comps => Interval(nl, r) = nl.dt[r]
<1>1. \A c \in Comps : nl.dt[c] \in Nat \ {0} /\ nl.offset[c] \in Int
  BY NamelistFacts
<1>2. Year \in Nat \ {0} /\ "glcavg" \notin Comps /\ "glc" \in Comps
  BY CalendarAssumption DEF Comps
<1>3. ASSUME NEW c \in Comps
      PROVE  Interval(nl, c) = nl.dt[c] /\ Reference(nl, c) \in Int
  <2>1. c # "ocnnext" /\ c # "glcavg"
    BY DEF Comps
  <2> QED
    BY <1>1, <1>2, <2>1 DEF Interval, Reference, RunReference
<1>4. Interval(nl, "glcavg") \in Nat \ {0} /\ Reference(nl, "glcavg") \in Int
  BY <1>1, <1>2 DEF Interval, Reference
<1> QED
  BY <1>1, <1>3, <1>4

LEMMA DestFacts ==
  ASSUME NEW nl \in Namelists, NEW l \in Links
  PROVE  /\ Dest[l] \in Comps
         /\ nl.dt[Dest[l]] \in Nat \ {0} /\ nl.dt["lnd"] \in Nat \ {0}
         /\ Reference(nl, Dest[l]) \in Int /\ Reference(nl, "lnd") \in Int
         /\ Interval(nl, Dest[l]) = nl.dt[Dest[l]] /\ Interval(nl, "lnd") = nl.dt["lnd"]
<1>1. Dest[l] \in Comps /\ "lnd" \in Comps
  BY DEF Links, Dest, Comps
<1> QED
  BY <1>1, IntervalFacts, NamelistFacts

(* Two sendings are a coupling interval of the receiver apart. *)
LEMMA SendingsApart ==
  ASSUME NEW nl \in Namelists, NEW l \in Links, NEW s \in Int, NEW t \in Int,
         SendAt(nl, l, s), Rings(nl, Dest[l], t), s # t
  PROVE  s <= t - nl.dt[Dest[l]] \/ s >= t + nl.dt[Dest[l]]
<1> DEFINE n == nl.dt[Dest[l]]
           ref == Reference(nl, Dest[l])
<1>1. n \in Nat \ {0} /\ ref \in Int /\ Interval(nl, Dest[l]) = n
  BY DestFacts
<1>2. Aligned(n, s - ref) /\ Aligned(n, t - ref)
  BY <1>1 DEF SendAt, DueAt, Rings
<1> HIDE DEF n, ref
<1>3. s - ref \in Int /\ t - ref \in Int
  BY <1>1
<1>4. ~(s - ref <= t - ref /\ t - ref < s - ref + n)
  <2> SUFFICES ASSUME s - ref <= t - ref, t - ref < s - ref + n PROVE FALSE
    OBVIOUS
  <2>1. s - ref = t - ref
    BY <1>1, <1>2, <1>3, AlignedApart
  <2> QED
    BY <1>1, <2>1
<1>5. ~(t - ref <= s - ref /\ s - ref < t - ref + n)
  <2> SUFFICES ASSUME t - ref <= s - ref, s - ref < t - ref + n PROVE FALSE
    OBVIOUS
  <2>1. t - ref = s - ref
    BY <1>1, <1>2, <1>3, AlignedApart
  <2> QED
    BY <1>1, <2>1
<1>6. s <= t - n \/ s >= t + n
  BY <1>1, <1>4, <1>5
<1> QED
  BY <1>6 DEF n

(* No sending finds only the old sum: since the last one a field has been  *)
(* computed, or none ever was.                                             *)
LEMMA FreshInput ==
  ASSUME NEW nl \in Namelists, KeepsUp(nl), NEW l \in Links, NEW s \in Times, SendAt(nl, l, s),
         NEW a, a = IF SampleFirst(nl, l) THEN s ELSE s - 1
  PROVE  Made(nl, l, a) = {} \/ Waiting(nl, l, a, s - 1) # {}
<1> DEFINE n == nl.dt[Dest[l]]
<1>1. n \in Nat \ {0} /\ a \in Int /\ s \in Int /\ 1 <= s /\ s <= Horizon /\ a <= s /\ Horizon \in Nat
  BY DestFacts, TimesFacts
<1>2. ASSUME NEW u \in Int, a - n < u
      PROVE  ~Covered(nl, l, u, s - 1)
  <2> SUFFICES ASSUME NEW z \in 1 .. (s - 1), SendAt(nl, l, z), Carries(nl, l, z, u)
               PROVE  FALSE
    BY DEF Covered
  <2>1. Rings(nl, Dest[l], s)
    BY DEF SendAt, DueAt
  <2>2. z \in Int /\ z < s
    BY <1>1
  <2>3. z <= s - n
    BY <1>1, <2>1, <2>2, SendingsApart
  <2>4. u <= a - n
    <3> HIDE DEF n
    <3>1. CASE SampleFirst(nl, l)
      BY <1>1, <1>2, <2>2, <2>3, <3>1 DEF Carries
    <3>2. CASE ~SampleFirst(nl, l)
      BY <1>1, <1>2, <2>2, <2>3, <3>2 DEF Carries
    <3> QED
      BY <3>1, <3>2
  <2> QED
    BY <1>1, <1>2, <2>4
<1>3. CASE a < n
  <2>1. \A u \in Times : ~Covered(nl, l, u, s - 1)
    <3> TAKE u \in Times
    <3>1. u \in Int /\ a - n < u
      BY <1>1, <1>3, TimesFacts
    <3> QED
      BY <3>1, <1>2
  <2> QED
    BY <2>1 DEF Waiting, Made
<1>4. CASE a >= n
  <2>1. PICK u \in Int : a - n < u /\ u <= a /\ SampleAt(nl, l, u)
    <3>1. Active(nl, l)
      BY DEF SendAt
    <3>2. CASE l = "x2o"
      BY <1>1, <3>1, <3>2 DEF SampleAt
    <3>3. CASE l # "x2o"
      <4>1. nl.dt["lnd"] <= n
        <5>1. l # "a2r"
          BY <3>1 DEF KeepsUp, Active
        <5> QED
          BY <3>1, <3>3, <5>1 DEF KeepsUp, Links, Dest
      <4>2. /\ nl.dt["lnd"] \in Nat \ {0} /\ Reference(nl, "lnd") \in Int
            /\ Interval(nl, "lnd") = nl.dt["lnd"] /\ a - n + 1 \in Int
        BY <1>1, DestFacts
      <4> HIDE DEF n
      <4>3. PICK u \in Int : /\ a - n + 1 <= u /\ u < a - n + 1 + nl.dt["lnd"]
                             /\ Aligned(nl.dt["lnd"], u - Reference(nl, "lnd"))
        BY <4>2, AlignedInWindow
      <4>4. a - n < u /\ u <= a
        BY <1>1, <4>1, <4>2, <4>3
      <4>5. SampleAt(nl, l, u)
        BY <3>1, <4>2, <4>3 DEF SampleAt, DueAt, Rings
      <4> QED
        BY <4>4, <4>5
    <3> QED
      BY <3>2, <3>3
  <2>2. u \in Times
    BY <1>1, <1>4, <2>1, TimesFacts
  <2>3. ~Covered(nl, l, u, s - 1)
    BY <1>2, <2>1
  <2> QED
    BY <2>1, <2>2, <2>3 DEF Waiting, Made
<1> QED
  BY <1>1, <1>3, <1>4

(* A sending takes what waits, and leaves the sum as what it took. *)
LEMMA Sending ==
  ASSUME NEW nl \in Namelists, KeepsUp(nl), NEW l \in Links, NEW s \in Times, SendAt(nl, l, s),
         NEW a, a = IF SampleFirst(nl, l) THEN s ELSE s - 1
  PROVE  LET x == AccTo(nl, l, a, s - 1)
         IN  /\ AccTo(nl, l, a, s) = [x EXCEPT !.cnt = 0]
             /\ UsedTo(nl, l, a, s) =
                  [u \in Times |-> UsedTo(nl, l, a, s - 1)[u] + (IF u \in x.sum THEN 1 ELSE 0)]
<1> DEFINE x == AccTo(nl, l, a, s - 1)
           W == Waiting(nl, l, a, s - 1)
<1>1. \A u \in Made(nl, l, a) : Carries(nl, l, s, u)
  BY TimesFacts DEF Made, Carries
<1>2. \A u \in Made(nl, l, a) : Covered(nl, l, u, s)
  BY <1>1, CoveredTo
<1>3. Waiting(nl, l, a, s) = {}
  BY <1>2 DEF Waiting
<1>4. 1 .. s = 1 .. (s - 1) \union {s} /\ (\A z \in 1 .. (s - 1) : z < s) /\ ~(s < s)
  BY TimesFacts
<1>5. LastBatch(nl, l, a, s) = W
  <2>1. ASSUME NEW u \in Made(nl, l, a), u \in LastBatch(nl, l, a, s)
        PROVE  ~Covered(nl, l, u, s - 1)
    BY <1>4, <2>1 DEF Covered, LastBatch
  <2>2. ASSUME NEW u \in Made(nl, l, a), ~Covered(nl, l, u, s - 1),
               NEW s1 \in 1 .. s, NEW s2 \in 1 .. s, SendAt(nl, l, s1), s1 < s2
        PROVE  ~Carries(nl, l, s1, u)
    <3>1. s1 \in 1 .. (s - 1)
      BY <2>2, TimesFacts
    <3> QED
      BY <2>2, <3>1 DEF Covered
  <2>3. LastBatch(nl, l, a, s) \subseteq W
    BY <2>1 DEF LastBatch, Waiting
  <2>4. W \subseteq LastBatch(nl, l, a, s)
    BY <1>2, <2>2 DEF LastBatch, Waiting
  <2> QED
    BY <2>3, <2>4
<1>6. Cardinality({}) = 0
  BY FS_EmptySet
<1>7. x.sum = W
  <2>1. CASE W = {}
    <3>1. Made(nl, l, a) = {}
      BY <2>1, FreshInput
    <3> QED
      BY <2>1, <3>1 DEF AccTo, LastBatch
  <2>2. CASE W # {}
    BY <2>2 DEF AccTo
  <2> QED
    BY <2>1, <2>2
<1>8. AccTo(nl, l, a, s) = [x EXCEPT !.cnt = 0]
  <2>1. AccTo(nl, l, a, s) = [cnt |-> 0, sum |-> W]
    BY <1>3, <1>5, <1>6 DEF AccTo
  <2>2. x = [cnt |-> Cardinality(W), sum |-> x.sum]
    BY DEF AccTo
  <2> QED
    BY <2>1, <2>2, <1>7
<1>9. UsedTo(nl, l, a, s) =
        [u \in Times |-> UsedTo(nl, l, a, s - 1)[u] + (IF u \in x.sum THEN 1 ELSE 0)]
  <2>1. ASSUME NEW u \in Times
        PROVE  UsedTo(nl, l, a, s)[u] =
                 UsedTo(nl, l, a, s - 1)[u] + (IF u \in W THEN 1 ELSE 0)
    BY <1>2 DEF UsedTo, Waiting
  <2>2. \A b : UsedTo(nl, l, a, b) = [u \in Times |-> UsedTo(nl, l, a, b)[u]]
    BY DEF UsedTo
  <2> HIDE DEF x
  <2> QED
    BY <2>1, <2>2, <1>7
<1> QED
  BY <1>8, <1>9

(* What a component has received by the last step of its interval it has   *)
(* received at the first one: nothing is sent in between.                  *)
LEMMA UsedStable ==
  ASSUME NEW nl \in Namelists, NEW l \in Links, NEW s \in Int, NEW a \in Int, NEW t \in Int,
         Rings(nl, Dest[l], s), s <= t, t < s + nl.dt[Dest[l]],
         a <= t, IF SampleFirst(nl, l) THEN s <= a ELSE s - 1 <= a
  PROVE  UsedTo(nl, l, a, s) = UsedTo(nl, l, t, t)
<1>1. nl.dt[Dest[l]] \in Nat \ {0}
  BY DestFacts
<1>2. ASSUME NEW u \in Times, u \in Made(nl, l, a), Covered(nl, l, u, s)
      PROVE  u \in Made(nl, l, t) /\ Covered(nl, l, u, t)
  <2>1. 1 .. s \subseteq 1 .. t /\ u <= t
    BY <1>2, TimesFacts DEF Made
  <2> QED
    BY <1>2, <2>1 DEF Made, Covered
<1>3. ASSUME NEW u \in Times, u \in Made(nl, l, t), Covered(nl, l, u, t)
      PROVE  u \in Made(nl, l, a) /\ Covered(nl, l, u, s)
  <2>1. PICK z \in 1 .. t : SendAt(nl, l, z) /\ Carries(nl, l, z, u)
    BY <1>3 DEF Covered
  <2>2. z <= s
    <3> SUFFICES ASSUME z > s PROVE FALSE
      OBVIOUS
    <3>1. z \in Int /\ z # s
      OBVIOUS
    <3>2. z <= s - nl.dt[Dest[l]] \/ z >= s + nl.dt[Dest[l]]
      BY <2>1, <3>1, SendingsApart
    <3> HIDE DEF Dest
    <3> QED
      BY <1>1, <3>1, <3>2
  <2>3. z \in 1 .. s /\ u \in Int
    BY <2>2, TimesFacts
  <2>4. u <= a
    BY <2>1, <2>2, <2>3 DEF Carries
  <2> QED
    BY <1>3, <2>1, <2>3, <2>4 DEF Made, Covered
<1> QED
  BY <1>2, <1>3 DEF UsedTo

-----------------------------------------------------------------------------
(* The run alarms that count, at the beginning of their interval. *)

(* The components whose alarms are looked at, and the average of glc. *)
Watched == Moving \union (IF "glc" \in nml.present THEN {"glcavg"} ELSE {})

AlarmsPhased ==
  \A r \in Watched :
     /\ Paced(runAlarm[r], Interval(nml, r), Now)
     /\ Aligned(Interval(nml, r), runAlarm[r].prev - Reference(nml, r))

LEMMA WatchedFacts ==
  ASSUME nml \in Namelists
  PROVE  /\ Watched \subseteq Comps \union {"glcavg"}
         /\ Watched \subseteq RunAlarms \ {"ocnnext"}
         /\ \A r \in Watched : Interval(nml, r) \in Nat \ {0} /\ Reference(nml, r) \in Int
         /\ \A c \in Moving : c \in Comps /\ Interval(nml, c) = nml.dt[c]
<1>1. nml.present \subseteq Comps
  BY NamelistFacts
<1>2. Watched \subseteq Comps \union {"glcavg"} /\ Moving \subseteq Comps
  BY <1>1 DEF Watched, Moving
<1>3. "ocnnext" \notin Comps \union {"glcavg"}
  BY DEF Comps
<1> QED
  BY <1>2, <1>3, IntervalFacts DEF RunAlarms

(* The ring time of a new alarm is a whole number of intervals from its    *)
(* reference.                                                              *)
LEMMA NextAlarmAligned ==
  ASSUME NEW n \in Nat \ {0}, NEW ref \in Int, NEW now \in Int
  PROVE  /\ Aligned(n, NextAlarm(ref, n, now) - ref)
         /\ Aligned(n, Periodic(ref, n, now).prev - ref)
         /\ Periodic(ref, n, now).prev \in Int
<1> DEFINE q == (now - ref) \div n
           x == NextAlarm(ref, n, now)
<1>1. q \in Int /\ n * q \in Int
  BY Division
<1>2. n * (-1) = -n /\ n * (-2) = -n - n /\ n * (q + 1) = n * q + n /\ -1 \in Int /\ -2 \in Int /\ q + 1 \in Int
  BY <1>1
<1>3. x = ref - n \/ x = ref + n * q + n
  BY DEF NextAlarm
<1>4. Periodic(ref, n, now).prev = x - n
  BY DEF Periodic, NewAlarm
<1> HIDE DEF q, x
<1>5. CASE x = ref - n
  <2>1. x - ref = n * (-1) /\ (x - n) - ref = n * (-2)
    BY <1>2, <1>5
  <2>2. Aligned(n, x - ref) /\ Aligned(n, (x - n) - ref)
    BY <2>1, <1>2 DEF Aligned
  <2> QED
    BY <2>2, <1>4, <1>5 DEF x
<1>6. CASE x = ref + n * q + n
  <2>1. x - ref = n * (q + 1) /\ (x - n) - ref = n * q
    BY <1>1, <1>2, <1>6
  <2>2. Aligned(n, x - ref) /\ Aligned(n, (x - n) - ref)
    BY <2>1, <1>1, <1>2 DEF Aligned
  <2> QED
    BY <2>2, <1>1, <1>4, <1>6 DEF x
<1> QED
  BY <1>3, <1>5, <1>6

LEMMA AlignedZero ==
  ASSUME NEW n \in Nat \ {0}
  PROVE  Aligned(n, 0) /\ Aligned(n, n)
<1>1. 0 = n * 0 /\ n = n * 1
  OBVIOUS
<1> QED
  BY <1>1 DEF Aligned

(* A run that starts at the end of every component's interval has all its  *)
(* alarms in the phase they had from the beginning.                        *)
LEMMA ClockInitPhased ==
  ASSUME NEW nl \in Namelists, NEW t \in Nat, NEW r \in Comps \union {"glcavg"},
         Aligned(nl.dt[IF r = "glcavg" THEN "glc" ELSE r], t)
  PROVE  LET a == ClockInit(nl, t).run[r]
         IN  /\ Paced(a, Interval(nl, r), t)
             /\ Aligned(Interval(nl, r), a.prev - Reference(nl, r))
<1> DEFINE n == Interval(nl, r)
           a == ClockInit(nl, t).run[r]
<1>1. \A c \in Comps : nl.dt[c] \in Nat \ {0} /\ nl.offset[c] \in Int /\ nl.offset[c] <= nl.dt[c]
  BY NamelistFacts
<1>2. n \in Nat \ {0} /\ Reference(nl, r) \in Int
  BY IntervalFacts
<1>3. "glc" \in Comps /\ "glcavg" \notin Comps /\ "ocnnext" \notin Comps \union {"glcavg"}
  BY DEF Comps
<1>4. a = InitialRunAlarm(nl, r, t)
  BY DEF ClockInit, RunAlarms
<1>5. PICK ref \in Int : /\ a = Periodic(ref, n, t) /\ ref <= t + n + 1
                         /\ Aligned(n, ref - Reference(nl, r))
  <2>1. CASE r = "glcavg" /\ nl.glc_avg = "yearly"
    <3> DEFINE ref == Year * (t \div Year)
    <3>1. Year \in Nat \ {0}
      BY CalendarAssumption
    <3>2. ref \in Int /\ ref <= t /\ t \div Year \in Int
      BY <3>1, Division
    <3>3. n = Year /\ Reference(nl, r) = 0
      BY <2>1 DEF Interval, Reference
    <3>4. a = Periodic(ref, n, t)
      BY <1>4, <2>1, <3>3 DEF InitialRunAlarm
    <3>5. Aligned(n, ref - 0)
      <4>1. ref - 0 = Year * (t \div Year)
        BY <3>2
      <4> HIDE DEF ref
      <4> QED
        BY <3>2, <3>3, <4>1 DEF Aligned
    <3>6. ref <= t + n + 1
      BY <3>1, <3>2, <3>3
    <3> HIDE DEF ref
    <3> QED
      BY <3>2, <3>3, <3>4, <3>5, <3>6
  <2>2. CASE r = "glcavg" /\ nl.glc_avg # "yearly"
    <3> DEFINE ref == t + nl.offset["glc"]
    <3>1. n = nl.dt["glc"] /\ Reference(nl, r) = nl.offset["glc"]
      BY <2>2 DEF Interval, Reference
    <3>2. a = Periodic(ref, n, t)
      BY <1>4, <2>2, <3>1 DEF InitialRunAlarm
    <3>3. ref \in Int /\ ref <= t + n + 1 /\ ref - Reference(nl, r) = t
      BY <1>1, <1>3, <3>1
    <3>4. Aligned(n, t)
      BY <2>2, <3>1
    <3> HIDE DEF ref
    <3> QED
      BY <3>2, <3>3, <3>4
  <2>3. CASE r # "glcavg"
    <3> DEFINE ref == RunReference(nl, r, t)
    <3>1. r \in Comps /\ r # "ocnnext"
      BY <1>3, <2>3
    <3>2. n = nl.dt[r] /\ Reference(nl, r) = RunReference(nl, r, 0)
      BY <2>3 DEF Interval, Reference
    <3>3. a = Periodic(ref, n, t)
      BY <1>4, <2>3, <3>1, <3>2 DEF InitialRunAlarm
    <3>4. ref \in Int /\ ref <= t + n + 1 /\ ref - Reference(nl, r) = t
      BY <1>1, <3>1, <3>2 DEF RunReference
    <3>5. Aligned(n, t)
      BY <2>3, <3>2
    <3> HIDE DEF ref
    <3> QED
      BY <3>3, <3>4, <3>5
  <2> QED
    BY <2>1, <2>2, <2>3
<1> HIDE DEF n, a
<1>6. Paced(a, n, t)
  <2>1. t \in Int
    OBVIOUS
  <2>2. Paced(Periodic(ref, n, t), n, t)
    BY <2>1, <1>2, <1>5, PeriodicPaced
  <2> QED
    BY <2>2, <1>5
<1>7. Aligned(n, a.prev - ref) /\ a.prev \in Int
  <2>1. t \in Int
    OBVIOUS
  <2>2. Aligned(n, Periodic(ref, n, t).prev - ref) /\ Periodic(ref, n, t).prev \in Int
    BY <2>1, <1>2, NextAlarmAligned
  <2> QED
    BY <2>2, <1>5
<1>8. Aligned(n, (a.prev - ref) + (ref - Reference(nl, r)))
  <2>1. a.prev - ref \in Int /\ ref - Reference(nl, r) \in Int
    BY <1>2, <1>5, <1>7
  <2> QED
    BY <2>1, <1>2, <1>5, <1>7, AlignedSum
<1>9. (a.prev - ref) + (ref - Reference(nl, r)) = a.prev - Reference(nl, r)
  BY <1>2, <1>7
<1> QED
  BY <1>6, <1>8, <1>9 DEF n, a

(* An alarm that is in phase rings at the dates of its interval. *)
LEMMA TickRings ==
  ASSUME NEW n \in Nat \ {0}, NEW now \in Int, NEW a, Paced(a, n, now),
         NEW ref \in Int, Aligned(n, a.prev - ref)
  PROVE  LET b == Tick(SetOff(a), now + 1, 1)
         IN  /\ Paced(b, n, now + 1)
             /\ Aligned(n, b.prev - ref)
             /\ b.ringing <=> Aligned(n, now + 1 - ref)
             /\ b.prev = IF b.ringing THEN now + 1 ELSE a.prev
             /\ b.ringing => now + 1 = a.prev + n
<1> DEFINE b == Tick(SetOff(a), now + 1, 1)
<1>1. Paced(b, n, now + 1) /\ b.prev = IF b.ringing THEN a.prev + n ELSE a.prev
  BY TickPaced
<1> HIDE DEF b
<1>2. /\ a.prev \in Int /\ b.prev \in Int
      /\ a.prev <= now /\ now < a.prev + n
      /\ b.prev <= now + 1 /\ now + 1 < b.prev + n
  BY <1>1 DEF Paced, Alarm
<1>3. b.ringing => b.prev = now + 1 /\ now + 1 = a.prev + n
  BY <1>1, <1>2
<1>4. Aligned(n, b.prev - ref)
  <2>1. CASE b.ringing
    <3>1. (a.prev - ref) + n = b.prev - ref
      BY <1>1, <1>2, <2>1
    <3>2. Aligned(n, (a.prev - ref) + n)
      BY <1>2, AlignedNext
    <3> QED
      BY <3>1, <3>2
  <2>2. CASE ~b.ringing
    BY <1>1, <2>2
  <2> QED
    BY <2>1, <2>2
<1>5. ASSUME Aligned(n, now + 1 - ref)
      PROVE  b.ringing
  <2>1. b.prev - ref = now + 1 - ref
    <3>1. b.prev - ref \in Int /\ now + 1 - ref \in Int
          /\ b.prev - ref <= now + 1 - ref /\ now + 1 - ref < (b.prev - ref) + n
      BY <1>2
    <3> QED
      BY <1>4, <1>5, <3>1, AlignedApart
  <2>2. b.prev = now + 1
    BY <1>2, <2>1
  <2> QED
    BY <1>1, <1>2, <2>2
<1>6. b.ringing => Aligned(n, now + 1 - ref)
  BY <1>3, <1>4
<1> QED
  BY <1>1, <1>3, <1>4, <1>5, <1>6 DEF b

-----------------------------------------------------------------------------
(* When components are called. *)

(* Between the advance of the clocks and the end of a step. *)
Stepping == Running \union {"end"}

TimeBounds ==
  /\ Now \in 0 .. Horizon
  /\ DOMAIN drvFile \subseteq 0 .. Horizon
  /\ phase \in Stepping => Now \in Times

(* The run alarms of the loop, skip_ocean_run and ocnrun_count amount to a *)
(* function of the time.                                                   *)
Dues == phase \in Stepping => \A r \in Watched : r \in due <=> DueAt(nml, r, Now)

Skips ==
  "ocn" \in nml.present /\ phase # "aborted" =>
    IF skipOcean
    THEN \/ ocnRuns = 0 /\ runAlarm["ocn"].prev <= 0
         \/ ocnRuns = 1 /\ 0 < runAlarm["ocn"].prev /\ runAlarm["ocn"].prev <= nml.dt["ocn"]
    ELSE nml.dt["ocn"] < runAlarm["ocn"].prev

(* The ocean has no restart file for the end of its first interval. *)
OceanFilesLate ==
  "ocn" \in nml.present => \A t \in DOMAIN compFile["ocn"] : 2 * nml.dt["ocn"] <= t

Called == InStep /\ AlarmsPhased /\ TimeBounds /\ Dues /\ Skips /\ OceanFilesLate

(* The clocks' part of a step. *)
LEMMA AdvanceCalls ==
  ASSUME Called, NEW f, ClockAdvance(f)
  PROVE  /\ nml' = nml /\ Now' = Now + 1 /\ Watched' = Watched
         /\ AlarmsPhased'
         /\ \A r \in Watched : /\ runAlarm'[r].ringing <=> Rings(nml, r, Now')
                               /\ runAlarm'[r].prev = IF runAlarm'[r].ringing THEN Now' ELSE runAlarm[r].prev
                               /\ runAlarm'[r].ringing => Now' = runAlarm[r].prev + Interval(nml, r)
                               /\ runAlarm[r].prev \in Int /\ runAlarm[r].prev <= Now
<1>1. nml' = nml
  BY DEF ClockAdvance
<1>2. Now' = Now + 1 /\ Now \in Int
  BY DEF Called, InStep, ClockAdvance, Now, Clocks, ClockMoves, StepOf
<1>3. Watched' = Watched
  BY <1>1 DEF Watched, Moving
<1>4. nml \in Namelists
  BY DEF Called, InStep
<1>5. ASSUME NEW r \in Watched
      PROVE  /\ Paced(runAlarm'[r], Interval(nml, r), Now')
             /\ Aligned(Interval(nml, r), runAlarm'[r].prev - Reference(nml, r))
             /\ runAlarm'[r].ringing <=> Rings(nml, r, Now')
             /\ runAlarm'[r].prev = IF runAlarm'[r].ringing THEN Now' ELSE runAlarm[r].prev
             /\ runAlarm'[r].ringing => Now' = runAlarm[r].prev + Interval(nml, r)
             /\ runAlarm[r].prev \in Int /\ runAlarm[r].prev <= Now
  <2>1. r \in RunAlarms /\ Interval(nml, r) \in Nat \ {0} /\ Reference(nml, r) \in Int
    BY <1>4, WatchedFacts
  <2>2. runAlarm'[r] = Tick(SetOff(runAlarm[r]), Now + 1, 1)
    BY <2>1 DEF ClockAdvance, RunAlarmsAt
  <2>3. /\ Paced(runAlarm[r], Interval(nml, r), Now)
        /\ Aligned(Interval(nml, r), runAlarm[r].prev - Reference(nml, r))
    BY DEF Called, AlarmsPhased
  <2>4. runAlarm[r].prev \in Int /\ runAlarm[r].prev <= Now
    BY <2>3 DEF Paced, Alarm
  <2> DEFINE b == Tick(SetOff(runAlarm[r]), Now + 1, 1)
             n == Interval(nml, r)
             ref == Reference(nml, r)
  <2>5. /\ Paced(b, n, Now + 1)
        /\ Aligned(n, b.prev - ref)
        /\ b.ringing <=> Aligned(n, Now + 1 - ref)
        /\ b.prev = IF b.ringing THEN Now + 1 ELSE runAlarm[r].prev
        /\ b.ringing => Now + 1 = runAlarm[r].prev + n
    BY <1>2, <2>1, <2>3, TickRings
  <2>6. Rings(nml, r, Now') <=> Aligned(n, Now + 1 - ref)
    <3>1. Now' - ref = Now + 1 - ref
      BY <1>2, <2>1
    <3>2. Rings(nml, r, Now') <=> Aligned(n, Now' - ref)
      BY DEF Rings
    <3> HIDE DEF n, ref
    <3> QED
      BY <3>1, <3>2
  <2> HIDE DEF b, n, ref
  <2>7. runAlarm'[r] = b
    BY <2>2 DEF b
  <2> QED
    BY <1>2, <2>4, <2>5, <2>6, <2>7 DEF n, ref
<1>6. AlarmsPhased'
  <2>1. \A r \in Watched : /\ Paced(runAlarm'[r], Interval(nml, r), Now')
                           /\ Aligned(Interval(nml, r), runAlarm'[r].prev - Reference(nml, r))
    BY <1>5
  <2> QED
    BY <2>1, <1>1, <1>3 DEF AlarmsPhased
<1> QED
  BY <1>1, <1>2, <1>3, <1>5, <1>6

(* The loop's part of a step: the ocean is skipped in its first interval   *)
(* and in no other, from the start and from a restart.                     *)
LEMMA DuesAdvance ==
  ASSUME Called, Advance
  PROVE  Dues' /\ Skips'
<1>1. ClockAdvance(force) /\ phase = "advance" /\ phase' = "ocnsetup"
  BY DEF Advance, Goto
<1>2. /\ nml' = nml /\ Now' = Now + 1 /\ Watched' = Watched
      /\ \A r \in Watched : /\ runAlarm'[r].ringing <=> Rings(nml, r, Now')
                            /\ runAlarm'[r].prev = IF runAlarm'[r].ringing THEN Now' ELSE runAlarm[r].prev
                            /\ runAlarm'[r].ringing => Now' = runAlarm[r].prev + Interval(nml, r)
                            /\ runAlarm[r].prev \in Int /\ runAlarm[r].prev <= Now
  BY <1>1, AdvanceCalls
<1>3. Now \in Nat /\ nml \in Namelists
  BY DEF Called, TimeBounds, InStep
<1> DEFINE count == IF "ocn" \in Ringing THEN ocnRuns + 1 ELSE ocnRuns
           skip == skipOcean /\ count <= 1
<1>4. /\ ocnRuns' = count /\ skipOcean' = skip
      /\ due' = IF skip THEN Ringing \ {"ocn", "ocnnext"} ELSE Ringing
  BY DEF Advance
<1>5. \A r \in Watched : r \in Ringing <=> runAlarm'[r].ringing
  BY <1>3, WatchedFacts DEF Ringing
<1>6. ASSUME "ocn" \in nml.present
      PROVE  /\ skip => ~(runAlarm'["ocn"].ringing /\ nml.dt["ocn"] < Now')
             /\ ~skip => (runAlarm'["ocn"].ringing => nml.dt["ocn"] < Now')
             /\ Skips'
  <2> DEFINE p == runAlarm["ocn"].prev
             q == runAlarm'["ocn"].prev
             n == nml.dt["ocn"]
             rings == runAlarm'["ocn"].ringing
  <2>1. "ocn" \in Moving /\ "ocn" \in Watched
    BY <1>6 DEF Moving, Watched
  <2>2. Interval(nml, "ocn") = n /\ n \in Nat \ {0}
    BY <1>3, <2>1, WatchedFacts
  <2>3. /\ q = IF rings THEN Now + 1 ELSE p
        /\ rings => Now + 1 = p + n
        /\ p \in Int /\ p <= Now
    BY <1>2, <2>1, <2>2
  <2>4. IF skipOcean THEN (ocnRuns = 0 /\ p <= 0) \/ (ocnRuns = 1 /\ 0 < p /\ p <= n) ELSE n < p
    BY <1>1, <1>6 DEF Called, Skips
  <2>5. count = IF rings THEN ocnRuns + 1 ELSE ocnRuns
    BY <1>5, <2>1
  <2>6. skipOcean => ocnRuns \in {0, 1}
    BY <2>4
  <2> HIDE DEF count
  <2>7. /\ skip => ~(rings /\ n < Now + 1)
        /\ ~skip => (rings => n < Now + 1)
        /\ IF skip THEN (count = 0 /\ q <= 0) \/ (count = 1 /\ 0 < q /\ q <= n) ELSE n < q
    <3> HIDE DEF p, q, n, rings
    <3>1. CASE skipOcean /\ ocnRuns = 0
      <4>1. count <= 1
        BY <2>5, <3>1
      <4> QED
        BY <1>3, <2>2, <2>3, <2>4, <2>5, <3>1, <4>1
    <3>2. CASE skipOcean /\ ocnRuns = 1
      <4>1. 0 < p /\ p <= n
        BY <2>4, <3>2
      <4>2. CASE rings
        <5>1. count = 2 /\ ~skip
          BY <2>5, <3>2, <4>2
        <5> QED
          BY <1>3, <2>2, <2>3, <4>1, <4>2, <5>1
      <4>3. CASE ~rings
        <5>1. count = 1 /\ skip
          BY <2>5, <3>2, <4>3
        <5> QED
          BY <1>3, <2>2, <2>3, <4>1, <4>3, <5>1
      <4> QED
        BY <4>2, <4>3
    <3>3. CASE ~skipOcean
      BY <1>3, <2>2, <2>3, <2>4, <3>3
    <3> QED
      BY <2>6, <3>1, <3>2, <3>3
  <2>8. Skips'
    BY <1>2, <1>4, <2>7 DEF Skips
  <2> QED
    BY <1>2, <2>7, <2>8
<1>7. Skips'
  BY <1>2, <1>6 DEF Skips
<1>8. ASSUME NEW r \in Watched
      PROVE  r \in due' <=> DueAt(nml, r, Now')
  <2>1. r # "ocnnext"
    BY <1>3, WatchedFacts
  <2>2. r \in Ringing <=> Rings(nml, r, Now')
    BY <1>2, <1>5
  <2> HIDE DEF Ringing
  <2>3. CASE r = "ocn"
    <3>1. "ocn" \in nml.present
      BY <2>3 DEF Watched, Moving
    <3> HIDE DEF skip
    <3>2. r \in due' <=> runAlarm'["ocn"].ringing /\ ~skip
      BY <1>4, <1>5, <2>3
    <3> QED
      BY <1>2, <1>6, <2>3, <3>1, <3>2 DEF DueAt
  <2>4. CASE r # "ocn"
    BY <1>4, <2>1, <2>2, <2>4 DEF DueAt
  <2> QED
    BY <2>3, <2>4
<1>9. Dues'
  BY <1>2, <1>8 DEF Dues
<1> QED
  BY <1>7, <1>9

-----------------------------------------------------------------------------
(* A component that is called is in the first step of its interval, and    *)
(* its clock in that interval.                                             *)
LEMMA CalledClock ==
  ASSUME Called, phase \in Stepping, NEW c \in Moving, c \in due
  PROVE  /\ Rings(nml, c, Now) /\ (c = "ocn" => nml.dt["ocn"] < Now)
         /\ clk[c] \in Int /\ Now \in Int
         /\ Now <= clk[c] /\ clk[c] < Now + nml.dt[c]
         /\ Aligned(nml.dt[c], clk[c])
<1> DEFINE n == nml.dt[c]
           p == runAlarm[c].prev
           ref == Reference(nml, c)
<1>1. nml \in Namelists /\ c \in Watched
  BY DEF Called, InStep, Watched
<1>2. n \in Nat \ {0} /\ Interval(nml, c) = n /\ ref \in Int /\ c \in Comps
  BY <1>1, WatchedFacts, NamelistFacts
<1>3. ClockPaced(c) /\ clk[c] \in Int /\ Now \in Int
  BY <1>2 DEF Called, InStep, Now, Clocks
<1>4. /\ Aligned(n, clk[c]) /\ p <= clk[c] /\ clk[c] < p + n
      /\ p \in Int /\ p <= Now /\ Now < p + n
  BY <1>3 DEF ClockPaced, Paced, Alarm
<1>5. DueAt(nml, c, Now)
  BY <1>1 DEF Called, Dues
<1>6. Rings(nml, c, Now) /\ Aligned(n, p - ref)
  BY <1>1, <1>2, <1>5 DEF DueAt, Called, AlarmsPhased
<1>7. Aligned(n, Now - ref)
  BY <1>2, <1>6 DEF Rings
<1> HIDE DEF n, p, ref
<1>8. p - ref = Now - ref
  <2>1. p - ref \in Int /\ Now - ref \in Int /\ p - ref <= Now - ref /\ Now - ref < (p - ref) + n
    BY <1>2, <1>3, <1>4
  <2> QED
    BY <1>2, <1>6, <1>7, <2>1, AlignedApart
<1>9. p = Now
  BY <1>2, <1>3, <1>4, <1>8
<1>10. c = "ocn" => nml.dt["ocn"] < Now
  BY <1>5 DEF DueAt
<1> QED
  BY <1>3, <1>4, <1>6, <1>9, <1>10 DEF n

LEMMA OceanFiled ==
  ASSUME Called, phase \in Stepping, NEW C, RunComponents(C), nml' = nml
  PROVE  OceanFilesLate'
<1> SUFFICES ASSUME "ocn" \in nml.present, NEW t \in DOMAIN compFile'["ocn"]
             PROVE  2 * nml.dt["ocn"] <= t
  BY DEF OceanFilesLate
<1>1. "ocn" \in Comps /\ "ocn" \in Moving /\ nml \in Namelists
  BY DEF Comps, Moving, Called, InStep
<1>2. CASE t \in DOMAIN compFile["ocn"]
  BY <1>2 DEF Called, OceanFilesLate
<1>3. CASE t \notin DOMAIN compFile["ocn"]
  <2> DEFINE n == nml.dt["ocn"]
  <2>1. t = clk["ocn"] /\ "ocn" \in due
    BY <1>1, <1>3 DEF RunComponents, Filed
  <2>2. n < Now /\ Now <= t /\ Aligned(n, t) /\ t \in Int /\ Now \in Int
    BY <1>1, <2>1, CalledClock
  <2>3. n \in Nat \ {0}
    BY <1>1, NamelistFacts
  <2> HIDE DEF n
  <2>4. ~(t < n + n)
    <3> SUFFICES ASSUME t < n + n PROVE FALSE
      OBVIOUS
    <3>1. Aligned(n, n) /\ n \in Int /\ n <= t
      BY <2>2, <2>3, AlignedZero
    <3>2. n = t
      BY <2>2, <2>3, <3>1, AlignedApart
    <3> QED
      BY <2>2, <2>3, <3>2
  <2>5. 2 * n <= t
    BY <2>2, <2>3, <2>4
  <2> QED
    BY <2>5 DEF n
<1> QED
  BY <1>2, <1>3

LEMMA SameCalls ==
  ASSUME Called, UNCHANGED <<clockVars, due, skipOcean, ocnRuns>>,
         phase' \in Stepping => phase \in Stepping, phase = "aborted" => phase' = "aborted"
  PROVE  AlarmsPhased' /\ Dues' /\ Skips'
<1>1. nml' = nml /\ Now' = Now /\ runAlarm' = runAlarm /\ Watched' = Watched
  BY DEF clockVars, Now, Watched, Moving
<1>2. AlarmsPhased'
  BY <1>1 DEF Called, AlarmsPhased
<1>3. Dues'
  BY <1>1 DEF Called, Dues
<1>4. Skips'
  BY <1>1 DEF Called, Skips
<1> QED
  BY <1>2, <1>3, <1>4

LEMMA CalledInitially ==
  Init => Called
<1> SUFFICES ASSUME Init PROVE Called
  OBVIOUS
<1>1. InStep
  BY InStepInitially
<1>2. nml \in Namelists
  BY <1>1 DEF InStep
<1>3. Now = 0
  BY DEF Init, ClockInit, Now, Clocks
<1>4. AlarmsPhased
  <2> SUFFICES ASSUME NEW r \in Watched
               PROVE  /\ Paced(runAlarm[r], Interval(nml, r), Now)
                      /\ Aligned(Interval(nml, r), runAlarm[r].prev - Reference(nml, r))
    BY DEF AlarmsPhased
  <2>1. runAlarm = ClockInit(nml, 0).run
    BY DEF Init
  <2>2. r \in Comps \union {"glcavg"}
    BY <1>2, WatchedFacts
  <2> DEFINE c == IF r = "glcavg" THEN "glc" ELSE r
  <2>3. c \in Comps
    BY <2>2 DEF Comps
  <2>4. Aligned(nml.dt[c], 0)
    BY <1>2, <2>3, NamelistFacts, AlignedZero
  <2> QED
    BY <1>2, <1>3, <2>1, <2>2, <2>4, ClockInitPhased
<1>5. TimeBounds
  BY <1>3, BoundAssumption DEF TimeBounds, Init, Again, Stepping, Running
<1>6. Dues
  BY DEF Dues, Init, Again, Stepping, Running
<1>7. Skips
  <2> SUFFICES ASSUME "ocn" \in nml.present
               PROVE  runAlarm["ocn"].prev <= 0
    BY DEF Skips, Init
  <2>1. "ocn" \in Watched
    BY DEF Watched, Moving
  <2> QED
    BY <1>3, <1>4, <2>1 DEF AlarmsPhased, Paced
<1>8. OceanFilesLate
  BY DEF OceanFilesLate, Init, Comps
<1> QED
  BY <1>1, <1>4, <1>5, <1>6, <1>7, <1>8 DEF Called

(* A continued run starts where every interval ends, and the ocean after   *)
(* its second one.                                                         *)
LEMMA CalledContinued ==
  ASSUME Called, Continue
  PROVE  AlarmsPhased' /\ TimeBounds' /\ Dues' /\ Skips' /\ OceanFilesLate'
<1>1. PICK t \in DOMAIN drvFile : /\ Complete(t) /\ clk' = ClockInit(nml, t).clk
                                  /\ runAlarm' = ClockInit(nml, t).run
  BY DEF Continue
<1>2. /\ UNCHANGED <<nml, drvFile, compFile>> /\ phase' = Again' /\ skipOcean' = FALSE
  BY DEF Continue, Goto
<1>3. phase' \in {"done", "advance"}
  BY <1>2 DEF Again
<1>4. nml \in Namelists /\ t \in Nat /\ t \in Int /\ t <= Horizon /\ nml.present \subseteq Comps
  BY <1>1, TimesFacts, NamelistFacts DEF Called, InStep, TimeBounds
<1>5. \A c \in Moving : Aligned(nml.dt[c], t)
  BY <1>1 DEF Complete, Called, InStep, FilesAligned, Moving
<1>6. Now' = t
  BY <1>1, <1>4, ClockInitPaced DEF Now
<1>7. Watched' = Watched
  BY <1>2 DEF Watched, Moving
<1>8. ASSUME NEW r \in Watched
      PROVE  /\ Paced(runAlarm'[r], Interval(nml, r), t)
             /\ Aligned(Interval(nml, r), runAlarm'[r].prev - Reference(nml, r))
  <2> DEFINE c == IF r = "glcavg" THEN "glc" ELSE r
  <2>1. r \in Comps \union {"glcavg"} /\ "glcavg" \notin Comps
    BY <1>4, WatchedFacts DEF Comps
  <2>2. c \in Moving
    BY <2>1, <1>4 DEF Watched, Moving
  <2>3. Aligned(nml.dt[c], t)
    BY <1>5, <2>2
  <2> QED
    BY <1>1, <1>4, <2>1, <2>3, ClockInitPhased
<1>9. AlarmsPhased'
  BY <1>2, <1>6, <1>7, <1>8 DEF AlarmsPhased
<1>10. TimeBounds'
  BY <1>2, <1>3, <1>4, <1>6 DEF Called, TimeBounds, Stepping, Running
<1>11. Dues'
  BY <1>3 DEF Dues, Stepping, Running
<1>12. Skips'
  <2> SUFFICES ASSUME "ocn" \in nml.present
               PROVE  nml.dt["ocn"] < runAlarm'["ocn"].prev
    BY <1>2 DEF Skips
  <2>1. "ocn" \in Watched /\ "ocn" \in Moving
    BY DEF Watched, Moving
  <2>2. 2 * nml.dt["ocn"] <= t
    BY <1>1 DEF Called, OceanFilesLate, Complete
  <2>3. Interval(nml, "ocn") = nml.dt["ocn"] /\ nml.dt["ocn"] \in Nat \ {0}
    BY <1>4, <2>1, WatchedFacts
  <2>4. t < runAlarm'["ocn"].prev + nml.dt["ocn"] /\ runAlarm'["ocn"].prev \in Int
    BY <1>8, <2>1, <2>3 DEF Paced, Alarm
  <2> QED
    BY <1>4, <2>2, <2>3, <2>4
<1>13. OceanFilesLate'
  BY <1>2 DEF Called, OceanFilesLate
<1> QED
  BY <1>9, <1>10, <1>11, <1>12, <1>13

LEMMA CalledKept ==
  Called /\ [Next]_vars => Called'
<1> SUFFICES ASSUME Called, [Next]_vars PROVE Called'
  OBVIOUS
<1> SUFFICES AlarmsPhased' /\ TimeBounds' /\ Dues' /\ Skips' /\ OceanFilesLate'
  BY InStepKept DEF Called
<1>1. Now \in 0 .. Horizon /\ DOMAIN drvFile \subseteq 0 .. Horizon /\ (phase \in Stepping => Now \in Times)
  BY DEF Called, TimeBounds
<1>2. ASSUME ClockAdvance(force), Now < Horizon, UNCHANGED <<drvFile, compFile>>
      PROVE  AlarmsPhased' /\ TimeBounds' /\ OceanFilesLate'
  <2>1. nml' = nml /\ Now' = Now + 1 /\ AlarmsPhased'
    BY <1>2, AdvanceCalls
  <2>2. Now' \in Times /\ Now' \in 0 .. Horizon
    BY <1>1, <1>2, <2>1, TimesFacts
  <2> QED
    BY <1>1, <1>2, <2>1, <2>2 DEF TimeBounds, OceanFilesLate, Called
<1>3. ASSUME phase \in Stepping, phase' \in Stepping, SameLoop, UNCHANGED drvFile,
             compFile' = compFile \/ \E C : RunComponents(C)
      PROVE  AlarmsPhased' /\ TimeBounds' /\ Dues' /\ Skips' /\ OceanFilesLate'
  <2>1. AlarmsPhased' /\ Dues' /\ Skips'
    BY <1>3, SameCalls DEF SameLoop, Stepping, Running
  <2>2. nml' = nml /\ Now' = Now
    BY <1>3 DEF SameLoop, clockVars, Now
  <2>3. OceanFilesLate'
    <3>1. CASE compFile' = compFile
      BY <2>2, <3>1 DEF Called, OceanFilesLate
    <3>2. CASE \E C : RunComponents(C)
      BY <1>3, <2>2, <3>2, OceanFiled
    <3> QED
      BY <1>3, <3>1, <3>2
  <2>4. TimeBounds'
    BY <1>1, <1>3, <2>2 DEF TimeBounds
  <2> QED
    BY <2>1, <2>3, <2>4
<1>4. ASSUME UNCHANGED <<clockVars, due, skipOcean, ocnRuns, drvFile, compFile>>,
             phase' \notin Stepping \/ phase' = phase, phase = "aborted" => phase' = "aborted"
      PROVE  AlarmsPhased' /\ TimeBounds' /\ Dues' /\ Skips' /\ OceanFilesLate'
  <2>1. AlarmsPhased' /\ Dues' /\ Skips'
    BY <1>4, SameCalls
  <2>2. nml' = nml /\ Now' = Now
    BY <1>4 DEF clockVars, Now
  <2> QED
    BY <1>1, <1>4, <2>1, <2>2 DEF TimeBounds, OceanFilesLate, Called
<1>5. CASE Advance
  <2>1. AlarmsPhased' /\ TimeBounds' /\ OceanFilesLate'
    BY <1>5, <1>2 DEF Advance
  <2>2. Dues' /\ Skips'
    BY <1>5, DuesAdvance
  <2> QED
    BY <2>1, <2>2
<1>6. CASE AbortOnGlcAlarms
  <2>1. AlarmsPhased' /\ TimeBounds' /\ OceanFilesLate'
    BY <1>6, <1>2 DEF AbortOnGlcAlarms
  <2>2. phase' = "aborted"
    BY <1>6 DEF AbortOnGlcAlarms, Goto
  <2> QED
    BY <2>1, <2>2 DEF Dues, Skips, Stepping, Running
<1>7. CASE OcnSetup
  BY <1>7, <1>3 DEF OcnSetup, Goto, Stepping, Running
<1>8. CASE Surface
  BY <1>8, <1>3 DEF Surface, Goto, Stepping, Running
<1>9. CASE Flux
  BY <1>9, <1>3 DEF Flux, Goto, Stepping, Running
<1>10. CASE Land
  BY <1>10, <1>3 DEF Land, Goto, Stepping, Running
<1>11. CASE Late
  BY <1>11, <1>3 DEF Late, Goto, Stepping, Running
<1>12. CASE WriteRestart
  <2>1. phase \in Stepping /\ phase' \in Stepping /\ SameLoop /\ compFile' = compFile
        /\ phase = "restart"
    BY <1>12 DEF WriteRestart, Goto, Stepping, Running
  <2>2. AlarmsPhased' /\ Dues' /\ Skips'
    BY <2>1, SameCalls DEF SameLoop
  <2>3. nml' = nml /\ Now' = Now
    BY <2>1 DEF SameLoop, clockVars, Now
  <2>4. DOMAIN drvFile' \subseteq DOMAIN drvFile \union {Now}
    BY <1>12 DEF WriteRestart, Filed
  <2> QED
    BY <1>1, <2>1, <2>2, <2>3, <2>4 DEF TimeBounds, OceanFilesLate, Called
<1>13. CASE EndStep
  <2>1. phase' \in {"done", "advance"} /\ phase = "end"
        /\ UNCHANGED <<clockVars, due, skipOcean, ocnRuns, drvFile, compFile>>
    BY <1>13 DEF EndStep, Goto, Again
  <2> QED
    BY <1>4, <2>1 DEF Stepping, Running
<1>14. CASE Crash
  <2>1. phase' = "crashed" /\ phase # "aborted"
        /\ UNCHANGED <<clockVars, due, skipOcean, ocnRuns, drvFile, compFile>>
    BY <1>14 DEF Crash, Goto, Phases
  <2> QED
    BY <1>4, <2>1 DEF Stepping, Running
<1>15. CASE Continue
  BY <1>15, CalledContinued
<1>16. CASE UNCHANGED vars
  BY <1>16, <1>4 DEF vars, loopVars
<1> QED
  BY <1>5, <1>6, <1>7, <1>8, <1>9, <1>10, <1>11, <1>12, <1>13, <1>14, <1>15, <1>16 DEF Next, Step

-----------------------------------------------------------------------------
(* Where the fields are in the course of a step. *)

(* The phases in which a field is accumulated and sent, and their order. *)
SamplePhase(nl, l) ==
  IF l = "x2o"
  THEN IF nl.seq = "RASM_OPTION1" THEN "ocnsetup"
       ELSE IF nl.seq = "RASM_OPTION2" THEN "late" ELSE "flux"
  ELSE IF l = "a2r" THEN "late" ELSE "land"

SendPhase(nl, l) ==
  IF l = "x2o"
  THEN IF nl.seq = "RASM_OPTION2" THEN "late" ELSE "ocnsetup"
  ELSE IF l = "l2g" THEN "land" ELSE "surface"

Place(p) ==
  CASE p = "ocnsetup" -> 1 [] p = "surface" -> 2 [] p = "flux" -> 3 [] p = "land" -> 4
    [] p = "late" -> 5 [] p = "restart" -> 6 [] OTHER -> 7

Passed(p) == phase \in Stepping => Place(p) < Place(phase)

SampledTo(l) == IF Passed(SamplePhase(nml, l)) THEN Now ELSE Now - 1
SentTo(l) == IF Passed(SendPhase(nml, l)) THEN Now ELSE Now - 1

LinkAt(l, a, b) ==
  /\ made[l] = Made(nml, l, a)
  /\ used[l] = UsedTo(nml, l, a, b)
  /\ acc[l] = AccTo(nml, l, a, b)

Fields ==
  /\ made = [l \in Links |-> made[l]] /\ used = [l \in Links |-> used[l]]
  /\ IF phase \in {"crashed", "aborted"}
     THEN \A l \in Links : \E a, b \in {Now - 1, Now} : LinkAt(l, a, b)
     ELSE \A l \in Links : LinkAt(l, SampledTo(l), SentTo(l))

(* Restart files hold what the time of their name says. *)
FilesExact ==
  /\ \A t \in DOMAIN drvFile :
        drvFile[t] = [acc |-> [l \in SavedLinks |-> AccTo(nml, l, t, t)],
                      made |-> [l \in Links |-> Made(nml, l, t)]]
  /\ \A c \in Comps : \A t \in DOMAIN compFile[c] :
        compFile[c][t] = [l \in Inputs(c) |-> UsedTo(nml, l, t, t)]

(* Sampling and sending for a link, or not. *)
LEMMA SampleStep ==
  ASSUME NEW nl, NEW l, NEW s \in Times, NEW b, b = IF SampleFirst(nl, l) THEN s - 1 ELSE s
  PROVE  /\ Made(nl, l, s) = IF SampleAt(nl, l, s) THEN Made(nl, l, s - 1) \union {s}
                             ELSE Made(nl, l, s - 1)
         /\ UsedTo(nl, l, s, b) = UsedTo(nl, l, s - 1, b)
         /\ LET x == AccTo(nl, l, s - 1, b)
            IN  AccTo(nl, l, s, b) = IF SampleAt(nl, l, s)
                                     THEN [cnt |-> x.cnt + 1,
                                           sum |-> IF x.cnt = 0 THEN {s} ELSE x.sum \union {s}]
                                     ELSE x
<1>1. CASE SampleAt(nl, l, s)
  BY <1>1, Sample
<1>2. CASE ~SampleAt(nl, l, s)
  BY <1>2, NoSample
<1> QED
  BY <1>1, <1>2

LEMMA SendStep ==
  ASSUME NEW nl \in Namelists, KeepsUp(nl), NEW l \in Links, NEW s \in Times,
         NEW a, a = IF SampleFirst(nl, l) THEN s ELSE s - 1
  PROVE  LET x == AccTo(nl, l, a, s - 1)
             u == UsedTo(nl, l, a, s - 1)
         IN  /\ AccTo(nl, l, a, s) = IF SendAt(nl, l, s) THEN [x EXCEPT !.cnt = 0] ELSE x
             /\ UsedTo(nl, l, a, s) = IF SendAt(nl, l, s)
                                      THEN [t \in Times |-> u[t] + (IF t \in x.sum THEN 1 ELSE 0)]
                                      ELSE u
<1>1. CASE SendAt(nl, l, s)
  BY <1>1, Sending
<1>2. CASE ~SendAt(nl, l, s)
  BY <1>2, NoSending
<1> QED
  BY <1>1, <1>2

(* One phase for one link: L are the links that accumulate, S those that   *)
(* send, and each link does so in its own phase and at its own dates.      *)
LEMMA LinkPhase ==
  ASSUME nml \in Namelists, KeepsUp(nml), Now \in Times, UNCHANGED clockVars,
         phase \in Running \ {"restart"}, phase' \in Stepping, Place(phase)' = Place(phase) + 1,
         NEW L, NEW S, NEW l \in Links,
         l \in L <=> phase = SamplePhase(nml, l) /\ SampleAt(nml, l, Now),
         l \in S <=> phase = SendPhase(nml, l) /\ SendAt(nml, l, Now),
         LinkAt(l, SampledTo(l), SentTo(l)),
         NEW as, as = Sampled(acc, L),
         made'[l] = Computed(L)[l], acc'[l] = Sent(as, S)[l], used'[l] = Received(as, S)[l]
  PROVE  /\ LinkAt(l, SampledTo(l), SentTo(l))'
         /\ SampledTo(l)' = (IF Place(SamplePhase(nml, l)) <= Place(phase) THEN Now ELSE Now - 1)
         /\ SentTo(l)' = (IF Place(SendPhase(nml, l)) <= Place(phase) THEN Now ELSE Now - 1)
<1> DEFINE s == Now
           P == SamplePhase(nml, l)
           Q == SendPhase(nml, l)
           a == SampledTo(l)
           b == SentTo(l)
           c == IF Place(P) <= Place(phase) THEN s ELSE s - 1
           d == IF Place(Q) <= Place(phase) THEN s ELSE s - 1
<1>1. nml' = nml /\ Now' = s
  BY DEF clockVars, Now
<1>2. /\ Place(phase) \in 1 .. 5 /\ Place(P) \in 1 .. 5 /\ Place(Q) \in 1 .. 5
      /\ phase \in Stepping
  BY DEF Place, Running, Stepping, SamplePhase, SendPhase
<1>3. (Place(P) = Place(phase) <=> P = phase) /\ (Place(Q) = Place(phase) <=> Q = phase)
  BY DEF Place, Running, SamplePhase, SendPhase
<1>4. /\ a = IF Place(P) < Place(phase) THEN s ELSE s - 1
      /\ b = IF Place(Q) < Place(phase) THEN s ELSE s - 1
  BY <1>2 DEF SampledTo, SentTo, Passed
<1>5. SampledTo(l)' = c /\ SentTo(l)' = d
  <2>1. Passed(P)' <=> Place(P) < Place(phase)'
    BY <1>1 DEF Passed
  <2>2. Passed(Q)' <=> Place(Q) < Place(phase)'
    BY <1>1 DEF Passed
  <2> HIDE DEF P, Q
  <2>3. (Passed(P)' <=> Place(P) <= Place(phase)) /\ (Passed(Q)' <=> Place(Q) <= Place(phase))
    BY <1>2, <2>1, <2>2
  <2> QED
    BY <1>1, <2>3 DEF SampledTo, SentTo, P, Q
<1>6. IF SampleFirst(nml, l) THEN P = Q ELSE Place(Q) < Place(P)
  BY DEF SampleFirst, SamplePhase, SendPhase, Place, Links
<1>7. made[l] = Made(nml, l, a) /\ used[l] = UsedTo(nml, l, a, b) /\ acc[l] = AccTo(nml, l, a, b)
  BY DEF LinkAt
<1> DEFINE smp == l \in L
           snd == l \in S
           x == acc[l]
           y == IF smp THEN [cnt |-> x.cnt + 1, sum |-> IF x.cnt = 0 THEN {s} ELSE x.sum \union {s}]
                ELSE x
<1>8. /\ made'[l] = IF smp THEN made[l] \union {s} ELSE made[l]
      /\ as[l] = y
      /\ acc'[l] = IF snd THEN [y EXCEPT !.cnt = 0] ELSE y
      /\ used'[l] = IF snd THEN [t \in Times |-> used[l][t] + (IF t \in y.sum THEN 1 ELSE 0)]
                    ELSE used[l]
  BY DEF Computed, Sampled, Sent, Received, Accumulated, Averaged
<1>9. smp <=> P = phase /\ SampleAt(nml, l, s)
  OBVIOUS
<1>10. snd <=> Q = phase /\ SendAt(nml, l, s)
  OBVIOUS
<1> HIDE DEF P, Q, a, b, c, d, smp, snd, x, y
<1>11. made'[l] = Made(nml, l, c) /\ used'[l] = UsedTo(nml, l, c, d) /\ acc'[l] = AccTo(nml, l, c, d)
  <2>1. CASE P = phase /\ Q = phase
    <3>1. SampleFirst(nml, l)
      BY <1>2, <1>6, <2>1
    <3>2. a = s - 1 /\ b = s - 1 /\ c = s /\ d = s
      BY <1>2, <1>4, <2>1 DEF c, d
    <3>3. /\ Made(nml, l, s) = IF smp THEN Made(nml, l, s - 1) \union {s} ELSE Made(nml, l, s - 1)
          /\ UsedTo(nml, l, s, s - 1) = UsedTo(nml, l, s - 1, s - 1)
          /\ AccTo(nml, l, s, s - 1) = y
      BY <3>1, <3>2, <1>7, <1>9, <2>1, SampleStep DEF x, y
    <3>4. /\ AccTo(nml, l, s, s) = IF snd THEN [y EXCEPT !.cnt = 0] ELSE y
          /\ UsedTo(nml, l, s, s) =
               IF snd THEN [t \in Times |-> used[l][t] + (IF t \in y.sum THEN 1 ELSE 0)]
               ELSE used[l]
      <4>1. s = IF SampleFirst(nml, l) THEN s ELSE s - 1
        BY <3>1
      <4>2. used[l] = UsedTo(nml, l, s, s - 1)
        BY <3>2, <3>3, <1>7
      <4>3. snd <=> SendAt(nml, l, s)
        BY <1>10, <2>1
      <4> DEFINE z == AccTo(nml, l, s, s - 1)
                 u == UsedTo(nml, l, s, s - 1)
      <4>4. /\ AccTo(nml, l, s, s) = IF SendAt(nml, l, s) THEN [z EXCEPT !.cnt = 0] ELSE z
            /\ UsedTo(nml, l, s, s) = IF SendAt(nml, l, s)
                                       THEN [t \in Times |-> u[t] + (IF t \in z.sum THEN 1 ELSE 0)]
                                       ELSE u
        BY <4>1, SendStep
      <4>5. z = y /\ u = used[l]
        BY <3>3, <4>2
      <4> HIDE DEF z, u
      <4> QED
        BY <4>3, <4>4, <4>5
    <3> QED
      BY <3>2, <3>3, <3>4, <1>7, <1>8
  <2>2. CASE P = phase /\ Q # phase
    <3>1. ~SampleFirst(nml, l)
      BY <1>6, <2>2
    <3>2. a = s - 1 /\ b = s /\ c = s /\ d = s
      BY <1>2, <1>4, <1>6, <2>2, <3>1 DEF c, d
    <3>3. /\ Made(nml, l, s) = IF smp THEN Made(nml, l, s - 1) \union {s} ELSE Made(nml, l, s - 1)
          /\ UsedTo(nml, l, s, s) = UsedTo(nml, l, s - 1, s)
          /\ AccTo(nml, l, s, s) = y
      BY <3>1, <3>2, <1>7, <1>9, <2>2, SampleStep DEF x, y
    <3>4. ~snd
      BY <1>10, <2>2
    <3> QED
      BY <3>2, <3>3, <3>4, <1>7, <1>8
  <2>3. CASE P # phase /\ Q = phase
    <3>1. ~SampleFirst(nml, l)
      BY <1>6, <2>3
    <3>2. a = s - 1 /\ b = s - 1 /\ c = s - 1 /\ d = s
      BY <1>2, <1>4, <1>6, <2>3, <3>1 DEF c, d
    <3>3. ~smp /\ y = x
      BY <1>9, <2>3 DEF y
    <3>4. /\ AccTo(nml, l, s - 1, s) = IF snd THEN [y EXCEPT !.cnt = 0] ELSE y
          /\ UsedTo(nml, l, s - 1, s) =
               IF snd THEN [t \in Times |-> used[l][t] + (IF t \in y.sum THEN 1 ELSE 0)]
               ELSE used[l]
      BY <3>1, <3>2, <3>3, <1>7, <1>10, <2>3, SendStep DEF x
    <3> QED
      BY <3>2, <3>3, <3>4, <1>7, <1>8
  <2>4. CASE P # phase /\ Q # phase
    <3>1. ~smp /\ ~snd /\ y = x
      BY <1>9, <1>10, <2>4 DEF y
    <3>2. c = a /\ d = b
      BY <1>2, <1>3, <1>4, <2>4 DEF c, d
    <3> QED
      BY <3>1, <3>2, <1>7, <1>8 DEF x
  <2> QED
    BY <2>1, <2>2, <2>3, <2>4
<1>12. LinkAt(l, SampledTo(l), SentTo(l))'
  BY <1>1, <1>5, <1>11 DEF LinkAt
<1> QED
  BY <1>5, <1>12 DEF c, d, P, Q

-----------------------------------------------------------------------------
(* The fields stay where the time says, in every phase. *)

LEMMA PresentFacts ==
  ASSUME NEW nl \in Namelists
  PROVE  nl.prognostic \subseteq nl.present
  BY NamelistAssumption DEF Accepted

(* What the loop looks at for a link that exists. *)
LEMMA Lookups ==
  ASSUME Called, KeepsUp(nml), phase \in Stepping, NEW l \in Links, Active(nml, l)
  PROVE  /\ l # "a2r"
         /\ Dest[l] \in nml.present
         /\ Dest[l] \in due <=> DueAt(nml, Dest[l], Now)
         /\ l # "x2o" => "lnd" \in nml.present /\ ("lnd" \in due <=> DueAt(nml, "lnd", Now))
         /\ l = "l2g" => ("glcavg" \in due <=> DueAt(nml, "glcavg", Now))
<1>1. nml.prognostic \subseteq nml.present
  BY PresentFacts DEF Called, InStep
<1>2. l # "a2r"
  BY DEF KeepsUp, Active
<1>3. Dest[l] \in nml.present /\ Dest[l] # "iac"
  <2>1. l \in {"x2o", "l2r", "l2g"}
    BY <1>2 DEF Links
  <2>2. CASE l = "x2o"
    BY <1>1, <2>2 DEF Active, Dest
  <2>3. CASE l = "l2r"
    BY <1>1, <2>3 DEF Active, Dest
  <2>4. CASE l = "l2g"
    BY <1>1, <2>4 DEF Active, Dest
  <2> QED
    BY <2>1, <2>2, <2>3, <2>4
<1>4. l # "x2o" => "lnd" \in nml.present
  BY <1>2 DEF Active, Links
<1>5. \A r \in Watched : r \in due <=> DueAt(nml, r, Now)
  BY DEF Called, Dues
<1>6. Dest[l] \in Watched /\ ("lnd" \in nml.present => "lnd" \in Watched)
  BY <1>3 DEF Watched, Moving
<1>7. l = "l2g" => "glcavg" \in Watched
  BY <1>3 DEF Watched, Dest
<1> QED
  BY <1>2, <1>3, <1>4, <1>5, <1>6, <1>7

LEMMA PhaseKept ==
  ASSUME Called, KeepsUp(nml), Fields, UNCHANGED clockVars,
         phase \in Running \ {"restart"}, phase' \in Stepping, Place(phase)' = Place(phase) + 1,
         NEW L, NEW S,
         \A l \in Links : l \in L <=> phase = SamplePhase(nml, l) /\ SampleAt(nml, l, Now),
         \A l \in Links : l \in S <=> phase = SendPhase(nml, l) /\ SendAt(nml, l, Now),
         made' = Computed(L), acc' = Sent(Sampled(acc, L), S), used' = Received(Sampled(acc, L), S)
  PROVE  /\ Fields'
         /\ \A l \in Links : \E a \in {Now - 1, Now} :
              /\ Place(SamplePhase(nml, l)) <= Place(phase) => a = Now
              /\ Place(SendPhase(nml, l)) <= Place(phase) => used'[l] = UsedTo(nml, l, a, Now)
<1>1. nml \in Namelists /\ Now \in Times /\ nml' = nml /\ Now' = Now
  BY DEF Called, InStep, TimeBounds, Stepping, clockVars, Now
<1>2. phase \notin {"crashed", "aborted"} /\ phase' \notin {"crashed", "aborted"}
  BY DEF Running, Stepping
<1>3. ASSUME NEW l \in Links
      PROVE  /\ LinkAt(l, SampledTo(l), SentTo(l))'
             /\ SampledTo(l)' = (IF Place(SamplePhase(nml, l)) <= Place(phase) THEN Now ELSE Now - 1)
             /\ SentTo(l)' = (IF Place(SendPhase(nml, l)) <= Place(phase) THEN Now ELSE Now - 1)
  <2>1. LinkAt(l, SampledTo(l), SentTo(l))
    BY <1>2 DEF Fields
  <2>2. l \in L <=> phase = SamplePhase(nml, l) /\ SampleAt(nml, l, Now)
    OBVIOUS
  <2>3. l \in S <=> phase = SendPhase(nml, l) /\ SendAt(nml, l, Now)
    OBVIOUS
  <2>4. /\ made'[l] = Computed(L)[l]
        /\ acc'[l] = Sent(Sampled(acc, L), S)[l]
        /\ used'[l] = Received(Sampled(acc, L), S)[l]
    OBVIOUS
  <2> QED
    BY <1>1, <2>1, <2>2, <2>3, <2>4, LinkPhase
<1>4. made' = [l \in Links |-> made'[l]] /\ used' = [l \in Links |-> used'[l]]
  BY DEF Computed, Received
<1>5. Fields'
  <2>1. \A l \in Links : LinkAt(l, SampledTo(l), SentTo(l))'
    BY <1>3
  <2> QED
    BY <1>2, <1>4, <2>1 DEF Fields
<1>6. ASSUME NEW l \in Links
      PROVE  \E a \in {Now - 1, Now} :
               /\ Place(SamplePhase(nml, l)) <= Place(phase) => a = Now
               /\ Place(SendPhase(nml, l)) <= Place(phase) => used'[l] = UsedTo(nml, l, a, Now)
  <2>1. used'[l] = UsedTo(nml', l, SampledTo(l)', SentTo(l)')
    BY <1>3 DEF LinkAt
  <2> DEFINE a == IF Place(SamplePhase(nml, l)) <= Place(phase) THEN Now ELSE Now - 1
  <2>2. Place(SendPhase(nml, l)) <= Place(phase) => used'[l] = UsedTo(nml, l, a, Now)
    BY <1>1, <1>3, <2>1
  <2> QED
    BY <2>2
<1> QED
  BY <1>5, <1>6

(* The restart files of components that are called. *)
LEMMA FilesRun ==
  ASSUME Called, FilesExact, phase \in Stepping, NEW C, RunComponents(C),
         UNCHANGED <<clockVars, drvFile>>,
         \A l \in Links : Dest[l] \in C =>
            \E a \in {Now - 1, Now} : /\ SampleFirst(nml, l) => a = Now
                                      /\ used'[l] = UsedTo(nml, l, a, Now)
  PROVE  FilesExact'
<1>1. nml \in Namelists /\ nml' = nml
  BY DEF Called, InStep, clockVars
<1>2. SavedLinks' = SavedLinks
  BY <1>1 DEF SavedLinks, Present, Prognostic
<1>3. ASSUME NEW c \in Comps, NEW t \in DOMAIN compFile'[c]
      PROVE  compFile'[c][t] = [l \in Inputs(c) |-> UsedTo(nml, l, t, t)]
  <2> DEFINE files == c \in C /\ Present(c) /\ c \in due /\ clockAlarm[c]["restart"].ringing
  <2>1. compFile'[c] = IF files THEN Filed(compFile[c], clk[c], [l \in Inputs(c) |-> used'[l]])
                       ELSE compFile[c]
    BY DEF RunComponents
  <2>2. CASE files /\ t = clk[c]
    <3>1. compFile'[c][t] = [l \in Inputs(c) |-> used'[l]]
      BY <2>1, <2>2 DEF Filed
    <3>2. ASSUME NEW l \in Inputs(c)
          PROVE  used'[l] = UsedTo(nml, l, t, t)
      <4>1. l \in Links /\ Dest[l] = c
        BY DEF Inputs
      <4>2. c \in Moving
        BY <4>1, <2>2 DEF Moving, Present, Links, Dest
      <4>3. /\ Rings(nml, c, Now) /\ t \in Int /\ Now \in Int /\ Now <= t /\ t < Now + nml.dt[c]
        BY <4>2, <2>2, CalledClock
      <4>4. PICK a \in {Now - 1, Now} : /\ SampleFirst(nml, l) => a = Now
                                        /\ used'[l] = UsedTo(nml, l, a, Now)
        BY <4>1, <2>2
      <4>5. a \in Int /\ a <= t /\ IF SampleFirst(nml, l) THEN Now <= a ELSE Now - 1 <= a
        BY <4>3, <4>4
      <4>6. UsedTo(nml, l, a, Now) = UsedTo(nml, l, t, t)
        <5>1. Rings(nml, Dest[l], Now) /\ t < Now + nml.dt[Dest[l]] /\ Now <= t
          BY <4>1, <4>3
        <5>2. t \in Int /\ Now \in Int
          BY <4>3
        <5> QED
          BY <1>1, <4>1, <4>5, <5>1, <5>2, UsedStable
      <4> QED
        BY <4>4, <4>6
    <3> QED
      BY <3>1, <3>2
  <2>3. CASE ~(files /\ t = clk[c])
    <3>1. t \in DOMAIN compFile[c] /\ compFile'[c][t] = compFile[c][t]
      BY <2>1, <2>3 DEF Filed
    <3> QED
      BY <3>1 DEF FilesExact
  <2> QED
    BY <2>2, <2>3
<1>4. \A t \in DOMAIN drvFile' : drvFile'[t] = [acc |-> [l \in SavedLinks |-> AccTo(nml, l, t, t)],
                                                made |-> [l \in Links |-> Made(nml, l, t)]]
  BY DEF FilesExact
<1> QED
  BY <1>1, <1>2, <1>3, <1>4 DEF FilesExact

LEMMA FilesSame ==
  ASSUME FilesExact, UNCHANGED <<nml, drvFile, compFile>>
  PROVE  FilesExact'
<1>1. SavedLinks' = SavedLinks
  BY DEF SavedLinks, Present, Prognostic
<1> QED
  BY <1>1 DEF FilesExact

(* A phase that sends but does not accumulate, or the other way round. *)
LEMMA PlainPhase ==
  ASSUME Fields
  PROVE  /\ made = Computed({})
         /\ \A S : Sent(acc, S) = Sent(Sampled(acc, {}), S) /\ Received(acc, S) = Received(Sampled(acc, {}), S)
         /\ \A L : Sampled(acc, L) = Sent(Sampled(acc, L), {})
<1>1. made = [l \in Links |-> made[l]]
  BY DEF Fields
<1>2. \A l \in Links : Sampled(acc, {})[l] = acc[l]
  BY DEF Sampled
<1> QED
  BY <1>1, <1>2 DEF Computed, Sent, Received, Sampled

-----------------------------------------------------------------------------
(* Each phase of a step, with the restart files it writes. *)

Exact == Called /\ KeepsUp(nml) /\ Fields /\ FilesExact

LEMMA OcnSetupExact == Exact /\ OcnSetup => Fields' /\ FilesExact'
<1> SUFFICES ASSUME Exact, OcnSetup PROVE Fields' /\ FilesExact'
  OBVIOUS
<1> DEFINE L == AccumulatesFor({"RASM_OPTION1"})
           S == SendsFor({"CESM1_MOD", "CESM1_MOD_TIGHT", "NUOPC_TIGHT", "RASM_OPTION1"})
<1>1. /\ phase = "ocnsetup" /\ phase' = "surface"
      /\ UNCHANGED <<clockVars, drvFile, compFile>>
      /\ made' = Computed(L) /\ acc' = Sent(Sampled(acc, L), S) /\ used' = Received(Sampled(acc, L), S)
  BY DEF OcnSetup, Goto, SameLoop
<1>2. nml \in Namelists /\ nml.seq \in CplSeqOptions
  BY NamelistAssumption DEF Exact, Called, InStep, Namelist
<1>3. ASSUME NEW l \in Links
      PROVE  /\ l \in L <=> phase = SamplePhase(nml, l) /\ SampleAt(nml, l, Now)
             /\ l \in S <=> phase = SendPhase(nml, l) /\ SendAt(nml, l, Now)
  <2>1. Active(nml, "x2o") => ("ocn" \in due <=> DueAt(nml, "ocn", Now))
    BY <1>1, Lookups DEF Exact, Stepping, Running, Links, Dest
  <2>2. CASE l = "x2o"
    BY <1>1, <1>2, <2>1, <2>2 DEF AccumulatesFor, SendsFor, ActiveOf, SamplePhase, SendPhase,
          SampleAt, SendAt, Dest, CplSeqOptions
  <2>3. CASE l # "x2o"
    BY <1>1, <2>3 DEF AccumulatesFor, SendsFor, ActiveOf, SamplePhase, SendPhase
  <2> QED
    BY <2>2, <2>3
<1> HIDE DEF L, S
<1>4. phase \in Running \ {"restart"} /\ phase' \in Stepping /\ Place(phase)' = Place(phase) + 1
  BY <1>1 DEF Running, Stepping, Place
<1>5. Fields'
  BY <1>1, <1>3, <1>4, PhaseKept DEF Exact
<1>6. FilesExact'
  BY <1>1, FilesSame DEF Exact, clockVars
<1> QED
  BY <1>5, <1>6

LEMMA SurfaceExact == Exact /\ Surface => Fields' /\ FilesExact'
<1> SUFFICES ASSUME Exact, Surface PROVE Fields' /\ FilesExact'
  OBVIOUS
<1> DEFINE S == IF Present("rof") /\ "rof" \in due THEN ActiveOf({"l2r", "a2r"}) ELSE {}
           C == {"iac", "ice", "lnd", "rof", "wav"} \union (IF Tight THEN {"ocn"} ELSE {})
<1>1. /\ phase = "surface" /\ phase' = "flux" /\ UNCHANGED <<clockVars, drvFile>>
      /\ made' = made /\ acc' = Sent(acc, S) /\ used' = Received(acc, S)
      /\ RunComponents(C)
  BY DEF Surface, Goto, SameLoop
<1>2. /\ made' = Computed({}) /\ acc' = Sent(Sampled(acc, {}), S)
      /\ used' = Received(Sampled(acc, {}), S)
  BY <1>1, PlainPhase DEF Exact
<1>3. ASSUME NEW l \in Links
      PROVE  /\ l \in {} <=> phase = SamplePhase(nml, l) /\ SampleAt(nml, l, Now)
             /\ l \in S <=> phase = SendPhase(nml, l) /\ SendAt(nml, l, Now)
  <2>1. phase # SamplePhase(nml, l)
    BY <1>1 DEF SamplePhase
  <2>2. phase \in Stepping
    BY <1>1 DEF Stepping, Running
  <2>3. CASE ~Active(nml, l)
    BY <2>1, <2>3 DEF ActiveOf, SendAt
  <2>4. CASE Active(nml, l) /\ l = "l2r"
    <3>1. "rof" \in nml.present /\ ("rof" \in due <=> DueAt(nml, "rof", Now))
      BY <2>2, <2>4, Lookups DEF Exact, Dest
    <3> QED
      BY <1>1, <2>1, <2>4, <3>1 DEF ActiveOf, SendPhase, SendAt, Dest, Present
  <2>5. CASE Active(nml, l) /\ l # "l2r"
    <3>1. l # "a2r"
      BY <2>2, <2>5, Lookups DEF Exact
    <3>2. l \notin S
      BY <2>5, <3>1 DEF ActiveOf
    <3>3. phase # SendPhase(nml, l)
      BY <1>1, <2>5, <3>1 DEF SendPhase, Links
    <3> QED
      BY <2>1, <3>2, <3>3
  <2>6. l \in S <=> phase = SendPhase(nml, l) /\ SendAt(nml, l, Now)
    <3> HIDE DEF S
    <3> QED
      BY <2>3, <2>4, <2>5
  <2> QED
    BY <2>1, <2>6
<1> HIDE DEF S
<1>4. phase \in Running \ {"restart"} /\ phase' \in Stepping /\ Place(phase)' = Place(phase) + 1
  BY <1>1 DEF Running, Stepping, Place
<1>5. /\ Fields'
      /\ \A l \in Links : \E a \in {Now - 1, Now} :
           /\ Place(SamplePhase(nml, l)) <= Place(phase) => a = Now
           /\ Place(SendPhase(nml, l)) <= Place(phase) => used'[l] = UsedTo(nml, l, a, Now)
  BY <1>1, <1>2, <1>3, <1>4, PhaseKept DEF Exact
<1>6. ASSUME NEW l \in Links, Dest[l] \in C
      PROVE  \E a \in {Now - 1, Now} : /\ SampleFirst(nml, l) => a = Now
                                       /\ used'[l] = UsedTo(nml, l, a, Now)
  <2>1. l \in {"l2r", "a2r"} \/ (l = "x2o" /\ nml.seq \in {"CESM1_MOD_TIGHT", "NUOPC_TIGHT"})
    BY <1>6 DEF Links, Dest, Tight
  <2>2. ~SampleFirst(nml, l)
    BY <2>1 DEF SampleFirst
  <2>3. Place(SendPhase(nml, l)) <= Place(phase)
    BY <1>1, <2>1 DEF Place, SendPhase
  <2> QED
    BY <1>5, <2>2, <2>3
<1>7. FilesExact'
  <2> HIDE DEF C
  <2> QED
    BY <1>1, <1>4, <1>6, FilesRun DEF Exact, Stepping
<1> QED
  BY <1>5, <1>7

LEMMA FluxExact == Exact /\ Flux => Fields' /\ FilesExact'
<1> SUFFICES ASSUME Exact, Flux PROVE Fields' /\ FilesExact'
  OBVIOUS
<1> DEFINE L == AccumulatesFor({"CESM1_MOD", "CESM1_MOD_TIGHT", "NUOPC", "NUOPC_TIGHT"})
<1>1. /\ phase = "flux" /\ phase' = "land"
      /\ UNCHANGED <<clockVars, drvFile, compFile>>
      /\ made' = Computed(L) /\ acc' = Sampled(acc, L) /\ used' = used
  BY DEF Flux, Goto, SameLoop
<1>2. nml \in Namelists /\ nml.seq \in CplSeqOptions
  BY NamelistAssumption DEF Exact, Called, InStep, Namelist
<1>3. \A l \in Links :
         /\ l \in L <=> phase = SamplePhase(nml, l) /\ SampleAt(nml, l, Now)
         /\ l \in {} <=> phase = SendPhase(nml, l) /\ SendAt(nml, l, Now)
  BY <1>1, <1>2 DEF AccumulatesFor, ActiveOf, SamplePhase, SendPhase, SampleAt, CplSeqOptions
<1> HIDE DEF L
<1>4. phase \in Running \ {"restart"} /\ phase' \in Stepping /\ Place(phase)' = Place(phase) + 1
  BY <1>1 DEF Running, Stepping, Place
<1>5. acc' = Sent(Sampled(acc, L), {})
  BY <1>1, PlainPhase DEF Exact
<1>6. used' = Received(Sampled(acc, L), {})
  <2>1. used = [l \in Links |-> used[l]]
    BY DEF Exact, Fields
  <2> QED
    BY <1>1, <2>1 DEF Received
<1>7. Fields'
  BY <1>1, <1>3, <1>4, <1>5, <1>6, PhaseKept DEF Exact
<1>8. FilesExact'
  BY <1>1, FilesSame DEF Exact, clockVars
<1> QED
  BY <1>7, <1>8

LEMMA LandExact == Exact /\ Land => Fields' /\ FilesExact'
<1> SUFFICES ASSUME Exact, Land PROVE Fields' /\ FilesExact'
  OBVIOUS
<1> DEFINE L == IF Present("lnd") /\ "lnd" \in due THEN ActiveOf({"l2r", "l2g"}) ELSE {}
           S == IF Present("glc") /\ {"glc", "glcavg"} \subseteq due THEN ActiveOf({"l2g"}) ELSE {}
<1>1. /\ phase = "land" /\ phase' = "late"
      /\ UNCHANGED <<clockVars, drvFile, compFile>>
      /\ made' = Computed(L) /\ acc' = Sent(Sampled(acc, L), S) /\ used' = Received(Sampled(acc, L), S)
  BY DEF Land, Goto, SameLoop
<1>2. phase \in Stepping
  BY <1>1 DEF Stepping, Running
<1>3. ASSUME NEW l \in Links
      PROVE  /\ l \in L <=> phase = SamplePhase(nml, l) /\ SampleAt(nml, l, Now)
             /\ l \in S <=> phase = SendPhase(nml, l) /\ SendAt(nml, l, Now)
  <2>1. CASE ~Active(nml, l)
    BY <2>1 DEF ActiveOf, SendAt, SampleAt
  <2>2. CASE Active(nml, l) /\ l \in {"l2r", "l2g"}
    <3>1. "lnd" \in nml.present /\ ("lnd" \in due <=> DueAt(nml, "lnd", Now))
      BY <1>2, <2>2, Lookups DEF Exact
    <3>2. l \in L <=> phase = SamplePhase(nml, l) /\ SampleAt(nml, l, Now)
      BY <1>1, <2>2, <3>1 DEF ActiveOf, SamplePhase, SampleAt, Present
    <3>3. CASE l = "l2g"
      <4>1. /\ "glc" \in nml.present /\ ("glc" \in due <=> DueAt(nml, "glc", Now))
            /\ "glcavg" \in due <=> DueAt(nml, "glcavg", Now)
        BY <1>2, <2>2, <3>3, Lookups DEF Exact, Dest
      <4> QED
        BY <1>1, <2>2, <3>2, <3>3, <4>1 DEF ActiveOf, SendPhase, SendAt, Dest, Present
    <3>4. CASE l = "l2r"
      BY <1>1, <3>2, <3>4 DEF ActiveOf, SendPhase
    <3> QED
      BY <2>2, <3>3, <3>4
  <2>3. CASE Active(nml, l) /\ l \notin {"l2r", "l2g"}
    BY <1>1, <2>3 DEF ActiveOf, SamplePhase, SendPhase, Links
  <2> HIDE DEF L, S
  <2> QED
    BY <2>1, <2>2, <2>3
<1> HIDE DEF L, S
<1>4. phase \in Running \ {"restart"} /\ phase' \in Stepping /\ Place(phase)' = Place(phase) + 1
  BY <1>1 DEF Running, Stepping, Place
<1>5. Fields'
  BY <1>1, <1>3, <1>4, PhaseKept DEF Exact
<1>6. FilesExact'
  BY <1>1, FilesSame DEF Exact, clockVars
<1> QED
  BY <1>5, <1>6

LEMMA LateExact == Exact /\ Late => Fields' /\ FilesExact'
<1> SUFFICES ASSUME Exact, Late PROVE Fields' /\ FilesExact'
  OBVIOUS
<1> DEFINE A == IF Present("atm") /\ "atm" \in due THEN ActiveOf({"a2r"}) ELSE {}
           L == AccumulatesFor({"RASM_OPTION2"}) \union A
           S == SendsFor({"RASM_OPTION2"})
           C == {"atm", "glc"} \union (IF Tight THEN {} ELSE {"ocn"})
<1>1. /\ phase = "late" /\ phase' = "restart" /\ UNCHANGED <<clockVars, drvFile>>
      /\ made' = Computed(L) /\ acc' = Sent(Sampled(acc, L), S) /\ used' = Received(Sampled(acc, L), S)
      /\ RunComponents(C)
  BY DEF Late, Goto, SameLoop
<1>2. nml \in Namelists /\ phase \in Stepping
  BY <1>1 DEF Exact, Called, InStep, Stepping, Running
<1>3. ASSUME NEW l \in Links
      PROVE  /\ l \in L <=> phase = SamplePhase(nml, l) /\ SampleAt(nml, l, Now)
             /\ l \in S <=> phase = SendPhase(nml, l) /\ SendAt(nml, l, Now)
  <2>1. CASE ~Active(nml, l)
    BY <2>1 DEF AccumulatesFor, SendsFor, ActiveOf, SendAt, SampleAt
  <2>2. CASE Active(nml, l) /\ l = "x2o"
    <3>1. "ocn" \in due <=> DueAt(nml, "ocn", Now)
      BY <1>2, <2>2, Lookups DEF Exact, Dest
    <3> QED
      BY <1>1, <2>2, <3>1 DEF AccumulatesFor, SendsFor, ActiveOf, SamplePhase, SendPhase,
            SampleAt, SendAt, Dest
  <2>3. CASE Active(nml, l) /\ l # "x2o"
    <3>1. l \in {"l2r", "l2g"}
      BY <1>2, <2>3, Lookups DEF Exact, Links
    <3>2. l \notin L /\ l \notin S
      BY <3>1 DEF AccumulatesFor, SendsFor, ActiveOf
    <3> QED
      BY <1>1, <3>1, <3>2 DEF SamplePhase, SendPhase
  <2> HIDE DEF L, S
  <2> QED
    BY <2>1, <2>2, <2>3
<1> HIDE DEF L, S
<1>4. phase \in Running \ {"restart"} /\ phase' \in Stepping /\ Place(phase)' = Place(phase) + 1
  BY <1>1 DEF Running, Stepping, Place
<1>5. /\ Fields'
      /\ \A l \in Links : \E a \in {Now - 1, Now} :
           /\ Place(SamplePhase(nml, l)) <= Place(phase) => a = Now
           /\ Place(SendPhase(nml, l)) <= Place(phase) => used'[l] = UsedTo(nml, l, a, Now)
  BY <1>1, <1>3, <1>4, PhaseKept DEF Exact
<1>6. ASSUME NEW l \in Links
      PROVE  \E a \in {Now - 1, Now} : /\ SampleFirst(nml, l) => a = Now
                                       /\ used'[l] = UsedTo(nml, l, a, Now)
  <2>1. Place(SamplePhase(nml, l)) <= Place(phase) /\ Place(SendPhase(nml, l)) <= Place(phase)
    BY <1>1 DEF Place, SamplePhase, SendPhase
  <2> QED
    BY <1>5, <2>1
<1>7. FilesExact'
  <2> HIDE DEF C
  <2> QED
    BY <1>1, <1>2, <1>6, FilesRun DEF Exact
<1> QED
  BY <1>5, <1>7

-----------------------------------------------------------------------------
(* The invariant and what follows from it. *)

LEMMA NothingMade ==
  ASSUME NEW nl, NEW l, NEW a, NEW b, Made(nl, l, a) = {}
  PROVE  UsedTo(nl, l, a, b) = [t \in Times |-> 0] /\ AccTo(nl, l, a, b) = NoField
<1>1. Waiting(nl, l, a, b) = {} /\ LastBatch(nl, l, a, b) = {}
  BY DEF Waiting, LastBatch
<1> QED
  BY <1>1, FS_EmptySet DEF UsedTo, AccTo, NoField

(* Outside the phases that sample and send, all is as of now. *)
LEMMA AtRest ==
  ASSUME phase \notin Running \ {"restart"}, NEW l
  PROVE  SampledTo(l) = Now /\ SentTo(l) = Now
<1>1. phase \in Stepping => Place(phase) \in {6, 7}
  BY DEF Stepping, Running, Place
<1>2. Place(SamplePhase(nml, l)) \in 1 .. 5 /\ Place(SendPhase(nml, l)) \in 1 .. 5
  BY DEF Place, SamplePhase, SendPhase
<1> QED
  BY <1>1, <1>2 DEF SampledTo, SentTo, Passed

(* A step that changes none of it. *)
LEMMA FieldsSame ==
  ASSUME Fields, UNCHANGED <<clockVars, made, used, acc>>,
         phase \notin Running \ {"restart"}, phase' \notin Running \ {"restart"},
         phase \notin {"crashed", "aborted"}
  PROVE  Fields'
<1>1. nml' = nml /\ Now' = Now
  BY DEF clockVars, Now
<1>2. ASSUME NEW l \in Links
      PROVE  LinkAt(l, Now, Now)' /\ SampledTo(l)' = Now' /\ SentTo(l)' = Now'
  <2>1. LinkAt(l, Now, Now)
    BY AtRest DEF Fields
  <2>2. LinkAt(l, Now, Now)'
    BY <1>1, <2>1 DEF LinkAt
  <2>3. SampledTo(l)' = Now' /\ SentTo(l)' = Now'
    <3>1. phase' \in Stepping => Place(phase)' \in {6, 7}
      BY DEF Stepping, Running, Place
    <3>2. Place(SamplePhase(nml, l))' \in 1 .. 5 /\ Place(SendPhase(nml, l))' \in 1 .. 5
      BY DEF Place, SamplePhase, SendPhase
    <3> QED
      BY <3>1, <3>2 DEF SampledTo, SentTo, Passed
  <2> QED
    BY <2>2, <2>3
<1>3. \A l \in Links : \E a, b \in {Now - 1, Now}' : LinkAt(l, a, b)'
  BY <1>2 DEF LinkAt
<1>4. \A l \in Links : LinkAt(l, SampledTo(l), SentTo(l))'
  BY <1>2 DEF LinkAt
<1>5. made' = [l \in Links |-> made'[l]] /\ used' = [l \in Links |-> used'[l]]
  BY DEF Fields
<1> QED
  BY <1>3, <1>4, <1>5 DEF Fields

LEMMA FieldsInitially ==
  ASSUME Init
  PROVE  Fields /\ FilesExact
<1>1. phase \in {"done", "advance"} /\ Now = 0
  BY DEF Init, Again, ClockInit, Now, Clocks
<1>2. ASSUME NEW l \in Links
      PROVE  LinkAt(l, SampledTo(l), SentTo(l))
  <2>1. SampledTo(l) = 0 /\ SentTo(l) = 0
    BY <1>1, AtRest DEF Running
  <2>2. Made(nml, l, 0) = {}
    BY TimesFacts DEF Made
  <2>3. UsedTo(nml, l, 0, 0) = [t \in Times |-> 0] /\ AccTo(nml, l, 0, 0) = NoField
    BY <2>2, NothingMade
  <2>4. made[l] = {} /\ used[l] = [t \in Times |-> 0] /\ acc[l] = NoField
    BY DEF Init
  <2> QED
    BY <2>1, <2>2, <2>3, <2>4 DEF LinkAt
<1>3. made = [l \in Links |-> made[l]] /\ used = [l \in Links |-> used[l]]
  <2>1. made = [l \in Links |-> {}] /\ used = [l \in Links |-> [t \in Times |-> 0]]
    BY DEF Init
  <2>2. \A l \in Links : made[l] = {} /\ used[l] = [t \in Times |-> 0]
    BY <2>1
  <2> QED
    BY <2>1, <2>2
<1>4. Fields
  BY <1>1, <1>2, <1>3 DEF Fields
<1>5. DOMAIN drvFile = {} /\ \A c \in Comps : DOMAIN compFile[c] = {}
  BY DEF Init
<1>6. FilesExact
  BY <1>5 DEF FilesExact
<1> QED
  BY <1>4, <1>6

(* The driver's restart file. *)
LEMMA WriteRestartExact == Exact /\ WriteRestart => Fields' /\ FilesExact'
<1> SUFFICES ASSUME Exact, WriteRestart PROVE Fields' /\ FilesExact'
  OBVIOUS
<1>1. /\ phase = "restart" /\ phase' = "end" /\ UNCHANGED <<clockVars, acc, made, used, compFile>>
      /\ drvFile' = IF clockAlarm["drv"]["restart"].ringing
                    THEN Filed(drvFile, Now, [acc |-> [l \in SavedLinks |-> acc[l]], made |-> made])
                    ELSE drvFile
  BY DEF WriteRestart, SameLoop, Goto
<1>2. Fields'
  BY <1>1, FieldsSame DEF Exact, Running
<1>3. nml' = nml /\ SavedLinks' = SavedLinks
  BY <1>1 DEF clockVars, SavedLinks, Present, Prognostic
<1>4. \A l \in Links : made[l] = Made(nml, l, Now) /\ acc[l] = AccTo(nml, l, Now, Now)
  BY <1>1, AtRest DEF Exact, Fields, LinkAt, Running
<1>5. made = [l \in Links |-> Made(nml, l, Now)]
  BY <1>4 DEF Exact, Fields
<1>6. [l \in SavedLinks |-> acc[l]] = [l \in SavedLinks |-> AccTo(nml, l, Now, Now)]
  BY <1>4 DEF SavedLinks
<1>7. ASSUME NEW t \in DOMAIN drvFile'
      PROVE  drvFile'[t] = [acc |-> [l \in SavedLinks |-> AccTo(nml, l, t, t)],
                            made |-> [l \in Links |-> Made(nml, l, t)]]
  <2>1. CASE t = Now /\ clockAlarm["drv"]["restart"].ringing
    <3>1. drvFile'[t] = [acc |-> [l \in SavedLinks |-> acc[l]], made |-> made]
      BY <1>1, <2>1 DEF Filed
    <3> QED
      BY <3>1, <1>5, <1>6, <2>1
  <2>2. CASE ~(t = Now /\ clockAlarm["drv"]["restart"].ringing)
    <3>1. t \in DOMAIN drvFile /\ drvFile'[t] = drvFile[t]
      BY <1>1, <2>2 DEF Filed
    <3> QED
      BY <3>1 DEF Exact, FilesExact
  <2> QED
    BY <2>1, <2>2
<1>8. FilesExact'
  BY <1>1, <1>3, <1>7 DEF Exact, FilesExact
<1> QED
  BY <1>2, <1>8

(* A new step begins; with alarms that do not fit it is the last. *)
LEMMA AdvanceExact == Exact /\ (Advance \/ AbortOnGlcAlarms) => Fields' /\ FilesExact'
<1> SUFFICES ASSUME Exact, Advance \/ AbortOnGlcAlarms PROVE Fields' /\ FilesExact'
  OBVIOUS
<1>1. /\ phase = "advance" /\ phase' \in {"ocnsetup", "aborted"} /\ ClockAdvance(force)
      /\ UNCHANGED <<acc, made, used, drvFile, compFile>>
  BY DEF Advance, AbortOnGlcAlarms, Goto
<1>2. nml' = nml /\ Now' = Now + 1 /\ Now \in Int
  BY <1>1, AdvanceCalls DEF Exact, Called, TimeBounds
<1>3. \A l \in Links : LinkAt(l, Now, Now)
  BY <1>1, AtRest DEF Exact, Fields, Running
<1>4. ASSUME NEW l \in Links
      PROVE  LinkAt(l, Now - 1, Now - 1)'
  <2>1. Now' - 1 = Now
    BY <1>2
  <2> QED
    BY <1>1, <1>2, <1>3, <2>1 DEF LinkAt
<1>5. ASSUME NEW l \in Links, phase' = "ocnsetup"
      PROVE  SampledTo(l)' = Now' - 1 /\ SentTo(l)' = Now' - 1
  <2>1. Place(phase)' = 1 /\ phase' \in Stepping
    BY <1>5 DEF Place, Stepping, Running
  <2>2. Place(SamplePhase(nml, l))' \in 1 .. 5 /\ Place(SendPhase(nml, l))' \in 1 .. 5
    BY DEF Place, SamplePhase, SendPhase
  <2> QED
    BY <2>1, <2>2 DEF SampledTo, SentTo, Passed
<1>6. \A l \in Links : \E a, b \in {Now - 1, Now}' : LinkAt(l, a, b)'
  BY <1>4 DEF LinkAt
<1>7. phase' = "ocnsetup" => \A l \in Links : LinkAt(l, SampledTo(l), SentTo(l))'
  BY <1>4, <1>5 DEF LinkAt
<1>8. made' = [l \in Links |-> made'[l]] /\ used' = [l \in Links |-> used'[l]]
  BY <1>1 DEF Exact, Fields
<1>9. Fields'
  BY <1>1, <1>6, <1>7, <1>8 DEF Fields
<1>10. FilesExact'
  BY <1>1, <1>2, FilesSame DEF Exact
<1> QED
  BY <1>9, <1>10

LEMMA CrashExact == Exact /\ Crash => Fields' /\ FilesExact'
<1> SUFFICES ASSUME Exact, Crash PROVE Fields' /\ FilesExact'
  OBVIOUS
<1>1. /\ phase \notin {"crashed", "aborted"} /\ phase' = "crashed"
      /\ UNCHANGED <<clockVars, acc, made, used, drvFile, compFile>>
  BY DEF Crash, Goto, Phases
<1>2. nml' = nml /\ Now' = Now
  BY <1>1 DEF clockVars, Now
<1>3. ASSUME NEW l \in Links
      PROVE  \E a, b \in {Now - 1, Now} : LinkAt(l, a, b)'
  <2>1. SampledTo(l) \in {Now - 1, Now} /\ SentTo(l) \in {Now - 1, Now}
    BY DEF SampledTo, SentTo
  <2>2. LinkAt(l, SampledTo(l), SentTo(l))
    BY <1>1 DEF Exact, Fields
  <2>3. PICK a \in {Now - 1, Now}, b \in {Now - 1, Now} : LinkAt(l, a, b)
    BY <2>1, <2>2
  <2>4. LinkAt(l, a, b)'
    BY <1>1, <1>2, <2>3 DEF LinkAt
  <2> QED
    BY <2>4
<1>4. made' = [l \in Links |-> made'[l]] /\ used' = [l \in Links |-> used'[l]]
  BY <1>1 DEF Exact, Fields
<1>5. Fields'
  BY <1>1, <1>2, <1>3, <1>4 DEF Fields
<1>6. FilesExact'
  BY <1>1, <1>2, FilesSame DEF Exact
<1> QED
  BY <1>5, <1>6

(* A continued run takes up every link as it was at the date of the files: *)
(* the accumulators that are not saved are those of links that do not      *)
(* exist.                                                                  *)
LEMMA ContinueExact == Exact /\ Continue => Fields' /\ FilesExact'
<1> SUFFICES ASSUME Exact, Continue PROVE Fields' /\ FilesExact'
  OBVIOUS
<1>1. PICK t \in DOMAIN drvFile :
        /\ Complete(t)
        /\ clk' = ClockInit(nml, t).clk
        /\ acc' = [l \in Links |-> IF l \in DOMAIN drvFile[t].acc THEN drvFile[t].acc[l] ELSE NoField]
        /\ made' = drvFile[t].made
        /\ used' = [l \in Links |-> IF Active(nml, l) THEN compFile[Dest[l]][t][l] ELSE used[l]]
  BY DEF Continue
<1>2. /\ UNCHANGED <<nml, drvFile, compFile>> /\ phase' = Again' /\ phase \in {"done", "crashed"}
  BY DEF Continue, Goto
<1>3. nml \in Namelists /\ t \in Int
  BY <1>1 DEF Exact, Called, InStep
<1>4. Now' = t
  BY <1>1, <1>3, ClockInitPaced DEF Now
<1>5. drvFile[t] = [acc |-> [l \in SavedLinks |-> AccTo(nml, l, t, t)],
                    made |-> [l \in Links |-> Made(nml, l, t)]]
  BY DEF Exact, FilesExact
<1>6. ASSUME NEW l \in Links
      PROVE  LinkAt(l, Now, Now)'
  <2>1. made'[l] = Made(nml, l, t)
    BY <1>1, <1>5
  <2>2. CASE Active(nml, l)
    <3>1. /\ l \in SavedLinks /\ Dest[l] \in nml.present /\ Dest[l] \in Comps
      <4>1. nml.prognostic \subseteq nml.present /\ nml.present \subseteq Comps
        BY <1>3, PresentFacts, NamelistFacts
      <4>2. l # "a2r"
        BY <2>2 DEF Exact, KeepsUp, Active
      <4>3. l \in {"x2o", "l2r", "l2g"}
        BY <4>2 DEF Links
      <4>4. CASE l = "x2o"
        BY <4>1, <4>4, <2>2 DEF Active, Dest, SavedLinks, Present, Links
      <4>5. CASE l = "l2r"
        BY <4>1, <4>5, <2>2 DEF Active, Dest, SavedLinks, Present, Prognostic, Links
      <4>6. CASE l = "l2g"
        BY <4>1, <4>6, <2>2 DEF Active, Dest, SavedLinks, Present, Prognostic, Links
      <4> QED
        BY <4>3, <4>4, <4>5, <4>6
    <3>2. acc'[l] = AccTo(nml, l, t, t)
      BY <1>1, <1>5, <3>1
    <3>3. t \in DOMAIN compFile[Dest[l]]
      BY <1>1, <3>1 DEF Complete
    <3>4. compFile[Dest[l]][t] = [k \in Inputs(Dest[l]) |-> UsedTo(nml, k, t, t)]
      BY <3>1, <3>3 DEF Exact, FilesExact
    <3>5. used'[l] = UsedTo(nml, l, t, t)
      BY <1>1, <2>2, <3>4 DEF Inputs
    <3> QED
      BY <1>2, <1>4, <2>1, <3>2, <3>5 DEF LinkAt
  <2>3. CASE ~Active(nml, l)
    <3>1. \A a : Made(nml, l, a) = {}
      BY <2>3 DEF Made, SampleAt
    <3>2. \A a, b : UsedTo(nml, l, a, b) = [u \in Times |-> 0] /\ AccTo(nml, l, a, b) = NoField
      BY <3>1, NothingMade
    <3>3. acc'[l] = NoField
      BY <1>1, <1>5, <3>2
    <3>4. used[l] = [u \in Times |-> 0]
      BY <3>2 DEF Exact, Fields, LinkAt
    <3>5. used'[l] = used[l]
      BY <1>1, <2>3
    <3> QED
      BY <1>2, <1>4, <2>1, <3>2, <3>3, <3>4, <3>5 DEF LinkAt
  <2> QED
    BY <2>2, <2>3
<1>7. phase' \notin Stepping /\ phase' \notin {"crashed", "aborted"}
  BY <1>2 DEF Again, Stepping, Running
<1>8. \A l \in Links : SampledTo(l)' = Now' /\ SentTo(l)' = Now'
  BY <1>7 DEF SampledTo, SentTo, Passed
<1>9. \A l \in Links : LinkAt(l, SampledTo(l), SentTo(l))'
  BY <1>6, <1>8 DEF LinkAt
<1>10. made' = [l \in Links |-> made'[l]] /\ used' = [l \in Links |-> used'[l]]
  <2>1. made' = [l \in Links |-> Made(nml, l, t)]
    BY <1>1, <1>5
  <2>2. \A l \in Links : made'[l] = Made(nml, l, t)
    BY <2>1
  <2> QED
    BY <1>1, <2>1, <2>2
<1>11. Fields'
  BY <1>7, <1>9, <1>10 DEF Fields
<1>12. FilesExact'
  BY <1>2, FilesSame DEF Exact
<1> QED
  BY <1>11, <1>12

LEMMA ExactInitially ==
  ASSUME InputsKeepUp
  PROVE  Init => Exact
<1> SUFFICES ASSUME Init PROVE Exact
  OBVIOUS
<1>1. KeepsUp(nml)
  BY DEF Init, InputsKeepUp
<1> QED
  BY <1>1, CalledInitially, FieldsInitially DEF Exact

LEMMA ExactKept ==
  Exact /\ [Next]_vars => Exact'
<1> SUFFICES ASSUME Exact, [Next]_vars PROVE Exact'
  OBVIOUS
<1>1. Called'
  BY CalledKept DEF Exact
<1>2. nml' = nml
  BY DEF Next, Step, Advance, AbortOnGlcAlarms, ClockAdvance, OcnSetup, Surface, Flux, Land, Late,
         WriteRestart, EndStep, Crash, Continue, SameLoop, clockVars, vars
<1>3. KeepsUp(nml)'
  BY <1>2 DEF Exact, KeepsUp
<1>4. CASE EndStep
  <2>1. /\ phase = "end" /\ phase' \in {"done", "advance"}
        /\ UNCHANGED <<clockVars, acc, made, used, drvFile, compFile>>
    BY <1>4 DEF EndStep, Goto, Again
  <2>2. Fields'
    BY <2>1, FieldsSame DEF Exact, Running
  <2>3. FilesExact'
    BY <1>2, <2>1, FilesSame DEF Exact
  <2> QED
    BY <1>1, <1>3, <2>2, <2>3 DEF Exact
<1>5. CASE UNCHANGED vars
  <2>1. UNCHANGED <<clockVars, phase, acc, made, used, drvFile, compFile>>
    BY <1>5 DEF vars, loopVars
  <2>2. Fields'
    BY <2>1 DEF Exact, Fields, LinkAt, SampledTo, SentTo, Passed, clockVars, Now
  <2>3. FilesExact'
    BY <1>2, <2>1, FilesSame DEF Exact
  <2> QED
    BY <1>1, <1>3, <2>2, <2>3 DEF Exact
<1>6. CASE Advance \/ AbortOnGlcAlarms
  BY <1>1, <1>3, <1>6, AdvanceExact DEF Exact
<1>7. CASE OcnSetup \/ Surface \/ Flux \/ Land \/ Late
  BY <1>1, <1>3, <1>7, OcnSetupExact, SurfaceExact, FluxExact, LandExact, LateExact DEF Exact
<1>8. CASE WriteRestart \/ Crash \/ Continue
  BY <1>1, <1>3, <1>8, WriteRestartExact, CrashExact, ContinueExact DEF Exact
<1> QED
  BY <1>4, <1>5, <1>6, <1>7, <1>8 DEF Next, Step

(* EachFieldOnce, for every namelist that accepts no heat from the rivers  *)
(* and computes input as often as it is sent, wherever runs crash and from *)
(* whichever restart they continue: xxx_accum and xxx_accum_avg give every *)
(* field to its component exactly once.                                    *)
THEOREM EachFieldReceivedOnce ==
  ASSUME InputsKeepUp
  PROVE  Spec => []EachFieldOnce
<1>1. Exact => EachFieldOnce
  <2> SUFFICES ASSUME Exact, NEW l \in Links
               PROVE  /\ acc[l].cnt = Cardinality(Pending(l))
                      /\ \A t \in Times : used[l][t] + (IF t \in Pending(l) THEN 1 ELSE 0)
                                            = (IF t \in made[l] THEN 1 ELSE 0)
    BY DEF EachFieldOnce
  <2>1. PICK a, b : LinkAt(l, a, b)
    BY DEF Exact, Fields
  <2> DEFINE W == Waiting(nml, l, a, b)
  <2>2. Cardinality(W) \in Nat /\ (Cardinality(W) = 0 <=> W = {})
    BY WaitingFinite
  <2>3. acc[l].cnt = Cardinality(W) /\ (W # {} => acc[l].sum = W)
    BY <2>1 DEF LinkAt, AccTo
  <2> HIDE DEF W
  <2>4. Pending(l) = W
    BY <2>2, <2>3 DEF Pending
  <2>5. \A t \in Times : used[l][t] + (IF t \in W THEN 1 ELSE 0) = (IF t \in made[l] THEN 1 ELSE 0)
    BY <2>1 DEF LinkAt, UsedTo, Waiting, W
  <2> QED
    BY <2>3, <2>4, <2>5
<1>2. Init => Exact
  BY ExactInitially
<1>3. Exact /\ [Next]_vars => Exact'
  BY ExactKept
<1> QED
  BY <1>1, <1>2, <1>3, PTL DEF Spec

(* Restart files are only added to. *)
LEMMA FilesStay ==
  ASSUME Exact, [Next]_vars
  PROVE  /\ DOMAIN drvFile \subseteq DOMAIN drvFile'
         /\ \A c \in Comps : DOMAIN compFile[c] \subseteq DOMAIN compFile'[c]
<1>1. ASSUME NEW C, RunComponents(C), drvFile' = drvFile
      PROVE  /\ DOMAIN drvFile \subseteq DOMAIN drvFile'
             /\ \A c \in Comps : DOMAIN compFile[c] \subseteq DOMAIN compFile'[c]
  BY <1>1 DEF RunComponents, Filed
<1>2. CASE UNCHANGED <<drvFile, compFile>>
  BY <1>2
<1>3. CASE WriteRestart
  BY <1>3 DEF WriteRestart, Filed
<1>4. CASE Surface
  BY <1>4, <1>1 DEF Surface
<1>5. CASE Late
  BY <1>5, <1>1 DEF Late
<1>6. Surface \/ Late \/ WriteRestart \/ UNCHANGED <<drvFile, compFile>>
  BY DEF Next, Step, Advance, AbortOnGlcAlarms, OcnSetup, Flux, Land, EndStep, Crash, Continue, vars
<1> QED
  BY <1>2, <1>3, <1>4, <1>5, <1>6

(* ExactRestart under the same hypothesis: from whichever restart a run    *)
(* continues, seq_rest_write and the components write again what they      *)
(* wrote before for the same date.                                         *)
THEOREM RestartsExact ==
  ASSUME InputsKeepUp
  PROVE  Spec => ExactRestart
<1> DEFINE A == /\ \A t \in DOMAIN drvFile : t \in DOMAIN drvFile' /\ drvFile'[t] = drvFile[t]
                /\ \A c \in Comps : \A t \in DOMAIN compFile[c] :
                       t \in DOMAIN compFile[c]' /\ compFile'[c][t] = compFile[c][t]
<1>1. Init => Exact
  BY ExactInitially
<1>2. Exact /\ [Next]_vars => Exact'
  BY ExactKept
<1>3. Exact /\ Exact' /\ [Next]_vars => [A]_vars
  <2> SUFFICES ASSUME Exact, Exact', [Next]_vars PROVE A
    OBVIOUS
  <2>1. /\ DOMAIN drvFile \subseteq DOMAIN drvFile'
        /\ \A c \in Comps : DOMAIN compFile[c] \subseteq DOMAIN compFile'[c]
    BY FilesStay
  <2>2. nml' = nml
    BY DEF Next, Step, Advance, AbortOnGlcAlarms, ClockAdvance, OcnSetup, Surface, Flux, Land, Late,
           WriteRestart, EndStep, Crash, Continue, SameLoop, clockVars, vars
  <2>3. SavedLinks' = SavedLinks
    BY <2>2 DEF SavedLinks, Present, Prognostic
  <2>4. FilesExact /\ FilesExact'
    BY DEF Exact
  <2>5. ASSUME NEW t \in DOMAIN drvFile
        PROVE  t \in DOMAIN drvFile' /\ drvFile'[t] = drvFile[t]
    BY <2>1, <2>2, <2>3, <2>4 DEF FilesExact
  <2>6. ASSUME NEW c \in Comps, NEW t \in DOMAIN compFile[c]
        PROVE  t \in DOMAIN compFile[c]' /\ compFile'[c][t] = compFile[c][t]
    <3>1. t \in DOMAIN compFile'[c]
      BY <2>1
    <3>2. compFile[c][t] = [l \in Inputs(c) |-> UsedTo(nml, l, t, t)]
      BY <2>4 DEF FilesExact
    <3>3. compFile'[c][t] = [l \in Inputs(c) |-> UsedTo(nml', l, t, t)]
      BY <2>4, <3>1 DEF FilesExact
    <3> QED
      BY <2>2, <3>1, <3>2, <3>3
  <2> QED
    BY <2>5, <2>6
<1> QED
  BY <1>1, <1>2, <1>3, PTL DEF Spec, ExactRestart

-----------------------------------------------------------------------------
(* Restart files come in complete sets. *)

(* The intervals of the stop and restart alarms. *)
Length(nl, k) ==
  IF k = "stop" THEN IF nl.stop_n = 0 THEN Never ELSE nl.stop_n
  ELSE IF nl.restart_n = 0 THEN Never ELSE nl.restart_n

Periodics == {"stop", "restart"}

(* The alarms of every clock have the phase of the driver's.  Those of the *)
(* driver follow its time closely, those of a component may lag behind.    *)
AlarmsInStep ==
  /\ \A c \in Moving \union {"drv"} : clockAlarm[c] \in [ClockAlarms -> Alarm]
  /\ \A k \in Periodics : Paced(clockAlarm["drv"][k], Length(nml, k), Now)
  /\ \A c \in Moving : \A k \in Periodics :
        /\ clockAlarm[c][k].interval = Length(nml, k)
        /\ clockAlarm[c][k].prev <= clk[c]
        /\ Aligned(Length(nml, k), clockAlarm[c][k].prev - clockAlarm["drv"][k].prev)
  /\ \A c \in Moving : clockAlarm[c]["datestop"].ring = StopDate.ring
  /\ StopDate.interval > 0 => StopDate.ring <= StopDate.prev + StopDate.interval
  /\ StopDate.ringing => StopDate.ring <= Now

(* The dates for which the driver will write a restart file, as its alarms *)
(* are now.                                                                *)
WillWrite(t) ==
  \/ Aligned(Length(nml, "restart"), t - Restart.prev)
  \/ endRestart /\ (Aligned(Length(nml, "stop"), t - Stop.prev) \/ StopDate.ring <= t)

LEMMA LengthFacts ==
  ASSUME NEW nl \in Namelists, NEW k
  PROVE  Length(nl, k) \in Nat \ {0}
<1>1. nl.stop_n \in Nat /\ nl.restart_n \in Nat
  BY NamelistAssumption DEF Namelist
<1> QED
  BY <1>1, CalendarAssumption DEF Length

(* A clock that moves by a whole step rings an alarm that lags behind at   *)
(* every date of its interval.                                             *)
LEMMA TickLag ==
  ASSUME NEW n \in Nat \ {0}, NEW step \in Int, NEW now \in Int,
         NEW a \in Alarm, a.interval = n, a.prev < now
  PROVE  LET b == Tick(SetOff(a), now, step)
         IN  /\ b \in Alarm /\ b.interval = n
             /\ b.prev \in {a.prev, a.prev + n} /\ b.prev <= now
             /\ Aligned(n, now - a.prev) => b.ringing = TRUE
<1> DEFINE again == a.prev + n <= now
           r == (a.ring <= now /\ now < a.ring + step) \/ again
           p == IF again THEN a.prev + n ELSE a.prev
           b == Tick(SetOff(a), now, step)
<1>1. a.ring \in Int /\ a.interval \in Nat /\ a.prev \in Int /\ a.ringing \in BOOLEAN
  BY DEF Alarm
<1>2. b = [SetOff(a) EXCEPT !.ringing = r, !.prev = p]
  <2> DEFINE o == SetOff(a)
  <2>1. o.ringing = FALSE /\ o.interval = n /\ o.prev = a.prev /\ o.ring = a.ring
    BY <1>1 DEF SetOff, Alarm
  <2> HIDE DEF o
  <2>2. Tick(o, now, step) =
          [o EXCEPT !.ringing = o.ringing \/ (o.ring <= now /\ now < o.ring + step)
                                          \/ o.prev + o.interval <= now,
                    !.prev = IF o.prev + o.interval <= now THEN o.prev + o.interval ELSE o.prev]
    BY <2>1 DEF Tick
  <2>3. Tick(o, now, step) = [o EXCEPT !.ringing = r, !.prev = p]
    BY <2>1, <2>2
  <2> QED
    BY <2>3 DEF o
<1>3. r \in BOOLEAN /\ p \in Int /\ p <= now /\ p \in {a.prev, a.prev + n}
  BY <1>1
<1>4. ASSUME Aligned(n, now - a.prev)
      PROVE  again
  <2>1. PICK k \in Int : now - a.prev = n * k
    BY <1>4 DEF Aligned
  <2>2. now - a.prev \in Int /\ 0 < now - a.prev
    BY <1>1
  <2>3. ~(now - a.prev < n)
    <3> SUFFICES ASSUME now - a.prev < n PROVE FALSE
      OBVIOUS
    <3>1. k = 0
      BY <2>1, <2>2, NoMultipleBelow
    <3>2. n * k = 0
      BY <3>1
    <3> QED
      BY <2>1, <2>2, <3>2
  <2> QED
    BY <1>1, <2>2, <2>3
<1>5. Aligned(n, now - a.prev) => r = TRUE
  BY <1>4
<1> HIDE DEF r, p
<1>6. b \in Alarm /\ b.interval = n /\ b.prev = p /\ b.ringing = r
  <2>1. SetOff(a) \in Alarm /\ SetOff(a).interval = n
    BY DEF SetOff, Alarm
  <2> HIDE DEF b
  <2> QED
    BY <1>2, <1>3, <2>1 DEF Alarm
<1> HIDE DEF b
<1>7. /\ b \in Alarm /\ b.interval = n
      /\ b.prev \in {a.prev, a.prev + n} /\ b.prev <= now
      /\ Aligned(n, now - a.prev) => b.ringing = TRUE
  BY <1>3, <1>5, <1>6
<1> QED
  BY <1>7 DEF b

(* Ticking changes neither the ring time nor the type of an alarm. *)
LEMMA TickType ==
  ASSUME NEW a \in Alarm, NEW now \in Int, NEW step \in Int
  PROVE  /\ Tick(a, now, step) \in Alarm
         /\ Tick(a, now, step).ring = a.ring
         /\ Tick(a, now, step).interval = a.interval
<1>1. /\ a.ring \in Int /\ a.interval \in Nat /\ a.prev \in Int /\ a.ringing \in BOOLEAN
      /\ a.prev + a.interval \in Int
  BY DEF Alarm
<1> DEFINE again == a.prev + a.interval <= now
           first == a.ring <= now /\ now < a.ring + step
           r == a.ringing \/ first \/ again
           p == IF again THEN a.prev + a.interval ELSE a.prev
           q == a.ringing \/ a.ring <= now
<1>2. r \in BOOLEAN /\ p \in Int /\ q \in BOOLEAN
  BY <1>1
<1>3. Tick(a, now, step) = IF a.interval > 0 THEN [a EXCEPT !.ringing = r, !.prev = p]
                           ELSE [a EXCEPT !.ringing = q]
  BY DEF Tick
<1> HIDE DEF r, p, q
<1> QED
  BY <1>2, <1>3 DEF Alarm

(* Stopping by date is on from its date only. *)
LEMMA TickStopDate ==
  ASSUME NEW a \in Alarm, NEW now \in Int,
         a.interval > 0 => a.ring <= a.prev + a.interval
  PROVE  LET b == Tick(SetOff(a), now, 1)
         IN  /\ b.interval > 0 => b.ring <= b.prev + b.interval
             /\ b.ringing => b.ring <= now
<1> DEFINE again == a.prev + a.interval <= now
           first == a.ring <= now /\ now < a.ring + 1
           r == first \/ again
           p == IF again THEN a.prev + a.interval ELSE a.prev
           q == a.ring <= now
           b == Tick(SetOff(a), now, 1)
<1>1. /\ a.ring \in Int /\ a.interval \in Nat /\ a.prev \in Int /\ a.ringing \in BOOLEAN
  BY DEF Alarm
<1>2. b = IF a.interval > 0 THEN [SetOff(a) EXCEPT !.ringing = r, !.prev = p]
          ELSE [SetOff(a) EXCEPT !.ringing = q]
  BY <1>1 DEF Tick, SetOff, Alarm
<1>3. SetOff(a) \in Alarm /\ SetOff(a).interval = a.interval /\ SetOff(a).ring = a.ring
  BY DEF SetOff, Alarm
<1>4. CASE a.interval > 0
  <2>1. a.ring <= p + a.interval /\ (r => a.ring <= now)
    BY <1>1, <1>4
  <2>2. b.ringing = r /\ b.prev = p /\ b.interval = a.interval /\ b.ring = a.ring
    <3> HIDE DEF r, p, b
    <3> QED
      BY <1>2, <1>3, <1>4 DEF Alarm
  <2> HIDE DEF r, p, b
  <2>3. (b.interval > 0 => b.ring <= b.prev + b.interval) /\ (b.ringing => b.ring <= now)
    BY <2>1, <2>2
  <2> QED
    BY <2>3 DEF b
<1>5. CASE ~(a.interval > 0)
  <2>1. b.ringing = q /\ b.interval = a.interval /\ b.ring = a.ring
    <3> HIDE DEF q, b
    <3> QED
      BY <1>2, <1>3, <1>5 DEF Alarm
  <2> HIDE DEF b
  <2>2. (b.interval > 0 => b.ring <= b.prev + b.interval) /\ (b.ringing => b.ring <= now)
    BY <1>5, <2>1
  <2> QED
    BY <2>2 DEF b
<1> QED
  BY <1>4, <1>5

(* clockAdvance on the alarms of one clock. *)
LEMMA AdvanceAlarms ==
  ASSUME NEW f \in Int, ClockAdvance(f), NEW c \in Clocks,
         clockAlarm[c] \in [ClockAlarms -> Alarm], clk'[c] \in Int, StepOf(c) \in Int,
         NEW moves \in BOOLEAN, moves = ClockMoves(c, runAlarm')
  PROVE  LET a == clockAlarm[c]
             b == clockAlarm'[c]
             date == IF f >= 0 THEN AlarmSet(a["datestop"], f) ELSE SetOff(a["datestop"])
             r == IF moves THEN Tick(SetOff(a["restart"]), clk'[c], StepOf(c)) ELSE SetOff(a["restart"])
         IN  /\ b \in [ClockAlarms -> Alarm]
             /\ b["stop"] = IF moves THEN Tick(SetOff(a["stop"]), clk'[c], StepOf(c))
                            ELSE SetOff(a["stop"])
             /\ b["datestop"] = IF moves THEN Tick(date, clk'[c], StepOf(c)) ELSE date
             /\ b["restart"] =
                  IF endRestart' /\ (b["stop"].ringing \/ DateStopOn(b["datestop"], clk'[c]))
                  THEN SetOn(r) ELSE r
<1> DEFINE a == clockAlarm[c]
           b == clockAlarm'[c]
           date == IF f >= 0 THEN AlarmSet(a["datestop"], f) ELSE SetOff(a["datestop"])
           quiet == Quiet(c, f)
           after == IF moves THEN [k \in ClockAlarms |-> Tick(quiet[k], clk'[c], StepOf(c))]
                    ELSE quiet
           ends == endRestart' /\ Ends(after, clk'[c])
<1>1. a["stop"] \in Alarm /\ a["restart"] \in Alarm /\ a["datestop"] \in Alarm
  BY DEF ClockAlarms
<1>2. SetOff(a["stop"]) \in Alarm /\ SetOff(a["restart"]) \in Alarm /\ date \in Alarm
  BY <1>1, SetAlarm
<1>3. /\ quiet["stop"] = SetOff(a["stop"]) /\ quiet["restart"] = SetOff(a["restart"])
      /\ quiet["datestop"] = date /\ quiet = [k \in ClockAlarms |-> quiet[k]]
  BY DEF Quiet, ClockAlarms
<1>4. b = IF ends THEN [after EXCEPT !["restart"] = SetOn(@)] ELSE after
  BY DEF ClockAdvance
<1> HIDE DEF quiet, date
<1>5. /\ after["stop"] = IF moves THEN Tick(SetOff(a["stop"]), clk'[c], StepOf(c)) ELSE SetOff(a["stop"])
      /\ after["datestop"] = IF moves THEN Tick(date, clk'[c], StepOf(c)) ELSE date
      /\ after["restart"] = IF moves THEN Tick(SetOff(a["restart"]), clk'[c], StepOf(c))
                            ELSE SetOff(a["restart"])
      /\ after = [k \in ClockAlarms |-> after[k]]
  BY <1>3 DEF ClockAlarms
<1> HIDE DEF after
<1>6. after["stop"] \in Alarm /\ after["datestop"] \in Alarm /\ after["restart"] \in Alarm
  <2>1. /\ Tick(SetOff(a["stop"]), clk'[c], StepOf(c)) \in Alarm
        /\ Tick(SetOff(a["restart"]), clk'[c], StepOf(c)) \in Alarm
    BY <1>2, TickType
  <2>2. Tick(date, clk'[c], StepOf(c)) \in Alarm
    BY <1>2, TickType
  <2> QED
    BY <1>2, <1>5, <2>1, <2>2, Zenon
<1>7. SetOn(after["restart"]) \in Alarm
  BY <1>6, SetAlarm
<1>8. /\ b["stop"] = after["stop"] /\ b["datestop"] = after["datestop"]
      /\ b["restart"] = (IF ends THEN SetOn(after["restart"]) ELSE after["restart"])
      /\ b = [k \in ClockAlarms |-> b[k]]
  <2> HIDE DEF ends
  <2> QED
    BY <1>4, <1>5 DEF ClockAlarms
<1>9. ends <=> endRestart' /\ (b["stop"].ringing \/ DateStopOn(b["datestop"], clk'[c]))
  BY <1>8 DEF Ends
<1> HIDE DEF ends, b
<1>10. b \in [ClockAlarms -> Alarm]
  BY <1>6, <1>7, <1>8 DEF ClockAlarms
<1> QED
  BY <1>5, <1>8, <1>9, <1>10 DEF b, date

LEMMA SwitchFacts ==
  ASSUME NEW a \in Alarm
  PROVE  /\ SetOff(a) \in Alarm /\ SetOff(a).interval = a.interval /\ SetOff(a).prev = a.prev
         /\ SetOff(a).ring = a.ring /\ SetOff(a).ringing = FALSE
         /\ SetOn(a) \in Alarm /\ SetOn(a).interval = a.interval /\ SetOn(a).prev = a.prev
         /\ SetOn(a).ring = a.ring /\ SetOn(a).ringing = TRUE
  BY DEF SetOff, SetOn, Alarm

LEMMA ForcedFacts ==
  ASSUME NEW a \in Alarm, NEW d \in Int, NEW now \in Int, NEW step \in Int
  PROVE  LET b == AlarmSet(a, d)
         IN  /\ b \in Alarm /\ b.ring = d /\ b.interval = 0
             /\ Tick(b, now, step) \in Alarm /\ Tick(b, now, step).ring = d
             /\ Tick(b, now, step).interval = 0
             /\ Tick(b, now, step).ringing => d <= now
<1> DEFINE b == AlarmSet(a, d)
<1>1. b \in Alarm /\ b.ring = d /\ b.interval = 0 /\ b.ringing = FALSE
  BY DEF AlarmSet, Alarm
<1> HIDE DEF b
<1>2. Tick(b, now, step) = [b EXCEPT !.ringing = b.ringing \/ b.ring <= now]
  BY <1>1 DEF Tick
<1>3. Tick(b, now, step).ringing => d <= now
  BY <1>1, <1>2 DEF Alarm
<1> QED
  BY <1>1, <1>3, TickType DEF b

(* Dates of an alarm move by whole intervals. *)
LEMMA AlignedMove ==
  ASSUME NEW n \in Nat \ {0}, NEW x \in Int, NEW y \in Int, NEW z \in Int, Aligned(n, y - z)
  PROVE  Aligned(n, x - y) <=> Aligned(n, x - z)
<1>1. x - y \in Int /\ x - z \in Int /\ y - z \in Int
      /\ (x - y) + (y - z) = x - z /\ (x - z) - (y - z) = x - y
  OBVIOUS
<1>2. Aligned(n, x - y) => Aligned(n, x - z)
  <2> SUFFICES ASSUME Aligned(n, x - y) PROVE Aligned(n, x - z)
    OBVIOUS
  <2>1. Aligned(n, (x - y) + (y - z))
    BY <1>1, AlignedSum
  <2> QED
    BY <1>1, <2>1
<1>3. Aligned(n, x - z) => Aligned(n, x - y)
  <2> SUFFICES ASSUME Aligned(n, x - z) PROVE Aligned(n, x - y)
    OBVIOUS
  <2>1. Aligned(n, (x - z) - (y - z))
    BY <1>1, AlignedSum
  <2> QED
    BY <1>1, <2>1
<1> QED
  BY <1>2, <1>3

(* clockAdvance keeps the phases, rings the driver's restart alarm only    *)
(* when that is to be expected, and rings the one of every component whose *)
(* clock moves to a date for which the driver will write a file.           *)
LEMMA DriverAdvance ==
  ASSUME Called, AlarmsInStep, force \in Int, ClockAdvance(force)
  PROVE  /\ clockAlarm'["drv"] \in [ClockAlarms -> Alarm]
         /\ \A k \in Periodics :
              /\ Paced(clockAlarm'["drv"][k], Length(nml, k), Now')
              /\ clockAlarm'["drv"][k].prev \in Int /\ clockAlarm["drv"][k].prev \in Int
              /\ Aligned(Length(nml, k), clockAlarm'["drv"][k].prev - clockAlarm["drv"][k].prev)
         /\ StopDate'.ring = IF force >= 0 THEN force ELSE StopDate.ring
         /\ StopDate'.interval > 0 => StopDate'.ring <= StopDate'.prev + StopDate'.interval
         /\ StopDate'.ringing => StopDate'.ring <= Now'
         /\ Restart'.ringing => WillWrite(Now)'
<1> DEFINE a == clockAlarm["drv"]
           b == clockAlarm'["drv"]
<1>1. /\ nml \in Namelists /\ nml' = nml /\ Now' = Now + 1 /\ Now \in Int
      /\ "drv" \in Clocks /\ clk'["drv"] = Now + 1 /\ StepOf("drv") = 1
  BY AdvanceCalls DEF Called, InStep, TimeBounds, Clocks, Now, StepOf
<1>2. ClockMoves("drv", runAlarm') = TRUE
  BY DEF ClockMoves
<1>3. a \in [ClockAlarms -> Alarm]
  BY DEF AlarmsInStep
<1> DEFINE date == IF force >= 0 THEN AlarmSet(a["datestop"], force) ELSE SetOff(a["datestop"])
           r == Tick(SetOff(a["restart"]), Now + 1, 1)
<1>4. /\ b \in [ClockAlarms -> Alarm]
      /\ b["stop"] = Tick(SetOff(a["stop"]), Now + 1, 1)
      /\ b["datestop"] = Tick(date, Now + 1, 1)
      /\ b["restart"] = IF endRestart' /\ (b["stop"].ringing \/ DateStopOn(b["datestop"], Now + 1))
                        THEN SetOn(r) ELSE r
  <2> DEFINE moves == ClockMoves("drv", runAlarm')
             now == clk'["drv"]
             step == StepOf("drv")
             q == IF moves THEN Tick(SetOff(a["restart"]), now, step) ELSE SetOff(a["restart"])
  <2>1. now \in Int /\ step \in Int /\ moves \in BOOLEAN /\ clockAlarm["drv"] \in [ClockAlarms -> Alarm]
    <3>1. moves \in BOOLEAN
      BY DEF ClockMoves
    <3>2. now \in Int /\ step \in Int
      BY <1>1
    <3> HIDE DEF moves, now, step
    <3> QED
      BY <1>3, <3>1, <3>2
  <2>2. /\ b \in [ClockAlarms -> Alarm]
        /\ b["stop"] = IF moves THEN Tick(SetOff(a["stop"]), now, step) ELSE SetOff(a["stop"])
        /\ b["datestop"] = IF moves THEN Tick(date, now, step) ELSE date
        /\ b["restart"] = IF endRestart' /\ (b["stop"].ringing \/ DateStopOn(b["datestop"], now))
                          THEN SetOn(q) ELSE q
    BY <1>1, <2>1, AdvanceAlarms
  <2>3. moves = TRUE /\ now = Now + 1 /\ step = 1
    BY <1>1, <1>2
  <2> HIDE DEF moves, now, step, a, b, date
  <2> QED
    BY <2>2, <2>3
<1>5. a["stop"] \in Alarm /\ a["restart"] \in Alarm /\ a["datestop"] \in Alarm
  BY <1>3 DEF ClockAlarms
<1>6. ASSUME NEW k \in Periodics
      PROVE  LET t == Tick(SetOff(a[k]), Now + 1, 1)
                 n == Length(nml, k)
             IN  /\ Paced(t, n, Now + 1) /\ a[k].prev \in Int /\ t.prev \in Int /\ t \in Alarm
                 /\ Aligned(n, t.prev - a[k].prev)
                 /\ t.ringing => t.prev = Now + 1
  <2> DEFINE t == Tick(SetOff(a[k]), Now + 1, 1)
             n == Length(nml, k)
  <2>1. n \in Nat \ {0} /\ Paced(a[k], n, Now)
    BY <1>1, LengthFacts DEF AlarmsInStep
  <2>2. a[k].prev \in Int
    BY <2>1 DEF Paced, Alarm
  <2>3. Aligned(n, a[k].prev - a[k].prev)
    <3>1. a[k].prev - a[k].prev = 0
      BY <2>2
    <3> QED
      BY <2>1, <3>1, AlignedZero
  <2> HIDE DEF n
  <2>4. Paced(t, n, Now + 1) /\ Aligned(n, t.prev - a[k].prev) /\ (t.ringing => t.prev = Now + 1)
    BY <1>1, <2>1, <2>2, <2>3, TickRings
  <2>5. t \in Alarm /\ t.prev \in Int
    BY <2>4 DEF Paced, Alarm
  <2> QED
    BY <2>2, <2>4, <2>5 DEF n
<1>7. /\ b["datestop"].ring = (IF force >= 0 THEN force ELSE a["datestop"].ring)
      /\ b["datestop"].interval > 0 => b["datestop"].ring <= b["datestop"].prev + b["datestop"].interval
      /\ b["datestop"].ringing => b["datestop"].ring <= Now + 1
      /\ b["datestop"].ring \in Int
  <2>1. CASE force >= 0
    <3>1. b["datestop"] = Tick(AlarmSet(a["datestop"], force), Now + 1, 1)
      BY <1>4, <2>1
    <3> HIDE DEF a, b
    <3> QED
      BY <1>1, <1>5, <2>1, <3>1, ForcedFacts
  <2>2. CASE ~(force >= 0)
    <3>1. b["datestop"] = Tick(SetOff(a["datestop"]), Now + 1, 1)
      BY <1>4, <2>2
    <3>2. a["datestop"].interval > 0 =>
            a["datestop"].ring <= a["datestop"].prev + a["datestop"].interval
      BY DEF AlarmsInStep, StopDate
    <3> HIDE DEF a, b
    <3>3. b["datestop"].ring = a["datestop"].ring /\ a["datestop"].ring \in Int
      <4>1. SetOff(a["datestop"]) \in Alarm /\ SetOff(a["datestop"]).ring = a["datestop"].ring
        BY <1>5, SwitchFacts
      <4>2. a["datestop"].ring \in Int
        BY <1>5 DEF Alarm
      <4> QED
        <5>1. Now + 1 \in Int
          BY <1>1
        <5>2. Tick(SetOff(a["datestop"]), Now + 1, 1).ring = a["datestop"].ring
          BY <4>1, <5>1, TickType
        <5> QED
          BY <3>1, <4>2, <5>2
    <3>4. LET d == Tick(SetOff(a["datestop"]), Now + 1, 1)
          IN  (d.interval > 0 => d.ring <= d.prev + d.interval) /\ (d.ringing => d.ring <= Now + 1)
      BY <1>1, <1>5, <3>2, TickStopDate
    <3> QED
      BY <2>2, <3>1, <3>3, <3>4
  <2> QED
    BY <2>1, <2>2
<1> HIDE DEF a, b, date
<1>8. /\ b["restart"].prev = r.prev /\ b["restart"].interval = r.interval
      /\ b["restart"].ring = r.ring /\ b["restart"] \in Alarm
      /\ b["restart"].ringing =>
           r.ringing \/ (endRestart' /\ (b["stop"].ringing \/ DateStopOn(b["datestop"], Now + 1)))
  <2>1. r \in Alarm
    BY <1>6 DEF Periodics
  <2> HIDE DEF r
  <2> QED
    BY <1>4, <2>1, SwitchFacts
<1>9. \A k \in Periodics :
         /\ Paced(b[k], Length(nml, k), Now + 1)
         /\ b[k].prev \in Int /\ a[k].prev \in Int
         /\ Aligned(Length(nml, k), b[k].prev - a[k].prev)
  <2>1. /\ Paced(b["stop"], Length(nml, "stop"), Now + 1)
        /\ b["stop"].prev \in Int /\ a["stop"].prev \in Int
        /\ Aligned(Length(nml, "stop"), b["stop"].prev - a["stop"].prev)
    BY <1>4, <1>6 DEF Periodics
  <2>2. /\ Paced(r, Length(nml, "restart"), Now + 1) /\ r.prev \in Int /\ a["restart"].prev \in Int
        /\ Aligned(Length(nml, "restart"), r.prev - a["restart"].prev)
    BY <1>6 DEF Periodics
  <2> HIDE DEF r
  <2>3. Paced(b["restart"], Length(nml, "restart"), Now + 1)
    BY <1>8, <2>2 DEF Paced
  <2>4. b["restart"].prev \in Int
        /\ Aligned(Length(nml, "restart"), b["restart"].prev - a["restart"].prev)
    BY <1>8, <2>2
  <2> QED
    BY <2>1, <2>2, <2>3, <2>4 DEF Periodics
<1>10. ASSUME b["restart"].ringing
       PROVE  WillWrite(Now)'
  <2>1. Aligned(Length(nml, "restart"), 0) /\ Aligned(Length(nml, "stop"), 0)
    BY <1>1, LengthFacts, AlignedZero
  <2>2. CASE r.ringing
    <3>1. r.prev = Now + 1
      BY <1>6, <2>2 DEF Periodics
    <3>2. Now' - b["restart"].prev = 0
      BY <1>1, <1>8, <3>1
    <3>3. Restart' = b["restart"]
      BY DEF Restart, b
    <3> QED
      BY <1>1, <2>1, <3>2, <3>3 DEF WillWrite
  <2>3. CASE endRestart' /\ b["stop"].ringing
    <3>1. b["stop"].prev = Now + 1
      BY <1>4, <1>6, <2>3 DEF Periodics
    <3>2. Now' - b["stop"].prev = 0
      BY <1>1, <3>1
    <3>3. Stop' = b["stop"]
      BY DEF Stop, b
    <3> QED
      BY <1>1, <2>1, <2>3, <3>2, <3>3 DEF WillWrite
  <2>4. CASE endRestart' /\ DateStopOn(b["datestop"], Now + 1)
    <3>1. b["datestop"].ring <= Now + 1
      BY <1>1, <1>7, <2>4 DEF DateStopOn
    <3>2. StopDate' = b["datestop"]
      BY DEF StopDate, b
    <3> QED
      BY <1>1, <2>4, <3>1, <3>2 DEF WillWrite
  <2> QED
    BY <1>8, <1>10, <2>2, <2>3, <2>4
<1> QED
  BY <1>1, <1>4, <1>7, <1>9, <1>10 DEF a, b, StopDate, Restart

LEMMA ComponentAdvance ==
  ASSUME Called, AlarmsInStep, force \in Int, ClockAdvance(force), NEW c \in Moving
  PROVE  /\ clockAlarm'[c] \in [ClockAlarms -> Alarm]
         /\ \A k \in Periodics :
              /\ clockAlarm'[c][k].interval = Length(nml, k)
              /\ clockAlarm'[c][k].prev <= clk'[c]
              /\ Aligned(Length(nml, k), clockAlarm'[c][k].prev - clockAlarm'["drv"][k].prev)
         /\ clockAlarm'[c]["datestop"].ring = StopDate'.ring
         /\ clk'[c] = IF runAlarm'[c].ringing THEN clk[c] + nml.dt[c] ELSE clk[c]
         /\ runAlarm'[c].ringing /\ WillWrite(clk[c])' => clockAlarm'[c]["restart"].ringing
<1> DEFINE a == clockAlarm[c]
           b == clockAlarm'[c]
           d == clockAlarm["drv"]
           e == clockAlarm'["drv"]
           moves == ClockMoves(c, runAlarm')
           now == clk'[c]
           step == StepOf(c)
           date == IF force >= 0 THEN AlarmSet(a["datestop"], force) ELSE SetOff(a["datestop"])
           s == IF moves THEN Tick(SetOff(a["stop"]), now, step) ELSE SetOff(a["stop"])
           r == IF moves THEN Tick(SetOff(a["restart"]), now, step) ELSE SetOff(a["restart"])
<1>1. nml \in Namelists /\ nml' = nml /\ clk \in [Clocks -> Int] /\ c \in Comps
  BY AdvanceCalls, WatchedFacts DEF Called, InStep
<1>2. /\ c \in Clocks /\ c # "drv" /\ c # "iac" /\ clk[c] \in Int /\ step = nml.dt[c]
      /\ nml.dt[c] \in Nat \ {0}
  BY <1>1, NamelistFacts DEF Comps, Clocks, Moving, StepOf
<1>3. moves \in BOOLEAN /\ moves = (c \in Comps \ {"iac"} /\ runAlarm'[c].ringing)
  BY <1>2 DEF ClockMoves
<1>4. moves <=> runAlarm'[c].ringing
  BY <1>1, <1>2, <1>3
<1>5. now = IF moves THEN clk[c] + step ELSE clk[c]
  BY <1>2 DEF ClockAdvance
<1>6. now \in Int /\ step \in Int /\ step \in Nat \ {0}
  BY <1>2, <1>5
<1>7. a \in [ClockAlarms -> Alarm]
  BY DEF AlarmsInStep
<1>8. /\ b \in [ClockAlarms -> Alarm]
      /\ b["stop"] = s
      /\ b["datestop"] = IF moves THEN Tick(date, now, step) ELSE date
      /\ b["restart"] = IF endRestart' /\ (b["stop"].ringing \/ DateStopOn(b["datestop"], now))
                        THEN SetOn(r) ELSE r
  <2> HIDE DEF moves
  <2> QED
    BY <1>2, <1>3, <1>6, <1>7, AdvanceAlarms DEF moves
<1>9. a["stop"] \in Alarm /\ a["restart"] \in Alarm /\ a["datestop"] \in Alarm
  BY <1>7 DEF ClockAlarms
<1>10. /\ \A k \in Periodics :
            /\ e[k].prev \in Int /\ d[k].prev \in Int
            /\ Aligned(Length(nml, k), e[k].prev - d[k].prev)
       /\ StopDate'.ring = IF force >= 0 THEN force ELSE StopDate.ring
  BY DriverAdvance
<1> HIDE DEF moves, now, step
<1>11. ASSUME NEW k \in Periodics
       PROVE  LET x == a[k]
                  y == IF moves THEN Tick(SetOff(x), now, step) ELSE SetOff(x)
                  n == Length(nml, k)
              IN  /\ y \in Alarm /\ y.interval = n /\ y.prev <= now
                  /\ Aligned(n, y.prev - e[k].prev)
                  /\ moves /\ Aligned(n, now - e[k].prev) => y.ringing = TRUE
  <2> DEFINE x == a[k]
             y == IF moves THEN Tick(SetOff(x), now, step) ELSE SetOff(x)
             n == Length(nml, k)
  <2>1. n \in Nat \ {0} /\ x \in Alarm
    BY <1>1, <1>9, LengthFacts DEF Periodics
  <2>2. x.interval = n /\ x.prev <= clk[c] /\ Aligned(n, x.prev - d[k].prev)
    BY DEF AlarmsInStep
  <2>3. x.prev \in Int /\ e[k].prev \in Int /\ d[k].prev \in Int /\ Aligned(n, e[k].prev - d[k].prev)
    BY <1>10, <2>1 DEF Alarm
  <2> HIDE DEF a, d, e, n, x
  <2>4. \A z \in Int : Aligned(n, z - e[k].prev) <=> Aligned(n, z - d[k].prev)
    BY <2>1, <2>3, AlignedMove
  <2>5. \A z \in Int : Aligned(n, z - x.prev) <=> Aligned(n, z - d[k].prev)
    BY <2>1, <2>2, <2>3, AlignedMove
  <2>6. Aligned(n, x.prev - d[k].prev) /\ Aligned(n, (x.prev + n) - d[k].prev)
    <3>1. (x.prev + n) - x.prev = n /\ x.prev + n \in Int
      BY <2>1, <2>3
    <3>2. Aligned(n, (x.prev + n) - x.prev)
      BY <2>1, <3>1, AlignedZero
    <3> QED
      BY <2>2, <2>5, <3>1, <3>2
  <2>7. CASE moves
    <3>1. now = clk[c] + step
      BY <1>5, <2>7
    <3>2. /\ y \in Alarm /\ y.interval = n /\ y.prev \in {x.prev, x.prev + n} /\ y.prev <= now
          /\ Aligned(n, now - x.prev) => y.ringing = TRUE
      <4>1. x.prev < now
        BY <1>2, <1>6, <2>2, <2>3, <3>1
      <4>2. y = Tick(SetOff(x), now, step)
        BY <2>7
      <4> HIDE DEF y
      <4>3. LET t == Tick(SetOff(x), now, step)
            IN  /\ t \in Alarm /\ t.interval = n /\ t.prev \in {x.prev, x.prev + n} /\ t.prev <= now
                /\ Aligned(n, now - x.prev) => t.ringing = TRUE
        <5> DEFINE t == Tick(SetOff(x), now, step)
        <5>0. n \in Nat \ {0} /\ step \in Int /\ now \in Int /\ x \in Alarm /\ x.interval = n /\ x.prev < now
          BY <1>6, <2>1, <2>2, <4>1
        <5>1. t \in Alarm
          BY <5>0, TickLag
        <5>2. t.interval = n
          <6>1. SetOff(x) \in Alarm /\ SetOff(x).interval = n
            BY <5>0, SwitchFacts
          <6> QED
            BY <5>0, <6>1, TickType
        <5>3. t.prev \in {x.prev, x.prev + n}
          BY <5>0, TickLag
        <5>4. t.prev <= now
          BY <5>0, TickLag
        <5>5. Aligned(n, now - x.prev) => t.ringing = TRUE
          BY <5>0, TickLag
        <5> QED
          BY <5>1, <5>2, <5>3, <5>4, <5>5
      <4> QED
        BY <4>2, <4>3
    <3> HIDE DEF y
    <3>3. Aligned(n, y.prev - e[k].prev)
      <4>1. y.prev \in Int
        BY <3>2 DEF Alarm
      <4>2. Aligned(n, y.prev - d[k].prev)
        BY <2>6, <3>2
      <4> QED
        BY <2>4, <4>1, <4>2
    <3>4. Aligned(n, now - e[k].prev) => Aligned(n, now - x.prev)
      BY <1>6, <2>4, <2>5
    <3> QED
      BY <3>2, <3>3, <3>4 DEF n, x, y
  <2>8. CASE ~moves
    <3>1. y \in Alarm /\ y.interval = n /\ y.prev = x.prev
      BY <2>1, <2>2, <2>8, SwitchFacts
    <3> HIDE DEF y
    <3>2. y.prev <= now
      BY <1>5, <2>2, <2>8, <3>1
    <3>3. Aligned(n, y.prev - e[k].prev)
      BY <2>3, <2>4, <2>6, <3>1
    <3> QED
      BY <2>8, <3>1, <3>2, <3>3 DEF n, x, y
  <2> QED
    BY <2>7, <2>8
<1>12. b["datestop"].ring = StopDate'.ring
  <2>1. a["datestop"].ring = StopDate.ring
    BY DEF AlarmsInStep
  <2>2. date \in Alarm /\ date.ring = StopDate'.ring
    <3>1. CASE force >= 0
      <4>1. AlarmSet(a["datestop"], force) \in Alarm /\ AlarmSet(a["datestop"], force).ring = force
        BY <1>6, <1>9, ForcedFacts
      <4> QED
        BY <1>10, <3>1, <4>1
    <3>2. CASE ~(force >= 0)
      <4>1. SetOff(a["datestop"]) \in Alarm /\ SetOff(a["datestop"]).ring = a["datestop"].ring
        BY <1>9, SwitchFacts
      <4> QED
        BY <1>10, <2>1, <3>2, <4>1
    <3> QED
      BY <3>1, <3>2
  <2> HIDE DEF date, b, a
  <2>3. Tick(date, now, step).ring = date.ring
    BY <1>6, <2>2, TickType
  <2> QED
    BY <1>8, <2>2, <2>3
<1>13. /\ s \in Alarm /\ s.interval = Length(nml, "stop") /\ s.prev <= now
       /\ Aligned(Length(nml, "stop"), s.prev - e["stop"].prev)
       /\ moves /\ Aligned(Length(nml, "stop"), now - e["stop"].prev) => s.ringing = TRUE
  BY <1>11 DEF Periodics
<1>14. /\ r \in Alarm /\ r.interval = Length(nml, "restart") /\ r.prev <= now
       /\ Aligned(Length(nml, "restart"), r.prev - e["restart"].prev)
       /\ moves /\ Aligned(Length(nml, "restart"), now - e["restart"].prev) => r.ringing = TRUE
  BY <1>11 DEF Periodics
<1>15. nml' = nml /\ WillWrite(clk[c])' =
         (\/ Aligned(Length(nml, "restart"), now - e["restart"].prev)
          \/ /\ endRestart'
             /\ Aligned(Length(nml, "stop"), now - e["stop"].prev) \/ StopDate'.ring <= now)
  BY <1>1 DEF WillWrite, now, Restart, Stop
<1> HIDE DEF a, b, d, e, r, s, date
<1>16. /\ b["restart"].prev = r.prev /\ b["restart"].interval = r.interval
       /\ r.ringing = TRUE => b["restart"].ringing
       /\ endRestart' /\ (b["stop"].ringing \/ DateStopOn(b["datestop"], now)) => b["restart"].ringing
  <2>1. SetOn(r).prev = r.prev /\ SetOn(r).interval = r.interval /\ SetOn(r).ringing = TRUE
    BY <1>14, SwitchFacts
  <2> QED
    BY <1>8, <2>1
<1>17. moves /\ WillWrite(clk[c])' => b["restart"].ringing
  BY <1>8, <1>12, <1>13, <1>14, <1>15, <1>16 DEF DateStopOn
<1>18. \A k \in Periodics : /\ b[k].interval = Length(nml, k)
                            /\ b[k].prev <= now
                            /\ Aligned(Length(nml, k), b[k].prev - e[k].prev)
  BY <1>8, <1>13, <1>14, <1>16 DEF Periodics
<1> QED
  BY <1>2, <1>4, <1>5, <1>8, <1>12, <1>17, <1>18 DEF b, e, now, step

-----------------------------------------------------------------------------
(* No clock stands still, and where a wall-clock limit may stop a run at a *)
(* new day every coupling interval divides the day.                        *)
WholeDays(nl) ==
  /\ "iac" \notin nl.present
  /\ nl.wall_limit => \A c \in nl.present : Aligned(nl.dt[c], Day)

DaysAreWhole == \A nl \in Namelists : WholeDays(nl)

(* The date of a forced stop reaches all the alarms at once, or not yet,   *)
(* and then all the clocks are together.                                   *)
Forced ==
  /\ force \in Int
  /\ force >= 0 =>
       \/ endRestart /\ StopDate.ring = force
       \/ phase \in {"advance", "done", "crashed"} /\ \A c \in Moving : clk[c] = Now

RunsLate(c) == c \in {"atm", "glc"} \/ (c = "ocn" /\ ~Tight)

(* The component is called in this step and has not run yet. *)
StillRuns(c) ==
  /\ c \in due
  /\ phase \in {"ocnsetup", "surface"} \/ (phase \in {"flux", "land", "late"} /\ RunsLate(c))

(* A component whose clock is not behind has left what the driver will     *)
(* need at the date of that clock.                                         *)
Left ==
  phase \notin {"crashed", "aborted"} =>
    \A c \in Moving :
      /\ Now < clk[c] \/ (clk[c] = Now /\ phase \in Running)
      /\ WillWrite(clk[c])
      /\ ~StillRuns(c)
      /\ ~(c = "ocn" /\ clk[c] = nml.dt["ocn"])
      => clk[c] \in DOMAIN compFile[c]

RingsAlong ==
  \A c \in Moving : StillRuns(c) /\ WillWrite(clk[c]) => clockAlarm[c]["restart"].ringing

DriverRings == phase \in Running /\ Restart.ringing => WillWrite(Now)

Leaving ==
  /\ Called /\ WholeDays(nml) /\ AlarmsInStep
  /\ Forced /\ Left /\ RingsAlong /\ DriverRings
  /\ RestartsComplete

(* The alarms of a clock that starts at a date. *)
LEMMA InitialAlarmFacts ==
  ASSUME NEW nl \in Namelists, NEW t \in 0 .. Horizon
  PROVE  LET x == InitialAlarms(nl, t, t)
         IN  /\ x \in [ClockAlarms -> Alarm]
             /\ \A k \in Periodics : Paced(x[k], Length(nl, k), t)
             /\ x["datestop"].ring <= x["datestop"].prev + x["datestop"].interval
             /\ x["datestop"].ringing = FALSE
<1> DEFINE x == InitialAlarms(nl, t, t)
<1>1. nl.stop_n \in Nat /\ nl.restart_n \in Nat /\ nl.stop_date \in Nat
  BY NamelistAssumption DEF Namelist
<1>2. Never \in Nat \ {0} /\ Horizon < Never /\ t \in Int /\ 0 <= t /\ t < Never
  BY CalendarAssumption, BoundAssumption
<1>3. Paced(OneShot(Never), Never, t)
  BY <1>2 DEF Paced, OneShot, NewAlarm, Alarm
<1>4. ASSUME NEW n \in Nat \ {0}
      PROVE  Paced(Periodic(t, n, t), n, t)
  <2>1. t <= t + n + 1
    BY <1>2
  <2> QED
    BY <1>2, <2>1, PeriodicPaced
<1>5. OneShot(nl.stop_date) = [ring |-> nl.stop_date, interval |-> Never,
                               prev |-> nl.stop_date - Never, ringing |-> FALSE]
  BY DEF OneShot, NewAlarm
<1>6. /\ x["stop"] = IF nl.stop_n = 0 THEN OneShot(Never) ELSE Periodic(t, nl.stop_n, t)
      /\ x["restart"] = IF nl.restart_n = 0 THEN OneShot(Never) ELSE Periodic(t, nl.restart_n, t)
      /\ x["datestop"] = OneShot(nl.stop_date)
      /\ x = [k \in ClockAlarms |-> x[k]]
  BY DEF InitialAlarms, ClockAlarms
<1> HIDE DEF x
<1>7. /\ Paced(x["stop"], Length(nl, "stop"), t)
      /\ Paced(x["restart"], Length(nl, "restart"), t)
  BY <1>1, <1>3, <1>4, <1>6 DEF Length
<1>8. x["datestop"] \in Alarm /\ x["stop"] \in Alarm /\ x["restart"] \in Alarm
  BY <1>1, <1>2, <1>5, <1>6, <1>7 DEF Alarm, Paced
<1>9. x \in [ClockAlarms -> Alarm]
  BY <1>6, <1>8 DEF ClockAlarms
<1>10. /\ x["datestop"].ring <= x["datestop"].prev + x["datestop"].interval
       /\ x["datestop"].ringing = FALSE
  BY <1>1, <1>2, <1>5, <1>6
<1> QED
  BY <1>7, <1>9, <1>10 DEF x, Periodics

(* A run that starts where all clocks are together has all alarms so. *)
LEMMA InitialInStep ==
  ASSUME NEW nl \in Namelists, NEW t \in 0 .. Horizon, NEW M, M \subseteq Comps,
         \A c \in M : Aligned(nl.dt[c], t)
  PROVE  LET x == ClockInit(nl, t).alarms
         IN  /\ \A c \in M : x[c] = x["drv"]
             /\ x["drv"] \in [ClockAlarms -> Alarm]
             /\ \A k \in Periodics : Paced(x["drv"][k], Length(nl, k), t)
             /\ x["drv"]["datestop"].ring <= x["drv"]["datestop"].prev + x["drv"]["datestop"].interval
             /\ x["drv"]["datestop"].ringing = FALSE
<1> DEFINE x == ClockInit(nl, t).alarms
           y == InitialAlarms(nl, t, t)
<1>1. ASSUME NEW c \in M \union {"drv"}
      PROVE  x[c] = y
  <2>1. c = "drv" \/ FirstTick(nl.dt[c], t) = t
    BY NamelistFacts, FirstTickAligned
  <2> QED
    BY <2>1 DEF ClockInit, Clocks
<1>2. /\ y \in [ClockAlarms -> Alarm]
      /\ \A k \in Periodics : Paced(y[k], Length(nl, k), t)
      /\ y["datestop"].ring <= y["datestop"].prev + y["datestop"].interval
      /\ y["datestop"].ringing = FALSE
  BY InitialAlarmFacts
<1> HIDE DEF y
<1> QED
  BY <1>1, <1>2

(* A clock that is at the end of an interval when the driver is. *)
LEMMA ClockThere ==
  ASSUME InStep, NEW c \in Moving, Aligned(nml.dt[c], Now)
  PROVE  clk[c] = Now
<1> DEFINE n == nml.dt[c]
           p == runAlarm[c].prev
<1>1. c \in Comps /\ n \in Nat \ {0}
  BY NamelistFacts DEF InStep, Moving
<1>2. ClockPaced(c) /\ clk[c] \in Int /\ Now \in Int
  BY <1>1 DEF InStep, Now, Clocks
<1>3. /\ Aligned(n, clk[c]) /\ p <= clk[c] /\ clk[c] < p + n
      /\ p \in Int /\ p <= Now /\ Now < p + n
  BY <1>2 DEF ClockPaced, Paced, Alarm
<1>4. Aligned(n, Now)
  OBVIOUS
<1> HIDE DEF n, p
<1>5. CASE clk[c] <= Now
  <2>1. Now < clk[c] + n
    BY <1>1, <1>2, <1>3
  <2> QED
    BY <1>1, <1>2, <1>3, <1>4, <1>5, <2>1, AlignedApart
<1>6. CASE Now <= clk[c]
  <2>1. clk[c] < Now + n
    BY <1>1, <1>2, <1>3
  <2> QED
    BY <1>1, <1>2, <1>3, <1>4, <1>6, <2>1, AlignedApart
<1> QED
  BY <1>2, <1>5, <1>6

LEMMA AlignedRemainder ==
  ASSUME NEW n \in Nat \ {0}, NEW t \in Int, t % n = 0
  PROVE  Aligned(n, t)
<1>1. t \div n \in Int /\ t % n = t - n * (t \div n)
  BY Division
<1>2. n * (t \div n) \in Int
  BY <1>1
<1>3. t = n * (t \div n)
  BY <1>1, <1>2
<1> QED
  BY <1>1, <1>3 DEF Aligned

LEMMA AlignedThrough ==
  ASSUME NEW n \in Nat \ {0}, NEW m \in Int, NEW t \in Int, Aligned(n, m), Aligned(m, t)
  PROVE  Aligned(n, t)
<1>1. PICK j \in Int : m = n * j
  BY DEF Aligned
<1>2. PICK k \in Int : t = m * k
  BY DEF Aligned
<1>3. t = n * (j * k)
  BY <1>1, <1>2
<1>4. j * k \in Int
  OBVIOUS
<1> QED
  BY <1>3, <1>4 DEF Aligned

-----------------------------------------------------------------------------
(* The alarms' part of a step. *)
LEMMA AlarmsAdvance ==
  ASSUME Called, AlarmsInStep, force \in Int, ClockAdvance(force)
  PROVE  AlarmsInStep'
<1>1. nml' = nml /\ Moving' = Moving
  BY DEF ClockAdvance, Moving
<1>2. /\ clockAlarm'["drv"] \in [ClockAlarms -> Alarm]
      /\ \A k \in Periodics : Paced(clockAlarm'["drv"][k], Length(nml, k), Now')
      /\ StopDate'.interval > 0 => StopDate'.ring <= StopDate'.prev + StopDate'.interval
      /\ StopDate'.ringing => StopDate'.ring <= Now'
  BY DriverAdvance
<1>3. ASSUME NEW c \in Moving
      PROVE  /\ clockAlarm'[c] \in [ClockAlarms -> Alarm]
             /\ \A k \in Periodics :
                  /\ clockAlarm'[c][k].interval = Length(nml, k)
                  /\ clockAlarm'[c][k].prev <= clk'[c]
                  /\ Aligned(Length(nml, k), clockAlarm'[c][k].prev - clockAlarm'["drv"][k].prev)
             /\ clockAlarm'[c]["datestop"].ring = StopDate'.ring
  BY ComponentAdvance
<1>4. \A c \in Moving' \union {"drv"} : clockAlarm'[c] \in [ClockAlarms -> Alarm]
  BY <1>1, <1>2, <1>3
<1>5. \A k \in Periodics : Paced(clockAlarm'["drv"][k], Length(nml', k), Now')
  BY <1>1, <1>2
<1>6. \A c \in Moving' : \A k \in Periodics :
        /\ clockAlarm'[c][k].interval = Length(nml', k)
        /\ clockAlarm'[c][k].prev <= clk'[c]
        /\ Aligned(Length(nml', k), clockAlarm'[c][k].prev - clockAlarm'["drv"][k].prev)
  BY <1>1, <1>3
<1>7. \A c \in Moving' : clockAlarm'[c]["datestop"].ring = StopDate'.ring
  BY <1>1, <1>3
<1> QED
  BY <1>2, <1>4, <1>5, <1>6, <1>7 DEF AlarmsInStep

(* The dates for which the driver will write do not change while a clock   *)
(* is ahead of it.                                                         *)
LEMMA SameDates ==
  ASSUME Called, AlarmsInStep, Forced, phase = "advance", ClockAdvance(force),
         NEW c \in Moving, NEW t \in Int, Now < clk[c], WillWrite(t)'
  PROVE  WillWrite(t)
<1>1. force \in Int /\ nml \in Namelists /\ nml' = nml
  BY DEF Forced, Called, InStep, ClockAdvance
<1>2. /\ \A k \in Periodics :
            /\ clockAlarm'["drv"][k].prev \in Int /\ clockAlarm["drv"][k].prev \in Int
            /\ Aligned(Length(nml, k), clockAlarm'["drv"][k].prev - clockAlarm["drv"][k].prev)
      /\ StopDate'.ring = IF force >= 0 THEN force ELSE StopDate.ring
  BY <1>1, DriverAdvance
<1>3. ASSUME NEW k \in Periodics, Aligned(Length(nml, k), t - clockAlarm'["drv"][k].prev)
      PROVE  Aligned(Length(nml, k), t - clockAlarm["drv"][k].prev)
  <2>1. Length(nml, k) \in Nat \ {0}
    BY <1>1, LengthFacts
  <2>2. /\ clockAlarm'["drv"][k].prev \in Int /\ clockAlarm["drv"][k].prev \in Int
        /\ Aligned(Length(nml, k), clockAlarm'["drv"][k].prev - clockAlarm["drv"][k].prev)
    BY <1>2
  <2> QED
    BY <1>3, <2>1, <2>2, AlignedMove
<1>4. (endRestart' <=> endRestart) /\ StopDate'.ring = StopDate.ring
  <2>1. endRestart' = (endRestart \/ force >= 0)
    BY DEF ClockAdvance
  <2>2. CASE force >= 0
    <3>1. clk[c] \in Int /\ Now \in Int
      BY <1>1, NamelistFacts DEF Called, InStep, Moving, Clocks, Now
    <3>2. endRestart /\ StopDate.ring = force
      BY <2>2, <3>1 DEF Forced
    <3>3. endRestart' <=> endRestart
      BY <2>1, <2>2, <3>2
    <3> QED
      BY <1>2, <2>2, <3>2, <3>3
  <2>3. CASE ~(force >= 0)
    <3>1. endRestart' <=> endRestart
      BY <2>1, <2>3
    <3> QED
      BY <1>2, <2>3, <3>1
  <2> QED
    BY <2>2, <2>3
<1>5. \/ Aligned(Length(nml, "restart"), t - clockAlarm'["drv"]["restart"].prev)
      \/ /\ endRestart'
         /\ Aligned(Length(nml, "stop"), t - clockAlarm'["drv"]["stop"].prev) \/ StopDate'.ring <= t
  BY <1>1 DEF WillWrite, Restart, Stop
<1> QED
  BY <1>3, <1>4, <1>5 DEF WillWrite, Restart, Stop, Periodics

LEMMA AdvanceLeaving ==
  ASSUME Leaving, Advance
  PROVE  AlarmsInStep' /\ Forced' /\ Left' /\ RingsAlong' /\ DriverRings' /\ RestartsComplete'
<1>1. /\ Called /\ AlarmsInStep /\ Forced /\ Left /\ force \in Int
      /\ ClockAdvance(force) /\ phase = "advance" /\ phase' = "ocnsetup"
      /\ UNCHANGED <<force, drvFile, compFile>>
  BY DEF Leaving, Advance, Goto, Forced
<1>2. AlarmsInStep'
  BY <1>1, AlarmsAdvance
<1>3. nml' = nml /\ Moving' = Moving /\ nml \in Namelists /\ Now' = Now + 1 /\ Now \in Int
  BY <1>1, AdvanceCalls DEF Called, InStep, Moving, Now, Clocks
<1>4. Called'
  BY <1>1, CalledKept DEF Next, Step
<1>5. Forced'
  <2>1. CASE force >= 0
    <3>1. endRestart' = TRUE /\ StopDate'.ring = force
      BY <1>1, <2>1, DriverAdvance DEF ClockAdvance
    <3> QED
      BY <1>1, <3>1 DEF Forced
  <2>2. CASE ~(force >= 0)
    BY <1>1, <2>2 DEF Forced
  <2> QED
    BY <2>1, <2>2
<1>6. ASSUME NEW c \in Moving
      PROVE  /\ c \in due' <=> DueAt(nml, c, Now')
             /\ runAlarm'[c].ringing <=> Rings(nml, c, Now')
             /\ clk'[c] = IF runAlarm'[c].ringing THEN clk[c] + nml.dt[c] ELSE clk[c]
             /\ runAlarm'[c].ringing /\ WillWrite(clk[c])' => clockAlarm'[c]["restart"].ringing
             /\ runAlarm'[c].ringing => runAlarm'[c].prev = Now'
             /\ clk[c] \in Int /\ clk'[c] \in Int /\ nml.dt[c] \in Nat \ {0}
  <2>1. c \in Watched /\ c \in Watched' /\ c \in Comps
    BY <1>3, NamelistFacts DEF Watched, Moving
  <2>2. c \in due' <=> DueAt(nml, c, Now')
    BY <1>1, <1>3, <2>1, DuesAdvance DEF Dues, Stepping, Running
  <2>3. /\ runAlarm'[c].ringing <=> Rings(nml, c, Now')
        /\ runAlarm'[c].ringing => runAlarm'[c].prev = Now'
    BY <1>1, <2>1, AdvanceCalls
  <2>4. /\ clk'[c] = IF runAlarm'[c].ringing THEN clk[c] + nml.dt[c] ELSE clk[c]
        /\ runAlarm'[c].ringing /\ WillWrite(clk[c])' => clockAlarm'[c]["restart"].ringing
    BY <1>1, ComponentAdvance
  <2>5. clk[c] \in Int /\ clk'[c] \in Int /\ nml.dt[c] \in Nat \ {0}
    BY <1>1, <1>3, <1>4, <2>1, NamelistFacts DEF Called, InStep, Clocks
  <2> QED
    BY <2>2, <2>3, <2>4, <2>5
<1>7. Left'
  <2> SUFFICES ASSUME NEW c \in Moving,
                      Now' < clk'[c] \/ clk'[c] = Now',
                      WillWrite(clk[c])',
                      c \notin due',
                      ~(c = "ocn" /\ clk'[c] = nml.dt["ocn"])
               PROVE  clk'[c] \in DOMAIN compFile[c]
    BY <1>1, <1>3 DEF Left, StillRuns
  <2>1. CASE runAlarm'[c].ringing
    <3>1. c = "ocn" /\ Now' <= nml.dt["ocn"] /\ runAlarm'[c].prev = Now'
      BY <1>3, <1>6, <2>1 DEF DueAt
    <3>2. Aligned(nml.dt[c], clk'[c]) /\ Now' <= clk'[c] /\ clk'[c] < Now' + nml.dt[c]
      BY <1>3, <1>4, <3>1 DEF Called, InStep, ClockPaced
    <3>3. Now' \in Times
      BY <1>1, <1>4 DEF Called, TimeBounds, Stepping, Running
    <3> DEFINE n == nml.dt[c]
               x == clk'[c]
    <3>4. n \in Nat \ {0} /\ x \in Int /\ Aligned(n, x) /\ Aligned(n, n) /\ 1 <= x /\ x < n + n
      <4>1. n \in Nat \ {0} /\ x \in Int /\ Now' \in Int /\ 1 <= Now' /\ Now' <= n
        BY <1>6, <3>1, <3>3, TimesFacts
      <4> QED
        BY <3>2, <4>1, AlignedZero
    <3> HIDE DEF n, x
    <3>5. x = n
      <4>1. CASE x <= n
        <5>1. n < x + n
          BY <3>4
        <5> QED
          BY <3>4, <4>1, <5>1, AlignedApart
      <4>2. CASE n <= x
        BY <3>4, <4>2, AlignedApart
      <4> QED
        BY <3>4, <4>1, <4>2
    <3> QED
      BY <3>1, <3>5 DEF n, x
  <2>2. CASE ~runAlarm'[c].ringing
    <3>1. clk'[c] = clk[c] /\ Now < clk[c] /\ clk[c] \in Int
      BY <1>3, <1>6, <2>2
    <3>2. WillWrite(clk[c])
      <4> DEFINE x == clk[c]
      <4>1. WillWrite(clk[c])' <=>
              \/ Aligned(Length(nml', "restart"), x - Restart'.prev)
              \/ endRestart' /\ (Aligned(Length(nml', "stop"), x - Stop'.prev) \/ StopDate'.ring <= x)
        BY <3>1 DEF WillWrite
      <4>2. PICK t \in Int : t = x
        BY <3>1
      <4>3. WillWrite(t)'
        BY <4>1, <4>2 DEF WillWrite
      <4>4. WillWrite(t)
        BY <1>1, <3>1, <4>3, SameDates
      <4> QED
        BY <4>2, <4>4
    <3>3. ~StillRuns(c) /\ phase \notin {"crashed", "aborted"}
      BY <1>1 DEF StillRuns
    <3> QED
      BY <1>1, <1>3, <3>1, <3>2, <3>3 DEF Left
  <2> QED
    BY <2>1, <2>2
<1>8. RingsAlong'
  <2> SUFFICES ASSUME NEW c \in Moving, c \in due', WillWrite(clk[c])'
               PROVE  clockAlarm'[c]["restart"].ringing
    BY <1>3 DEF RingsAlong, StillRuns
  <2> QED
    BY <1>6 DEF DueAt
<1>9. DriverRings'
  BY <1>1, DriverAdvance DEF DriverRings
<1>10. RestartsComplete'
  BY <1>1, <1>3 DEF Leaving, RestartsComplete
<1> QED
  BY <1>2, <1>5, <1>7, <1>8, <1>9, <1>10

-----------------------------------------------------------------------------
(* A phase of the loop in which the components that run leave a restart    *)
(* file for the date of their clock.                                       *)
LEMMA PhaseLeaving ==
  ASSUME Leaving, SameLoop, drvFile' = drvFile, phase \in Running, phase' \in Running,
         \A c \in Comps : DOMAIN compFile[c] \subseteq DOMAIN compFile'[c],
         \A c \in Moving : StillRuns(c)' => StillRuns(c),
         \A c \in Moving : StillRuns(c) /\ clockAlarm[c]["restart"].ringing =>
                              StillRuns(c)' \/ clk[c] \in DOMAIN compFile'[c]
  PROVE  AlarmsInStep' /\ Forced' /\ Left' /\ RingsAlong' /\ DriverRings' /\ RestartsComplete'
<1>1. /\ UNCHANGED <<nml, endRestart, clk, runAlarm, clockAlarm, due, force>>
      /\ Now' = Now /\ Moving' = Moving /\ Restart' = Restart /\ Stop' = Stop /\ StopDate' = StopDate
      /\ nml \in Namelists /\ Moving \subseteq Comps
  BY NamelistFacts
     DEF SameLoop, clockVars, Now, Moving, Restart, Stop, StopDate, Leaving, Called, InStep
<1>2. AlarmsInStep'
  BY <1>1 DEF Leaving, AlarmsInStep
<1>3. Forced'
  BY <1>1 DEF Leaving, Forced, Running
<1>4. \A t : WillWrite(t)' <=> WillWrite(t)
  BY <1>1 DEF WillWrite
<1>5. ASSUME NEW c \in Moving
      PROVE  WillWrite(clk[c])' <=> WillWrite(clk[c])
  BY <1>1 DEF WillWrite
<1>6. RingsAlong'
  <2> SUFFICES ASSUME NEW c \in Moving, StillRuns(c)', WillWrite(clk[c])'
               PROVE  clockAlarm'[c]["restart"].ringing
    BY <1>1 DEF RingsAlong
  <2> QED
    BY <1>1, <1>5 DEF Leaving, RingsAlong
<1>7. DriverRings'
  <2>1. WillWrite(Now)' <=> WillWrite(Now)
    BY <1>1 DEF WillWrite
  <2> QED
    BY <1>1, <2>1 DEF Leaving, DriverRings
<1>8. Left'
  <2> SUFFICES ASSUME NEW c \in Moving,
                      Now < clk[c] \/ clk[c] = Now,
                      WillWrite(clk[c])', ~StillRuns(c)',
                      ~(c = "ocn" /\ clk[c] = nml.dt["ocn"])
               PROVE  clk[c] \in DOMAIN compFile'[c]
    BY <1>1 DEF Left
  <2>1. WillWrite(clk[c]) /\ c \in Comps
    BY <1>1, <1>5
  <2>2. CASE StillRuns(c)
    BY <2>1, <2>2 DEF Leaving, RingsAlong
  <2>3. CASE ~StillRuns(c)
    <3>1. clk[c] \in DOMAIN compFile[c]
      BY <2>1, <2>3 DEF Leaving, Left, Running
    <3> QED
      BY <2>1, <3>1
  <2> QED
    BY <2>2, <2>3
<1>9. RestartsComplete'
  BY <1>1, NamelistFacts DEF Leaving, RestartsComplete
<1> QED
  BY <1>2, <1>3, <1>6, <1>7, <1>8, <1>9

LEMMA RunLeaves ==
  ASSUME NEW C, RunComponents(C)
  PROVE  /\ \A c \in Comps : DOMAIN compFile[c] \subseteq DOMAIN compFile'[c]
         /\ \A c \in Comps : c \in C /\ c \in nml.present /\ c \in due
                             /\ clockAlarm[c]["restart"].ringing => clk[c] \in DOMAIN compFile'[c]
  BY DEF RunComponents, Filed, Present

LEMMA StepLeaving ==
  ASSUME Leaving, OcnSetup \/ Surface \/ Flux \/ Land \/ Late
  PROVE  AlarmsInStep' /\ Forced' /\ Left' /\ RingsAlong' /\ DriverRings' /\ RestartsComplete'
<1>1. nml \in Namelists /\ Moving \subseteq Comps \ {"iac"} /\ Moving \subseteq nml.present
  BY NamelistFacts DEF Leaving, Called, InStep, Moving
<1>2. ASSUME SameLoop, UNCHANGED <<drvFile, compFile>>,
             \/ phase = "ocnsetup" /\ phase' = "surface"
             \/ phase = "flux" /\ phase' = "land"
             \/ phase = "land" /\ phase' = "late"
      PROVE  AlarmsInStep' /\ Forced' /\ Left' /\ RingsAlong' /\ DriverRings' /\ RestartsComplete'
  <2>1. UNCHANGED <<nml, due>>
    BY <1>2 DEF SameLoop, clockVars
  <2>2. \A c \in Moving : StillRuns(c)' <=> StillRuns(c)
    BY <1>2, <2>1 DEF StillRuns, RunsLate, Tight
  <2> QED
    BY <1>2, <2>2, PhaseLeaving DEF Running
<1>3. CASE OcnSetup
  BY <1>2, <1>3 DEF OcnSetup, Goto
<1>4. CASE Flux
  BY <1>2, <1>4 DEF Flux, Goto
<1>5. CASE Land
  BY <1>2, <1>5 DEF Land, Goto
<1>6. CASE Surface
  <2> DEFINE C == {"iac", "ice", "lnd", "rof", "wav"} \union (IF Tight THEN {"ocn"} ELSE {})
  <2>1. phase = "surface" /\ phase' = "flux" /\ SameLoop /\ drvFile' = drvFile /\ RunComponents(C)
    BY <1>6 DEF Surface, Goto
  <2>2. UNCHANGED <<nml, due>>
    BY <2>1 DEF SameLoop, clockVars
  <2>3. \A c \in Moving : StillRuns(c)' => StillRuns(c)
    BY <2>1, <2>2 DEF StillRuns, RunsLate, Tight
  <2>4. \A c \in Moving : StillRuns(c) => c \in due /\ (StillRuns(c)' \/ ~RunsLate(c))
    BY <2>1, <2>2 DEF StillRuns, RunsLate, Tight
  <2>5. \A c \in Moving : ~RunsLate(c) => c \in C
    BY <1>1 DEF RunsLate, Comps
  <2> HIDE DEF C
  <2>6. \A c \in Moving : StillRuns(c) /\ clockAlarm[c]["restart"].ringing =>
                              StillRuns(c)' \/ clk[c] \in DOMAIN compFile'[c]
    BY <1>1, <2>1, <2>4, <2>5, RunLeaves
  <2>7. \A c \in Comps : DOMAIN compFile[c] \subseteq DOMAIN compFile'[c]
    BY <2>1, RunLeaves
  <2> QED
    BY <2>1, <2>3, <2>6, <2>7, PhaseLeaving DEF Running
<1>7. CASE Late
  <2> DEFINE C == {"atm", "glc"} \union (IF Tight THEN {} ELSE {"ocn"})
  <2>1. phase = "late" /\ phase' = "restart" /\ SameLoop /\ drvFile' = drvFile /\ RunComponents(C)
    BY <1>7 DEF Late, Goto
  <2>2. \A c \in Moving : ~StillRuns(c)'
    BY <2>1 DEF StillRuns
  <2>3. \A c \in Moving : StillRuns(c) => c \in due /\ c \in C
    BY <2>1 DEF StillRuns, RunsLate
  <2> HIDE DEF C
  <2>4. \A c \in Moving : StillRuns(c) /\ clockAlarm[c]["restart"].ringing =>
                              StillRuns(c)' \/ clk[c] \in DOMAIN compFile'[c]
    BY <1>1, <2>1, <2>3, RunLeaves
  <2>5. \A c \in Comps : DOMAIN compFile[c] \subseteq DOMAIN compFile'[c]
    BY <2>1, RunLeaves
  <2> QED
    BY <2>1, <2>2, <2>4, <2>5, PhaseLeaving DEF Running
<1> QED
  BY <1>3, <1>4, <1>5, <1>6, <1>7

(* Where the intervals of all components end, their clocks are together,   *)
(* and each has left its file when the driver writes its own.              *)
LEMMA WriteLeaving ==
  ASSUME Leaving, WriteRestart
  PROVE  AlarmsInStep' /\ Forced' /\ Left' /\ RingsAlong' /\ DriverRings' /\ RestartsComplete'
<1>1. /\ phase = "restart" /\ phase' = "end" /\ compFile' = compFile
      /\ UNCHANGED <<nml, endRestart, clk, runAlarm, clockAlarm, due, force>>
      /\ Now' = Now /\ Moving' = Moving /\ Restart' = Restart /\ Stop' = Stop /\ StopDate' = StopDate
  BY DEF WriteRestart, Goto, SameLoop, clockVars, Now, Moving, Restart, Stop, StopDate
<1>2. nml \in Namelists /\ Moving = nml.present /\ Moving \subseteq Comps /\ InStep /\ Now \in Int
  BY NamelistFacts DEF Leaving, WholeDays, Called, InStep, Moving, Now, Clocks
<1>3. AlarmsInStep' /\ Forced' /\ RingsAlong' /\ DriverRings'
  BY <1>1 DEF Leaving, AlarmsInStep, Forced, RingsAlong, DriverRings, StillRuns, Running
<1>4. Left'
  <2> SUFFICES ASSUME NEW c \in Moving, Now < clk[c], WillWrite(clk[c])',
                      ~(c = "ocn" /\ clk[c] = nml.dt["ocn"])
               PROVE  clk[c] \in DOMAIN compFile[c]
    BY <1>1 DEF Left, Running
  <2>1. WillWrite(clk[c]) /\ ~StillRuns(c)
    BY <1>1 DEF WillWrite, StillRuns
  <2> QED
    BY <1>1, <2>1 DEF Leaving, Left
<1>5. RestartsComplete'
  <2>1. ASSUME NEW t \in DOMAIN drvFile'
        PROVE  t \in DOMAIN drvFile \/ (t = Now /\ Restart.ringing)
    BY <2>1 DEF WriteRestart, Filed, Restart
  <2>2. ASSUME Restart.ringing, \A c \in nml.present : Now % nml.dt[c] = 0, NEW c \in nml.present
        PROVE  Now \in DOMAIN compFile[c] \/ (c = "ocn" /\ Now = nml.dt["ocn"])
    <3>1. c \in Moving /\ nml.dt[c] \in Nat \ {0} /\ Now % nml.dt[c] = 0
      BY <1>2, <2>2, NamelistFacts
    <3>2. clk[c] = Now
      BY <1>2, <3>1, AlignedRemainder, ClockThere
    <3>3. WillWrite(clk[c])
      <4>1. WillWrite(Now)
        BY <1>1, <2>2 DEF Leaving, DriverRings, Running
      <4> QED
        BY <3>2, <4>1
    <3>4. ~StillRuns(c)
      BY <1>1 DEF StillRuns
    <3> QED
      BY <1>1, <3>1, <3>2, <3>3, <3>4 DEF Leaving, Left, Running
  <2> QED
    BY <1>1, <2>1, <2>2 DEF Leaving, RestartsComplete
<1> QED
  BY <1>3, <1>4, <1>5

(* A forced stop is set at the beginning of a day, where the clocks are    *)
(* together.                                                               *)
LEMMA EndLeaving ==
  ASSUME Leaving, EndStep
  PROVE  AlarmsInStep' /\ Forced' /\ Left' /\ RingsAlong' /\ DriverRings' /\ RestartsComplete'
<1>1. /\ phase = "end" /\ phase' \in {"advance", "done"} /\ compFile' = compFile /\ drvFile' = drvFile
      /\ UNCHANGED <<nml, endRestart, clk, runAlarm, clockAlarm, due>>
      /\ Now' = Now /\ Moving' = Moving /\ Restart' = Restart /\ Stop' = Stop /\ StopDate' = StopDate
  BY DEF EndStep, Goto, Again, clockVars, Now, Moving, Restart, Stop, StopDate
<1>2. nml \in Namelists /\ Moving = nml.present /\ Moving \subseteq Comps /\ InStep /\ Now \in Int
  BY NamelistFacts DEF Leaving, WholeDays, Called, InStep, Moving, Now, Clocks
<1>3. AlarmsInStep' /\ RingsAlong' /\ DriverRings' /\ RestartsComplete'
  BY <1>1 DEF Leaving, AlarmsInStep, RingsAlong, DriverRings, StillRuns, Running, RestartsComplete
<1>4. Left'
  <2> SUFFICES ASSUME NEW c \in Moving, Now < clk[c], WillWrite(clk[c])',
                      ~(c = "ocn" /\ clk[c] = nml.dt["ocn"])
               PROVE  clk[c] \in DOMAIN compFile[c]
    BY <1>1 DEF Left, Running
  <2>1. WillWrite(clk[c]) /\ ~StillRuns(c)
    BY <1>1 DEF WillWrite, StillRuns
  <2> QED
    BY <1>1, <2>1 DEF Leaving, Left
<1>5. Forced'
  <2>1. CASE force' = force
    BY <1>1, <2>1 DEF Leaving, Forced
  <2>2. CASE force' # force
    <3>1. nml.wall_limit /\ Now % Day = 0
          /\ force' = NextStart(IF nml.force_stop_at = "day" THEN Day ELSE Month)
      BY <2>2 DEF EndStep
    <3>2. force' \in Int
      <4>1. Day \in Nat \ {0} /\ Month \in Nat \ {0}
        BY BoundAssumption
      <4>2. \A length \in Nat \ {0} : NextStart(length) \in Int
        BY <1>2, Division DEF NextStart
      <4> QED
        BY <3>1, <4>1, <4>2
    <3>3. ASSUME NEW c \in Moving
          PROVE  clk[c] = Now
      <4>1. Aligned(nml.dt[c], Day) /\ nml.dt[c] \in Nat \ {0} /\ Day \in Nat \ {0} /\ Day \in Int
        BY <1>2, <3>1, NamelistFacts, BoundAssumption DEF Leaving, WholeDays
      <4>2. Aligned(Day, Now)
        BY <1>2, <3>1, <4>1, AlignedRemainder
      <4>3. Aligned(nml.dt[c], Now)
        BY <1>2, <4>1, <4>2, AlignedThrough
      <4> QED
        BY <1>2, <4>3, ClockThere
    <3> QED
      BY <1>1, <3>2, <3>3 DEF Forced
  <2> QED
    BY <2>1, <2>2
<1> QED
  BY <1>3, <1>4, <1>5

LEMMA PacedFacts ==
  ASSUME NEW nl \in Namelists, NEW t \in Int, NEW k, NEW a, Paced(a, Length(nl, k), t)
  PROVE  a.interval = Length(nl, k) /\ a.prev <= t /\ Aligned(Length(nl, k), a.prev - a.prev)
<1>1. a.interval = Length(nl, k) /\ a.prev <= t /\ a.prev - a.prev = 0
  BY DEF Paced, Alarm
<1>2. Aligned(Length(nl, k), 0)
  BY LengthFacts, AlignedZero
<1> QED
  BY <1>1, <1>2

(* A run that starts, or goes on from a restart, has everything together.  *)
LEMMA StartLeaving ==
  ASSUME nml \in Namelists, NEW t \in 0 .. Horizon, clk \in [Clocks -> Int], Now = t,
         \A c \in Moving : clk[c] = t /\ Aligned(nml.dt[c], t),
         clockAlarm = ClockInit(nml, t).alarms,
         phase \in {"done", "advance"}, force = -1
  PROVE  AlarmsInStep /\ Forced /\ Left /\ RingsAlong /\ DriverRings
<1>1. Moving \subseteq Comps
  BY NamelistFacts DEF Moving
<1>2. /\ \A c \in Moving : clockAlarm[c] = clockAlarm["drv"]
      /\ clockAlarm["drv"] \in [ClockAlarms -> Alarm]
      /\ \A k \in Periodics : Paced(clockAlarm["drv"][k], Length(nml, k), t)
      /\ StopDate.ring <= StopDate.prev + StopDate.interval
      /\ StopDate.ringing = FALSE
  <2> HIDE DEF Moving
  <2> QED
    BY <1>1, InitialInStep DEF StopDate
<1>3. AlarmsInStep
  <2>1. t \in Int
    OBVIOUS
  <2>2. \A k \in Periodics :
          /\ clockAlarm["drv"][k].interval = Length(nml, k) /\ clockAlarm["drv"][k].prev <= t
          /\ Aligned(Length(nml, k), clockAlarm["drv"][k].prev - clockAlarm["drv"][k].prev)
    BY <1>2, <2>1, PacedFacts
  <2> QED
    BY <1>2, <2>2 DEF AlarmsInStep, StopDate
<1>4. Forced
  BY DEF Forced
<1>5. t \in Int
  OBVIOUS
<1>6. Left /\ RingsAlong /\ DriverRings
  BY <1>5 DEF Left, RingsAlong, DriverRings, StillRuns, Running
<1> QED
  BY <1>3, <1>4, <1>6

LEMMA LeavingInitially ==
  ASSUME DaysAreWhole
  PROVE  Init => Leaving
<1> SUFFICES ASSUME Init PROVE Leaving
  OBVIOUS
<1>1. /\ nml \in Namelists /\ clk = ClockInit(nml, 0).clk /\ clockAlarm = ClockInit(nml, 0).alarms
      /\ phase \in {"done", "advance"} /\ force = -1
  BY DEF Init, Again
<1>2. \A c \in Moving : c \in Comps /\ nml.dt[c] \in Nat \ {0} /\ Aligned(nml.dt[c], 0)
  BY <1>1, NamelistFacts, AlignedZero DEF Moving
<1>3. clk \in [Clocks -> Int] /\ Now = 0 /\ \A c \in Moving : clk[c] = 0
  BY <1>1, <1>2, ClockInitPaced DEF Now
<1>4. 0 \in 0 .. Horizon
  BY BoundAssumption
<1>5. AlarmsInStep /\ Forced /\ Left /\ RingsAlong /\ DriverRings
  BY <1>1, <1>2, <1>3, <1>4, StartLeaving
<1>6. RestartsComplete
  BY DEF Init, RestartsComplete
<1>7. Called /\ WholeDays(nml)
  BY <1>1, CalledInitially DEF DaysAreWhole
<1> QED
  BY <1>5, <1>6, <1>7 DEF Leaving

LEMMA ContinueLeaving ==
  ASSUME Leaving, Continue
  PROVE  AlarmsInStep' /\ Forced' /\ Left' /\ RingsAlong' /\ DriverRings' /\ RestartsComplete'
<1>1. PICK t \in DOMAIN drvFile : /\ Complete(t) /\ clk' = ClockInit(nml, t).clk
                                  /\ clockAlarm' = ClockInit(nml, t).alarms
  BY DEF Continue
<1>2. /\ UNCHANGED <<nml, drvFile, compFile>> /\ phase' \in {"done", "advance"} /\ force' = -1
      /\ Moving' = Moving
  BY DEF Continue, Goto, Again, Moving
<1>3. /\ nml \in Namelists /\ t \in 0 .. Horizon /\ t \in Int /\ Moving \subseteq nml.present
      /\ Moving \subseteq Comps
  BY <1>1, NamelistFacts DEF Leaving, Called, InStep, TimeBounds, Moving
<1>4. \A c \in Moving : Aligned(nml.dt[c], t)
  BY <1>1, <1>3 DEF Complete, Leaving, Called, InStep, FilesAligned
<1>5. clk' \in [Clocks -> Int] /\ Now' = t /\ \A c \in Moving : clk'[c] = t
  BY <1>1, <1>3, <1>4, ClockInitPaced DEF Now
<1>6. AlarmsInStep' /\ Forced' /\ Left' /\ RingsAlong' /\ DriverRings'
  <2>1. /\ \A c \in Moving : clockAlarm'[c] = clockAlarm'["drv"]
        /\ clockAlarm'["drv"] \in [ClockAlarms -> Alarm]
        /\ \A k \in Periodics : Paced(clockAlarm'["drv"][k], Length(nml, k), t)
        /\ StopDate'.ring <= StopDate'.prev + StopDate'.interval
        /\ StopDate'.ringing = FALSE
    <3>1. PICK al : al = ClockInit(nml, t).alarms
      OBVIOUS
    <3>2. PICK nl : nl = nml
      OBVIOUS
    <3>3. PICK M : M = Moving
      OBVIOUS
    <3>4. /\ \A c \in M : al[c] = al["drv"]
          /\ al["drv"] \in [ClockAlarms -> Alarm]
          /\ \A k \in Periodics : Paced(al["drv"][k], Length(nl, k), t)
          /\ al["drv"]["datestop"].ring <= al["drv"]["datestop"].prev + al["drv"]["datestop"].interval
          /\ al["drv"]["datestop"].ringing = FALSE
      <4> HIDE DEF Moving
      <4> QED
        BY <1>3, <1>4, <3>1, <3>2, <3>3, InitialInStep
    <3> QED
      BY <1>1, <3>1, <3>2, <3>3, <3>4 DEF StopDate
  <2>2. AlarmsInStep'
    <3>1. \A k \in Periodics :
            /\ clockAlarm'["drv"][k].interval = Length(nml, k) /\ clockAlarm'["drv"][k].prev <= t
            /\ Aligned(Length(nml, k), clockAlarm'["drv"][k].prev - clockAlarm'["drv"][k].prev)
      BY <1>3, <2>1, PacedFacts
    <3> QED
      BY <1>2, <1>5, <2>1, <3>1 DEF AlarmsInStep, StopDate
  <2>3. Forced'
    BY <1>2 DEF Forced
  <2>4. Left' /\ RingsAlong' /\ DriverRings'
    BY <1>2, <1>3, <1>5 DEF Left, RingsAlong, DriverRings, StillRuns, Running
  <2> QED
    BY <2>2, <2>3, <2>4
<1>7. RestartsComplete'
  BY <1>2 DEF Leaving, RestartsComplete
<1> QED
  BY <1>6, <1>7

LEMMA LeavingKept ==
  Leaving /\ [Next]_vars => Leaving'
<1> SUFFICES ASSUME Leaving, [Next]_vars PROVE Leaving'
  OBVIOUS
<1>1. Called'
  BY CalledKept DEF Leaving
<1>2. WholeDays(nml)'
  <2>1. nml' = nml
    BY DEF Next, Step, Advance, AbortOnGlcAlarms, ClockAdvance, OcnSetup, Surface, Flux, Land, Late,
           WriteRestart, EndStep, Crash, Continue, SameLoop, clockVars, vars
  <2> QED
    BY <2>1 DEF Leaving, WholeDays
<1> SUFFICES AlarmsInStep' /\ Forced' /\ Left' /\ RingsAlong' /\ DriverRings' /\ RestartsComplete'
  BY <1>1, <1>2 DEF Leaving
<1>3. CASE Advance
  BY <1>3, AdvanceLeaving
<1>4. CASE AbortOnGlcAlarms
  <2>1. /\ ClockAdvance(force) /\ phase' = "aborted" /\ UNCHANGED <<force, drvFile, compFile>>
        /\ Called /\ AlarmsInStep /\ force \in Int
    BY <1>4 DEF AbortOnGlcAlarms, Goto, Leaving, Forced
  <2>2. AlarmsInStep'
    BY <2>1, AlarmsAdvance
  <2>3. Forced'
    <3>1. CASE force >= 0
      <4>1. endRestart' = TRUE /\ StopDate'.ring = force
        BY <2>1, <3>1, DriverAdvance DEF ClockAdvance
      <4> QED
        BY <2>1, <4>1 DEF Forced
    <3>2. CASE ~(force >= 0)
      BY <2>1, <3>2 DEF Forced
    <3> QED
      BY <3>1, <3>2
  <2>4. Left' /\ RingsAlong' /\ DriverRings'
    BY <2>1 DEF Left, RingsAlong, DriverRings, StillRuns, Running
  <2>5. nml' = nml
    BY <2>1 DEF ClockAdvance
  <2>6. RestartsComplete'
    BY <2>1, <2>5 DEF Leaving, RestartsComplete
  <2> QED
    BY <2>2, <2>3, <2>4, <2>6
<1>5. CASE OcnSetup \/ Surface \/ Flux \/ Land \/ Late
  BY <1>5, StepLeaving
<1>6. CASE WriteRestart
  BY <1>6, WriteLeaving
<1>7. CASE EndStep
  BY <1>7, EndLeaving
<1>8. CASE Crash
  <2>1. /\ phase' = "crashed" /\ UNCHANGED <<clockVars, due, force, drvFile, compFile>>
        /\ phase \in Phases
    BY <1>8 DEF Crash, Goto
  <2> QED
    BY <2>1 DEF Leaving, AlarmsInStep, Forced, Left, RingsAlong, DriverRings, StillRuns, Running,
                RestartsComplete, clockVars, Moving, Now, Restart, Stop, StopDate, Phases
<1>9. CASE Continue
  BY <1>9, ContinueLeaving
<1>10. CASE UNCHANGED vars
  BY <1>10 DEF vars, loopVars, clockVars, Leaving, AlarmsInStep, Forced, Left, RingsAlong,
               DriverRings, StillRuns, RunsLate, Tight, WillWrite, RestartsComplete, Moving, Now,
               Restart, Stop, StopDate
<1> QED
  BY <1>3, <1>4, <1>5, <1>6, <1>7, <1>8, <1>9, <1>10 DEF Next, Step

(* RestartsComplete for any number of crashes and continued runs, where    *)
(* every component has a clock that is advanced and a wall-clock limit     *)
(* finds the clocks together at the beginning of a day: the driver's file  *)
(* has its counterparts, which were written at other steps.                *)
THEOREM RestartSetsComplete ==
  ASSUME DaysAreWhole
  PROVE  Spec => []RestartsComplete
<1>1. Init => Leaving
  BY LeavingInitially
<1>2. Leaving /\ [Next]_vars => Leaving'
  BY LeavingKept
<1>3. Leaving => RestartsComplete
  BY DEF Leaving
<1> QED
  BY <1>1, <1>2, <1>3, PTL DEF Spec
=============================================================================
