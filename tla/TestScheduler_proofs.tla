------------------------ MODULE TestScheduler_proofs ------------------------
(***************************************************************************)
(* Theorems about TestScheduler for any number of tests, any build groups, *)
(* any pool and any options.                                               *)
(***************************************************************************)
EXTENDS TestScheduler, FiniteSetTheorems, TLAPS

(* Any set of processors of threads is finite and its size is a number. *)
LEMMA SlotsFinite ==
  ASSUME NEW H, H \subseteq Tests \X (1 .. ProcPool)
  PROVE  /\ IsFiniteSet(H)
         /\ Cardinality(H) \in Nat
<1>1. IsFiniteSet(Tests) /\ IsFiniteSet(1 .. ProcPool)
  BY FS_Interval, TestsAssumption, ResourceAssumption DEF Tests
<1>2. IsFiniteSet(Tests \X (1 .. ProcPool))
  BY <1>1, FS_Product
<1> QED
  BY <1>2, FS_Subset, FS_CardinalityType

(* The threads in flight are finitely many. *)
LEMMA InFlightFinite ==
  /\ IsFiniteSet(in_flight)
  /\ Cardinality(in_flight) \in Nat
<1>1. IsFiniteSet(Tests)
  BY FS_Interval, TestsAssumption DEF Tests
<1>2. in_flight \subseteq Tests
  BY DEF in_flight
<1> QED
  BY <1>1, <1>2, FS_Subset, FS_CardinalityType

(* The processors of one thread: as many pairs as it holds. *)
LEMMA OneThread ==
  ASSUME NEW t, NEW n \in Nat
  PROVE  /\ IsFiniteSet({t} \X (1 .. n))
         /\ Cardinality({t} \X (1 .. n)) = n
<1>1. IsFiniteSet({t}) /\ Cardinality({t}) = 1
  BY FS_Singleton
<1>2. IsFiniteSet(1 .. n) /\ Cardinality(1 .. n) = n
  BY FS_Interval
<1>3. /\ IsFiniteSet({t} \X (1 .. n))
      /\ Cardinality({t} \X (1 .. n)) = Cardinality({t}) * Cardinality(1 .. n)
  BY <1>1, <1>2, FS_Product
<1> QED
  BY <1>1, <1>2, <1>3

(* What a phase needs is a positive number of processors. *)
LEMMA NeededType ==
  ASSUME TypeOK, NEW t \in Tests, NEW phase
  PROVE  ProcsNeeded(t, phase) \in Nat \ {0}
  BY ResourceAssumption DEF ProcsNeeded, TypeOK, NotYet

(* A scheduler that has a RUN phase ends with it. *)
LEMMA RunIsLast == RUN_PHASE \in Phases => LastPhase = RUN_PHASE
  BY OptionAssumption DEF Phases, INIT, XML_PHASE, SETUP_PHASE, MODEL_BUILD_PHASE, RUN_PHASE

(* The phase after one that is not the last is a phase. *)
LEMMA NextPhaseType ==
  ASSUME NEW phase \in Phases, phase # LastPhase
  PROVE  NextPhase(phase) \in Phases
  BY OptionAssumption DEF NextPhase, Phases, INIT, XML_PHASE, SETUP_PHASE,
     MODEL_BUILD_PHASE, RUN_PHASE, SUBMIT_PHASE

(* set_status yields a TestStatus file. *)
LEMMA SetStatusType ==
  ASSUME NEW ts \in [CORE_PHASES -> FileStatuses], NEW phase, NEW status \in Statuses
  PROVE  SetStatus(ts, phase, status) \in [CORE_PHASES -> FileStatuses]
  BY DEF SetStatus, FileStatuses, Statuses, NoStatus

-----------------------------------------------------------------------------
(* The part of Throttled that limits the number of threads. *)
FewThreads == Cardinality(in_flight) <= ParallelJobs

(* The part of Throttled that runs sharedlib builds one at a time. *)
OneSharedlib ==
  ~IsE3SM => \A t, u \in in_flight :
    threads[t].phase = SHAREDLIB_BUILD_PHASE /\ threads[u].phase = SHAREDLIB_BUILD_PHASE => t = u

(* Only a scheduler that has a RUN phase submits from within a consumer. *)
ChainsToRun == \A t \in Tests : threads[t].pc = "chain" => LastPhase = RUN_PHASE

(* The inductive invariant: what is accounted for, what limits a launch,   *)
(* and what the nested consumer relies on.                                 *)
Inv == TypeOK /\ ProcsAccounted /\ FewThreads /\ OneSharedlib /\ ChainsToRun

LEMMA InitInv == Init => Inv
<1> SUFFICES ASSUME Init PROVE Inv
  OBVIOUS
<1> USE TestsAssumption, ResourceAssumption, OptionAssumption
<1>1. INIT \in Phases
  BY DEF INIT, Phases, XML_PHASE, SETUP_PHASE, MODEL_BUILD_PHASE, RUN_PHASE, SUBMIT_PHASE
<1>2. \A last : \A next \in FileStatuses :
        PassedUpTo(last, next) \in [CORE_PHASES -> FileStatuses]
  BY DEF PassedUpTo, FileStatuses, Statuses, NoStatus
<1>3. \A ts \in [CORE_PHASES -> FileStatuses] : Resumed(ts) \in [CORE_PHASES -> FileStatuses]
  BY DEF Resumed, FileStatuses, Statuses
<1>4. \A last \in INIT .. LastPhase : ResumedAt(last) \in Phases
  BY DEF ResumedAt, INIT, Phases, XML_PHASE, SETUP_PHASE, MODEL_BUILD_PHASE, RUN_PHASE, SUBMIT_PHASE
<1>5. file \in [Tests -> [CORE_PHASES -> FileStatuses]]
  <2>1. CASE ~UseExisting
    BY <2>1, <1>2 DEF Init, FileStatuses, Statuses, NoStatus
  <2>2. CASE UseExisting
    <3>1. PICK last \in [Tests -> INIT .. LastPhase], next \in {"PEND", "FAIL"} :
            file = [t \in Tests |-> Resumed(PassedUpTo(last[t], next))]
      BY <2>2 DEF Init
    <3>2. \A t \in Tests : PassedUpTo(last[t], next) \in [CORE_PHASES -> FileStatuses]
      BY <1>2 DEF FileStatuses, Statuses
    <3> QED
      BY <3>1, <3>2, <1>3
  <2> QED
    BY <2>1, <2>2
<1>6. tests \in [Tests -> [phase : Phases, status : Statuses]]
  <2>1. CASE ~UseExisting
    BY <2>1, <1>1 DEF Init, Statuses
  <2>2. CASE UseExisting
    <3>1. PICK last \in [Tests -> INIT .. LastPhase] :
            tests = [t \in Tests |-> [phase |-> ResumedAt(last[t]), status |-> "PASS"]]
      BY <2>2 DEF Init
    <3> QED
      BY <3>1, <1>4 DEF Statuses
  <2> QED
    BY <2>1, <2>2
<1>7. NoThread \in Threads
  BY <1>1 DEF NoThread, Threads
<1>8. TypeOK
  BY <1>5, <1>6, <1>7 DEF Init, TypeOK, Producer, ProducerPCs, NewScan
<1>9. in_flight = {} /\ Held(in_flight) = {}
  BY DEF Init, in_flight, Held, NoThread
<1>10. ProcsAccounted /\ FewThreads /\ OneSharedlib /\ ChainsToRun
  <2>1. Cardinality({}) = 0
    BY FS_EmptySet
  <2>2. Cardinality(in_flight) = 0 /\ Cardinality(Held(in_flight)) = 0
    BY <1>9, <2>1
  <2> QED
    BY <1>9, <2>2, ResourceAssumption
       DEF Init, ProcsAccounted, FewThreads, OneSharedlib, ChainsToRun, NoThread
<1> QED
  BY <1>8, <1>10 DEF Inv

(* Steps of the producer that only move it keep everything. *)
ProducerMoves ==
  /\ producer' \in Producer
  /\ UNCHANGED <<tests, procs_avail, model_build_cost, exeroots, threads, file, submits>>

LEMMA MovesInv == Inv /\ ProducerMoves => Inv'
  BY DEF Inv, ProducerMoves, TypeOK, ProcsAccounted, FewThreads, OneSharedlib, ChainsToRun,
         in_flight, Held

LEMMA MovedType ==
  ASSUME TypeOK, NEW t \in Tests, AtTest(t), NEW l \in BOOLEAN, NEW w \in BOOLEAN, Moved(l, w)
  PROVE  producer' \in Producer
<1>1. producer.at + 1 \in 1 .. NumTests + 1
  BY TestsAssumption DEF AtTest, Tests
<1>2. producer \in [pc : ProducerPCs, at : 1 .. NumTests + 1, work : BOOLEAN, launched : BOOLEAN]
  BY DEF TypeOK, Producer
<1>3. (producer.launched \/ l) \in BOOLEAN /\ (producer.work \/ w) \in BOOLEAN
  BY <1>2
<1> QED
  BY <1>1, <1>2, <1>3 DEF Moved, Producer

LEMMA QuietSteps ==
  ASSUME Inv,
         \/ \E t \in Tests : Skip(t) \/ Full(t) \/ Abort(t) \/ Defer(t)
         \/ EndScan \/ Join \/ WaitForTests
  PROVE  ProducerMoves
<1> USE DEF Inv
<1>1. ASSUME NEW t \in Tests, Skip(t) PROVE ProducerMoves
  BY <1>1, MovedType DEF Skip, ProducerMoves, WorkRemains
<1>2. ASSUME NEW t \in Tests, Full(t) PROVE ProducerMoves
  <2>1. NumTests + 1 \in 1 .. NumTests + 1
    BY TestsAssumption
  <2> QED
    BY <1>2, <2>1 DEF Full, ProducerMoves, TypeOK, Producer
<1>3. ASSUME NEW t \in Tests, Abort(t) PROVE ProducerMoves
  BY <1>3 DEF Abort, ProducerMoves, TypeOK, Producer, ProducerPCs
<1>4. ASSUME NEW t \in Tests, Defer(t) PROVE ProducerMoves
  BY <1>4, MovedType DEF Defer, Ready, ProducerMoves
<1>5. NewScan \in Producer
  BY TestsAssumption DEF NewScan, Producer, ProducerPCs
<1>6. ASSUME EndScan PROVE ProducerMoves
  BY <1>5, <1>6 DEF EndScan, ProducerMoves, TypeOK, Producer, ProducerPCs
<1>7. ASSUME Join PROVE ProducerMoves
  BY <1>7 DEF Join, ProducerMoves, TypeOK, Producer, ProducerPCs
<1>8. ASSUME WaitForTests PROVE ProducerMoves
  BY <1>8 DEF WaitForTests, ProducerMoves, TypeOK, Producer, ProducerPCs
<1> QED
  BY <1>1, <1>2, <1>3, <1>4, <1>6, <1>7, <1>8

(* Launching takes the processors of one more thread from the pool. *)
LEMMA LaunchInv ==
  ASSUME Inv, NEW t \in Tests, Launch(t)
  PROVE  Inv'
<1> DEFINE next_phase == NextPhase(tests[t].phase)
           needed     == ProcsNeeded(t, next_phase)
<1> USE DEF Inv
<1>1. /\ needed \in Nat \ {0}
      /\ needed <= procs_avail
      /\ procs_avail \in 0 .. ProcPool
  BY NeededType DEF Launch, Enough, TypeOK
<1>2. next_phase \in Phases
  BY NextPhaseType DEF Launch, Ready, WorkRemains, TypeOK
<1>3. /\ threads' = [threads EXCEPT ![t] =
             [pc |-> "phase", phase |-> next_phase, procs |-> needed, success |-> FALSE]]
      /\ threads \in [Tests -> Threads]
      /\ t \notin in_flight
  BY DEF Launch, Ready, TypeOK
<1>4. procs_avail' = procs_avail - needed
  BY DEF Launch
<1>5. TypeOK'
  <2>1. threads' \in [Tests -> Threads]
    BY <1>1, <1>2, <1>3, ResourceAssumption DEF Threads
  <2>2. tests' \in [Tests -> [phase : Phases, status : Statuses]]
    BY <1>2 DEF Launch, TypeOK, Statuses
  <2>3. producer' \in Producer
    BY MovedType DEF Launch, Ready
  <2>4. procs_avail' \in 0 .. ProcPool
    BY <1>1, <1>4, ResourceAssumption
  <2> QED
    BY <2>1, <2>2, <2>3, <2>4 DEF TypeOK, Launch
<1>6. in_flight' = in_flight \cup {t}
  BY <1>3 DEF in_flight
<1>7. /\ Held(in_flight)' = Held(in_flight) \cup ({t} \X (1 .. needed))
      /\ Held(in_flight) \cap ({t} \X (1 .. needed)) = {}
  <2>1. \A k \in 1 .. needed : k \in 1 .. ProcPool
    BY <1>1, ResourceAssumption
  <2>2. \A k \in 1 .. ProcPool : k <= needed <=> k \in 1 .. needed
    BY <1>1, ResourceAssumption
  <2> QED
    BY <1>3, <1>6, <2>1, <2>2 DEF Held
<1>8. ProcsAccounted'
  <2>1. /\ IsFiniteSet(Held(in_flight))
        /\ Cardinality(Held(in_flight)) \in Nat
    BY SlotsFinite DEF Held
  <2>2. /\ IsFiniteSet({t} \X (1 .. needed))
        /\ Cardinality({t} \X (1 .. needed)) = needed
    BY <1>1, OneThread
  <2>3. Cardinality(Held(in_flight)') = Cardinality(Held(in_flight)) + needed - Cardinality({})
    BY <1>7, <2>1, <2>2, FS_Union
  <2>4. Cardinality({}) = 0
    BY FS_EmptySet
  <2> QED
    BY <1>1, <1>4, <2>1, <2>3, <2>4, ResourceAssumption DEF ProcsAccounted
<1>9. FewThreads'
  <2>1. Cardinality(in_flight') = Cardinality(in_flight) + 1
    BY <1>3, <1>6, InFlightFinite, FS_AddElement
  <2>2. Cardinality(in_flight) # ParallelJobs
    BY DEF Launch, Ready, WorkersFull
  <2> QED
    BY <2>1, <2>2, InFlightFinite, ResourceAssumption DEF FewThreads
<1>10. OneSharedlib'
  <2> SUFFICES ASSUME ~IsE3SM, next_phase = SHAREDLIB_BUILD_PHASE,
                      NEW u \in in_flight, threads[u].phase = SHAREDLIB_BUILD_PHASE
               PROVE  FALSE
    BY <1>3, <1>6 DEF OneSharedlib, in_flight
  <2>1. /\ IsFirst(t)
        /\ SHAREDLIB_BUILD_PHASE # RUN_PHASE
        /\ SHAREDLIB_BUILD_PHASE # MODEL_BUILD_PHASE
    BY TestsAssumption DEF IsFirst, SHAREDLIB_BUILD_PHASE, RUN_PHASE, MODEL_BUILD_PHASE
  <2>2. ProcsNeeded(t, SHAREDLIB_BUILD_PHASE) = NotYet
    BY <2>1 DEF ProcsNeeded
  <2> QED
    BY <1>1, <2>2, ResourceAssumption DEF NotYet
<1>11. ChainsToRun'
  BY <1>3 DEF ChainsToRun
<1> QED
  BY <1>5, <1>8, <1>9, <1>10, <1>11

(* A refusal touches no thread and no processor. *)
LEMMA RefuseInv ==
  ASSUME Inv, NEW t \in Tests, Refuse(t)
  PROVE  Inv'
<1> USE DEF Inv
<1>1. NextPhase(tests[t].phase) \in Phases
  BY NextPhaseType DEF Refuse, Ready, WorkRemains, TypeOK
<1>2. producer' \in Producer
  <2>1. CASE Moved(TRUE, TRUE)
    BY <2>1, MovedType DEF Refuse, Ready
  <2>2. CASE producer' = [producer EXCEPT !.pc = "aborted"]
    BY <2>2 DEF TypeOK, Producer, ProducerPCs
  <2> QED
    BY <2>1, <2>2 DEF Refuse
<1>3. file' \in [Tests -> [CORE_PHASES -> FileStatuses]]
  <2> DEFINE marked == IF NextPhase(tests[t].phase) = RUN_PHASE
                       THEN SetStatus(SetStatus(file[t], SUBMIT_PHASE, "PASS"), RUN_PHASE, "FAIL")
                       ELSE SetStatus(file[t], NextPhase(tests[t].phase), "FAIL")
  <2>1. file[t] \in [CORE_PHASES -> FileStatuses]
    BY DEF TypeOK
  <2>2. "PASS" \in Statuses /\ "FAIL" \in Statuses
    BY DEF Statuses
  <2>3. marked \in [CORE_PHASES -> FileStatuses]
    BY <2>1, <2>2, SetStatusType
  <2>4. file' = file \/ file' = [file EXCEPT ![t] = marked]
    BY DEF Refuse, TypeOK
  <2> QED
    BY <2>3, <2>4 DEF TypeOK
<1>4. tests' \in [Tests -> [phase : Phases, status : Statuses]]
  BY <1>1 DEF Refuse, TypeOK, Statuses
<1> QED
  BY <1>2, <1>3, <1>4
     DEF Refuse, TypeOK, ProcsAccounted, FewThreads, OneSharedlib, ChainsToRun,
         in_flight, Held

(* Reaping gives back what the finished threads held, no more and no less. *)
LEMMA ReapInv ==
  ASSUME Inv, Reap
  PROVE  Inv'
<1> DEFINE finished == {t \in Tests : threads[t].pc = "dead"}
<1> USE DEF Inv
<1>1. /\ threads' = [t \in Tests |-> IF t \in finished THEN NoThread ELSE threads[t]]
      /\ procs_avail' = procs_avail + Cardinality(Held(finished))
      /\ threads \in [Tests -> Threads]
      /\ procs_avail \in 0 .. ProcPool
  BY DEF Reap, GivenBack, TypeOK
<1>2. finished \subseteq in_flight /\ in_flight' = in_flight \ finished
  BY <1>1 DEF in_flight, NoThread
<1>3. /\ Held(finished) \subseteq Held(in_flight)
      /\ Held(in_flight)' = Held(in_flight) \ Held(finished)
  BY <1>1, <1>2 DEF Held
<1>4. /\ IsFiniteSet(Held(in_flight))
      /\ Cardinality(Held(in_flight)) \in Nat
      /\ Cardinality(Held(finished)) \in Nat
      /\ Cardinality(Held(in_flight)') \in Nat
  BY SlotsFinite, <1>3 DEF Held
<1>5. Cardinality(Held(in_flight)')
        = Cardinality(Held(in_flight)) - Cardinality(Held(finished))
  <2>1. Held(in_flight) \cap Held(finished) = Held(finished)
    BY <1>3
  <2> QED
    BY <1>3, <1>4, <2>1, FS_Difference
<1>6. ProcsAccounted'
  BY <1>1, <1>4, <1>5, ResourceAssumption DEF ProcsAccounted
<1>7. procs_avail' \in 0 .. ProcPool
  BY <1>1, <1>4, <1>6, ResourceAssumption DEF ProcsAccounted
<1>8. TypeOK'
  <2>1. NoThread \in Threads
    BY ResourceAssumption, OptionAssumption
       DEF NoThread, Threads, Phases, INIT, XML_PHASE, SETUP_PHASE, MODEL_BUILD_PHASE,
           RUN_PHASE, SUBMIT_PHASE
  <2>2. threads' \in [Tests -> Threads]
    BY <1>1, <2>1
  <2>3. producer' \in Producer
    BY TestsAssumption DEF Reap, NewScan, Producer, ProducerPCs
  <2> QED
    BY <1>7, <2>2, <2>3 DEF Reap, TypeOK
<1>9. FewThreads'
  <2>1. Cardinality(in_flight') <= Cardinality(in_flight) /\ Cardinality(in_flight') \in Nat
    BY <1>2, InFlightFinite, FS_Subset, FS_CardinalityType
  <2> QED
    BY <2>1, InFlightFinite, ResourceAssumption DEF FewThreads
<1>10. OneSharedlib' /\ ChainsToRun'
  BY <1>1, <1>2 DEF OneSharedlib, ChainsToRun, in_flight, NoThread
<1> QED
  BY <1>6, <1>8, <1>9, <1>10
-----------------------------------------------------------------------------
(* A consumer keeps its thread in flight, with the processors it holds.    *)
ConsumerMoves(t) ==
  /\ t \in in_flight
  /\ \E pc \in {"phase", "finish", "chain", "dead"}, success \in BOOLEAN,
        phase \in {threads[t].phase} \cup {p \in Phases : p = RUN_PHASE} :
       /\ pc = "chain" => LastPhase = RUN_PHASE
       /\ threads' = [threads EXCEPT ![t].pc = pc, ![t].phase = phase, ![t].success = success]
  /\ UNCHANGED <<procs_avail, producer>>

LEMMA ConsumerMovesInv ==
  ASSUME Inv, NEW t \in Tests, ConsumerMoves(t)
  PROVE  /\ threads' \in [Tests -> Threads]
         /\ in_flight' = in_flight
         /\ ProcsAccounted' /\ FewThreads' /\ OneSharedlib' /\ ChainsToRun'
<1> USE DEF Inv
<1>1. PICK pc \in {"phase", "finish", "chain", "dead"}, success \in BOOLEAN,
           phase \in {threads[t].phase} \cup {p \in Phases : p = RUN_PHASE} :
        /\ pc = "chain" => LastPhase = RUN_PHASE
        /\ threads' = [threads EXCEPT ![t].pc = pc, ![t].phase = phase, ![t].success = success]
  BY DEF ConsumerMoves
<1>2. threads \in [Tests -> Threads]
  BY DEF TypeOK
<1>3. /\ threads'[t].pc = pc
      /\ threads'[t].phase = phase
      /\ threads'[t].procs = threads[t].procs
      /\ \A u \in Tests \ {t} : threads'[u] = threads[u]
  BY <1>1, <1>2 DEF Threads
<1>4. threads' \in [Tests -> Threads]
  <2>1. phase \in Phases
    BY <1>1, <1>2 DEF Threads
  <2> DEFINE moved == [threads[t] EXCEPT !.pc = pc, !.phase = phase, !.success = success]
  <2>2. moved \in Threads
    BY <1>2, <2>1 DEF Threads
  <2>3. threads' = [threads EXCEPT ![t] = moved]
    BY <1>1, <1>2 DEF Threads
  <2> HIDE DEF moved
  <2> QED
    BY <1>2, <2>2, <2>3
<1>5. \A u \in Tests : threads'[u].procs = threads[u].procs
  BY <1>2, <1>3
<1>6. in_flight' = in_flight
  BY <1>2, <1>3 DEF ConsumerMoves, in_flight
<1>7. Held(in_flight)' = Held(in_flight)
  BY <1>5, <1>6 DEF Held
<1>8. \A u \in Tests : threads'[u].phase \in {threads[u].phase, RUN_PHASE}
  BY <1>2, <1>3
<1>9. OneSharedlib'
  BY <1>6, <1>8 DEF OneSharedlib, in_flight, SHAREDLIB_BUILD_PHASE, RUN_PHASE
<1>10. ChainsToRun'
  BY <1>1, <1>2, <1>3 DEF ChainsToRun
<1> QED
  BY <1>4, <1>6, <1>7, <1>9, <1>10 DEF ConsumerMoves, ProcsAccounted, FewThreads

(* What a phase's command leaves in a TestStatus file is one. *)
LEMMA RanPhaseType ==
  ASSUME NEW ts \in [CORE_PHASES -> FileStatuses], NEW phase, NEW status \in Statuses
  PROVE  /\ RanPhase(ts, phase, status) \in [CORE_PHASES -> FileStatuses]
         /\ Submitting(ts) \in [CORE_PHASES -> FileStatuses]
<1>1. "PEND" \in Statuses /\ "PASS" \in Statuses
  BY DEF Statuses
<1> QED
  BY <1>1, SetStatusType DEF RanPhase, Submitting

(* Every step of a consumer is such a move. *)
LEMMA PhaseSteps ==
  ASSUME Inv, NEW t \in Tests, ConsumerNext(t)
  PROVE  ConsumerMoves(t)
<1> USE DEF Inv
<1>1. /\ threads \in [Tests -> Threads]
      /\ threads[t] \in Threads
  BY DEF TypeOK
<1>2. ASSUME threads[t].pc = "phase", NEW success \in BOOLEAN, Called(t, success),
             UNCHANGED <<procs_avail, producer>>
      PROVE  ConsumerMoves(t)
  <2>1. threads' = [threads EXCEPT ![t].pc = "finish", ![t].phase = threads[t].phase,
                                   ![t].success = success]
    BY <1>1, <1>2 DEF Called, Threads
  <2> QED
    BY <1>1, <1>2, <2>1 DEF ConsumerMoves, in_flight, Threads
<1>3. ASSUME threads[t].pc # "none", NEW pc \in {"chain", "dead"},
             pc = "chain" => LastPhase = RUN_PHASE,
             threads' = [threads EXCEPT ![t].pc = pc],
             UNCHANGED <<procs_avail, producer>>
      PROVE  ConsumerMoves(t)
  <2>1. threads' = [threads EXCEPT ![t].pc = pc, ![t].phase = threads[t].phase,
                                   ![t].success = threads[t].success]
    BY <1>1, <1>3 DEF Threads
  <2> QED
    BY <1>1, <1>3, <2>1 DEF ConsumerMoves, in_flight, Threads
<1>4. CASE CreateNewcase(t)
  BY <1>4, <1>2 DEF CreateNewcase, InPhase
<1>5. CASE Xml(t)
  BY <1>5, <1>2 DEF Xml, InPhase
<1>6. CASE XmlFails(t)
  BY <1>6, <1>2 DEF XmlFails, InPhase
<1>7. CASE Setup(t)
  BY <1>7, <1>2 DEF Setup, InPhase
<1>8. CASE Build(t)
  BY <1>8, <1>2 DEF Build, InPhase
<1>9. CASE TakeBuild(t)
  BY <1>9, <1>2 DEF TakeBuild, InPhase
<1>10. CASE SkipRun(t)
  BY <1>10, <1>2 DEF SkipRun, InPhase
<1>11. CASE RunHere(t)
  BY <1>11, <1>2 DEF RunHere, InPhase
<1>12. CASE Submit(t)
  BY <1>12, <1>2 DEF Submit, InPhase
<1>13. CASE SubmitFails(t)
  BY <1>13, <1>2 DEF SubmitFails, InPhase
<1>14. CASE Die(t)
  BY <1>14, <1>3 DEF Die
<1>15. CASE Finish(t)
  BY <1>15, <1>3 DEF Finish, SubmitsNow
<1>16. CASE Chain(t)
  <2>1. CASE CanUpdate(t, RUN_PHASE, "PEND")
    <3>1. LastPhase = RUN_PHASE
      BY <1>16 DEF Chain, ChainsToRun
    <3>2. RUN_PHASE \in Phases
      BY <3>1 DEF Phases, INIT, RUN_PHASE, SUBMIT_PHASE
    <3>3. threads' = [threads EXCEPT ![t].pc = "phase", ![t].phase = RUN_PHASE,
                                     ![t].success = FALSE]
      BY <1>16, <2>1 DEF Chain
    <3> QED
      BY <1>1, <1>16, <3>2, <3>3 DEF ConsumerMoves, in_flight, Chain
  <2>2. CASE ~CanUpdate(t, RUN_PHASE, "PEND")
    BY <1>16, <2>2, <1>3 DEF Chain
  <2> QED
    BY <2>1, <2>2
<1> QED
  BY <1>4, <1>5, <1>6, <1>7, <1>8, <1>9, <1>10, <1>11, <1>12, <1>13, <1>14, <1>15, <1>16
     DEF ConsumerNext

(* _update_test_status with a phase and a status of their types. *)
LEMMA UpdatedType ==
  ASSUME tests \in [Tests -> [phase : Phases, status : Statuses]],
         NEW t \in Tests, NEW p \in Phases, NEW s \in Statuses
  PROVE  [tests EXCEPT ![t] = [phase |-> p, status |-> s]]
           \in [Tests -> [phase : Phases, status : Statuses]]
  OBVIOUS

LEMMA ConsumerInv ==
  ASSUME Inv, NEW t \in Tests, ConsumerNext(t)
  PROVE  Inv'
<1> USE DEF Inv
<1>1. ConsumerMoves(t)
  BY PhaseSteps
<1>2. /\ threads' \in [Tests -> Threads]
      /\ ProcsAccounted' /\ FewThreads' /\ OneSharedlib' /\ ChainsToRun'
  BY <1>1, ConsumerMovesInv
<1>3. /\ tests \in [Tests -> [phase : Phases, status : Statuses]]
      /\ file \in [Tests -> [CORE_PHASES -> FileStatuses]]
      /\ file[t] \in [CORE_PHASES -> FileStatuses]
      /\ threads[t] \in Threads
      /\ submits \in [Tests -> [queued : BOOLEAN, count : Nat]]
  BY DEF TypeOK
<1>4. "PASS" \in Statuses /\ "FAIL" \in Statuses /\ "PEND" \in Statuses
  BY DEF Statuses
<1>5. tests' \in [Tests -> [phase : Phases, status : Statuses]]
  <2>1. CASE Finish(t)
    <3>1. threads[t].phase \in Phases /\ FinalStatus(t) \in Statuses
      BY <1>3, <1>4 DEF Threads, FinalStatus
    <3>2. \/ tests' = tests
          \/ tests' = [tests EXCEPT ![t] = [phase |-> threads[t].phase, status |-> FinalStatus(t)]]
      BY <2>1 DEF Finish
    <3> QED
      BY <1>3, <3>1, <3>2, UpdatedType
  <2>2. CASE Chain(t)
    <3>1. RUN_PHASE \in Phases
      BY <2>2 DEF Chain, ChainsToRun, Phases, INIT, RUN_PHASE, SUBMIT_PHASE
    <3>2. \/ tests' = tests
          \/ tests' = [tests EXCEPT ![t] = [phase |-> RUN_PHASE, status |-> "PEND"]]
      BY <2>2 DEF Chain
    <3> QED
      BY <1>3, <1>4, <3>1, <3>2, UpdatedType
  <2>3. CASE ~Finish(t) /\ ~Chain(t)
    <3>1. UNCHANGED tests
      BY <2>3 DEF ConsumerNext, CreateNewcase, Xml, XmlFails, Setup, Build, TakeBuild, SkipRun,
                  RunHere, Submit, SubmitFails, Die
    <3> QED
      BY <1>3, <3>1
  <2> QED
    BY <2>1, <2>2, <2>3
<1>6. file' \in [Tests -> [CORE_PHASES -> FileStatuses]]
  <2>1. CASE file' = file
    BY <1>3, <2>1
  <2>2. CASE \E ts \in [CORE_PHASES -> FileStatuses] : file' = [file EXCEPT ![t] = ts]
    BY <1>3, <2>2
  <2>3. CASE Setup(t)
    BY <1>3, <1>4, <2>2, <2>3, SetStatusType DEF Setup
  <2>4. CASE Build(t)
    BY <1>3, <1>4, <2>2, <2>4, RanPhaseType DEF Build
  <2>5. CASE SkipRun(t)
    <3>1. SetStatus(SetStatus(file[t], SUBMIT_PHASE, "PASS"), RUN_PHASE, "PASS")
            \in [CORE_PHASES -> FileStatuses]
      BY <1>3, <1>4, SetStatusType
    <3> QED
      BY <1>3, <2>2, <2>5, <3>1 DEF SkipRun
  <2>6. CASE RunHere(t)
    <3>1. \A status \in Statuses :
            RanPhase(Submitting(file[t]), RUN_PHASE, status) \in [CORE_PHASES -> FileStatuses]
      BY <1>3, <1>4, RanPhaseType
    <3> QED
      BY <1>3, <1>4, <2>2, <2>6, <3>1 DEF RunHere
  <2>7. CASE Submit(t)
    BY <1>3, <1>4, <2>2, <2>7, RanPhaseType DEF Submit
  <2>8. CASE SubmitFails(t)
    <3>1. SetStatus(Submitting(file[t]), SUBMIT_PHASE, "FAIL") \in [CORE_PHASES -> FileStatuses]
      BY <1>3, <1>4, SetStatusType, RanPhaseType
    <3> QED
      BY <1>3, <2>2, <2>8, <3>1 DEF SubmitFails
  <2>9. CASE Finish(t)
    <3>1. FinalStatus(t) \in Statuses
      BY <1>4 DEF FinalStatus
    <3>2. SetStatus(file[t], threads[t].phase, FinalStatus(t)) \in [CORE_PHASES -> FileStatuses]
      BY <1>3, <3>1, SetStatusType
    <3> QED
      BY <1>3, <2>1, <2>2, <2>9, <3>2 DEF Finish
  <2> QED
    BY <2>1, <2>3, <2>4, <2>5, <2>6, <2>7, <2>8, <2>9
       DEF ConsumerNext, CreateNewcase, Xml, XmlFails, TakeBuild, Die, Chain
<1>7. model_build_cost' \in 1 .. ModelBuildCost /\ exeroots' \subseteq Tests
  <2>1. CASE Xml(t)
    <3>1. FirstOf[t] \in Tests
      BY TestsAssumption
    <3>2. model_build_cost \in 1 .. ModelBuildCost /\ exeroots \subseteq Tests
      BY DEF TypeOK
    <3>3. \/ model_build_cost' = model_build_cost
          \/ model_build_cost' = ProcPool /\ model_build_cost > ProcPool
      BY <2>1 DEF Xml
    <3>4. exeroots' \subseteq exeroots \cup {FirstOf[t]}
      BY <2>1 DEF Xml
    <3> QED
      BY <3>1, <3>2, <3>3, <3>4, ResourceAssumption
  <2>2. CASE ~Xml(t)
    <3>1. UNCHANGED <<model_build_cost, exeroots>>
      BY <2>2 DEF ConsumerNext, CreateNewcase, XmlFails, Setup, Build, TakeBuild, SkipRun,
                  RunHere, Submit, SubmitFails, Die, Finish, Chain
    <3> QED
      BY <3>1 DEF TypeOK
  <2> QED
    BY <2>1, <2>2
<1>8. submits' \in [Tests -> [queued : BOOLEAN, count : Nat]]
  <2>1. CASE Submit(t)
    BY <1>3, <2>1 DEF Submit
  <2>2. CASE ~Submit(t)
    <3>1. UNCHANGED submits
      BY <2>2 DEF ConsumerNext, CreateNewcase, Xml, XmlFails, Setup, Build, TakeBuild, SkipRun,
                  RunHere, SubmitFails, Die, Finish, Chain
    <3> QED
      BY <1>3, <3>1
  <2> QED
    BY <2>1, <2>2
<1>9. UNCHANGED <<procs_avail, producer>>
  BY <1>1 DEF ConsumerMoves
<1> QED
  BY <1>2, <1>5, <1>6, <1>7, <1>8, <1>9 DEF TypeOK

(* A job of the batch system touches only its file and its place there.    *)
LEMMA BatchJobInv ==
  ASSUME Inv, NEW t \in Tests, BatchJob(t)
  PROVE  Inv'
<1> USE DEF Inv
<1>1. file' \in [Tests -> [CORE_PHASES -> FileStatuses]]
  <2>1. PICK status \in Statuses : file' = [file EXCEPT ![t] = RanPhase(file[t], RUN_PHASE, status)]
    BY DEF BatchJob, Statuses, TypeOK
  <2>2. file[t] \in [CORE_PHASES -> FileStatuses]
    BY DEF TypeOK
  <2> QED
    BY <2>1, <2>2, RanPhaseType DEF TypeOK
<1>2. submits' \in [Tests -> [queued : BOOLEAN, count : Nat]]
  BY DEF BatchJob, TypeOK
<1> QED
  BY <1>1, <1>2
     DEF BatchJob, TypeOK, ProcsAccounted, FewThreads, OneSharedlib, ChainsToRun, in_flight, Held

LEMMA NextInv == Inv /\ [Next]_vars => Inv'
<1> SUFFICES ASSUME Inv, [Next]_vars PROVE Inv'
  OBVIOUS
<1>1. CASE ProducerNext
  BY <1>1, QuietSteps, MovesInv, LaunchInv, RefuseInv, ReapInv DEF ProducerNext
<1>2. CASE \E t \in Tests : ConsumerNext(t) \/ BatchJob(t)
  BY <1>2, ConsumerInv, BatchJobInv
<1>3. CASE UNCHANGED vars
  BY <1>3 DEF vars, Inv, TypeOK, ProcsAccounted, FewThreads, OneSharedlib, ChainsToRun,
              in_flight, Held
<1> QED
  BY <1>1, <1>2, <1>3 DEF Next

LEMMA AlwaysInv == Spec => []Inv
<1> QED
  BY InitInv, NextInv, PTL DEF Spec

(* Every variable of the scheduler always has its type: procs_avail stays  *)
(* within the pool, whatever the tests, the pool and the options.          *)
THEOREM TypeCorrect == Spec => []TypeOK
<1>1. Inv => TypeOK
  BY DEF Inv
<1> QED
  BY <1>1, AlwaysInv, PTL

(* No launch, chained submission, death of a thread or reaping loses or    *)
(* invents a processor of _proc_pool.                                      *)
THEOREM ProcsConserved == Spec => []ProcsAccounted
<1>1. Inv => ProcsAccounted
  BY DEF Inv
<1> QED
  BY <1>1, AlwaysInv, PTL

(* There are never more consumers than _parallel_jobs, nor, outside e3sm,  *)
(* two sharedlib builds at a time.                                         *)
THEOREM AlwaysThrottled == Spec => []Throttled
<1>1. Inv => Throttled
  BY DEF Inv, Throttled, FewThreads, OneSharedlib
<1> QED
  BY <1>1, AlwaysInv, PTL

-----------------------------------------------------------------------------
(* What the scheduler believes of a test agrees with its TestStatus file.  *)

(* The phases up to the build that a test has passed are passed in its     *)
(* file; a RUN phase leaves the file to case.submit and the test itself.   *)
PassedInFile(t, phase) ==
  \A p \in CREATE_NEWCASE_PHASE .. MODEL_BUILD_PHASE : p <= phase => file[t][p] = "PASS"

PhaseBefore(phase) == IF phase = RUN_PHASE THEN MODEL_BUILD_PHASE ELSE phase - 1

(* A test whose phase is being run is pending there; one that is about to  *)
(* be submitted by its consumer has just passed its build.                 *)
InMemory(t) ==
  /\ threads[t].pc \in {"phase", "finish"} =>
       tests[t].phase = threads[t].phase /\ tests[t].status = "PEND"
  /\ threads[t].pc = "chain" =>
       tests[t].phase = MODEL_BUILD_PHASE /\ tests[t].status = "PASS"

OnFile(t) ==
  /\ tests[t].status = "PASS" => PassedInFile(t, tests[t].phase)
  /\ threads[t].pc = "phase" => PassedInFile(t, PhaseBefore(threads[t].phase))
  /\ threads[t].pc = "finish" =>
       IF WritesFile(t) THEN PassedInFile(t, threads[t].phase - 1)
       ELSE threads[t].success => PassedInFile(t, threads[t].phase)

Agree == \A t \in Tests : InMemory(t) /\ OnFile(t)

(* set_status changes nothing before the phase it sets. *)
LEMMA SetStatusKeeps ==
  ASSUME NEW ts \in [CORE_PHASES -> FileStatuses], NEW phase \in CORE_PHASES,
         NEW status \in Statuses
  PROVE  /\ SetStatus(ts, phase, status)[phase] = status
         /\ \A q \in CORE_PHASES : q < phase => SetStatus(ts, phase, status)[q] = ts[q]
<1> DEFINE new(q) == CASE q = phase -> status
                       [] /\ q = phase + 1
                          /\ phase \in CORE_PHASES \ {RUN_PHASE}
                          /\ status = "PASS" -> "PEND"
                       [] OTHER -> IF q > phase /\ ReranPhase(ts, phase) THEN NoStatus ELSE ts[q]
<1>1. SetStatus(ts, phase, status) = [q \in CORE_PHASES |-> new(q)]
  BY DEF SetStatus
<1>2. phase # phase + 1
  BY DEF CORE_PHASES, CREATE_NEWCASE_PHASE, RUN_PHASE
<1>3. new(phase) = status
  BY <1>2
<1>4. \A q \in CORE_PHASES : q < phase => new(q) = ts[q]
  BY DEF CORE_PHASES, CREATE_NEWCASE_PHASE, RUN_PHASE
<1> QED
  BY <1>1, <1>3, <1>4

(* A file that another phase was recorded in. *)
LEMMA RanPhaseKeeps ==
  ASSUME NEW ts \in [CORE_PHASES -> FileStatuses], NEW phase \in CORE_PHASES,
         NEW status \in Statuses
  PROVE  /\ RanPhase(ts, phase, status)[phase] = status
         /\ \A q \in CORE_PHASES : q < phase => RanPhase(ts, phase, status)[q] = ts[q]
<1> DEFINE pending == SetStatus(ts, phase, "PEND")
<1>1. pending \in [CORE_PHASES -> FileStatuses]
  BY SetStatusType DEF Statuses
<1>2. \A q \in CORE_PHASES : q < phase => pending[q] = ts[q]
  BY SetStatusKeeps DEF Statuses
<1> HIDE DEF pending
<1>3. /\ SetStatus(pending, phase, status)[phase] = status
      /\ \A q \in CORE_PHASES : q < phase => SetStatus(pending, phase, status)[q] = pending[q]
  BY <1>1, SetStatusKeeps
<1>4. RanPhase(ts, phase, status) = SetStatus(pending, phase, status)
  BY DEF RanPhase, pending
<1> QED
  BY <1>2, <1>3, <1>4

LEMMA InitAgree == Init => Agree
<1> SUFFICES ASSUME Init, NEW t \in Tests PROVE InMemory(t) /\ OnFile(t)
  BY DEF Agree
<1>1. threads[t].pc = "none"
  BY DEF Init, NoThread
<1>2. PassedInFile(t, tests[t].phase)
  <2>1. CASE ~UseExisting
    BY <2>1 DEF Init, PassedInFile, INIT, CREATE_NEWCASE_PHASE, MODEL_BUILD_PHASE
  <2>2. CASE UseExisting
    <3>1. PICK last \in [Tests -> INIT .. LastPhase], next \in {"PEND", "FAIL"} :
            /\ tests = [u \in Tests |-> [phase |-> ResumedAt(last[u]), status |-> "PASS"]]
            /\ file = [u \in Tests |-> Resumed(PassedUpTo(last[u], next))]
      BY <2>2 DEF Init
    <3>2. tests[t].phase = ResumedAt(last[t]) /\ file[t] = Resumed(PassedUpTo(last[t], next))
      BY <3>1
    <3>3. last[t] \in INIT .. LastPhase
      BY <3>1
    <3>4. ResumedAt(last[t]) <= last[t] /\ last[t] \in Nat
      BY <3>3, OptionAssumption
         DEF ResumedAt, INIT, SUBMIT_PHASE, MODEL_BUILD_PHASE, XML_PHASE, SETUP_PHASE, RUN_PHASE
    <3>5. \A p \in CREATE_NEWCASE_PHASE .. MODEL_BUILD_PHASE :
            p <= last[t] => p \in CORE_PHASES /\ PassedUpTo(last[t], next)[p] = "PASS"
      BY <3>4 DEF PassedUpTo, CORE_PHASES, CREATE_NEWCASE_PHASE, MODEL_BUILD_PHASE, RUN_PHASE
    <3>6. \A p \in CREATE_NEWCASE_PHASE .. MODEL_BUILD_PHASE :
            p <= last[t] => file[t][p] = "PASS"
      BY <3>2, <3>5 DEF Resumed
    <3>7. ResumedAt(last[t]) \in Int
      BY <3>3, OptionAssumption
         DEF ResumedAt, INIT, SUBMIT_PHASE, MODEL_BUILD_PHASE, XML_PHASE, SETUP_PHASE, RUN_PHASE
    <3>8. \A p \in CREATE_NEWCASE_PHASE .. MODEL_BUILD_PHASE : p <= tests[t].phase => p <= last[t]
      BY <3>2, <3>4, <3>7 DEF CREATE_NEWCASE_PHASE, MODEL_BUILD_PHASE
    <3> QED
      BY <3>6, <3>8 DEF PassedInFile
  <2> QED
    BY <2>1, <2>2
<1> QED
  BY <1>1, <1>2 DEF InMemory, OnFile

LEMMA Untouched ==
  ASSUME NEW u \in Tests, InMemory(u), OnFile(u),
         tests'[u] = tests[u], threads'[u] = threads[u], file'[u] = file[u]
  PROVE  InMemory(u)' /\ OnFile(u)'
  BY DEF InMemory, OnFile, PassedInFile, WritesFile

(* A step of one test agrees if it agrees for that test. *)
LEMMA OneTest ==
  ASSUME Inv, Agree, NEW t \in Tests, InMemory(t)', OnFile(t)',
         \A u \in Tests \ {t} : /\ tests'[u] = tests[u]
                                /\ threads'[u] = threads[u]
                                /\ file'[u] = file[u]
  PROVE  Agree'
<1>1. \A u \in Tests \ {t} : InMemory(u)' /\ OnFile(u)'
  BY Untouched DEF Agree
<1> QED
  BY <1>1 DEF Agree

LEMMA QuietAgree == Agree /\ ProducerMoves => Agree'
  BY Untouched DEF Agree, ProducerMoves

LEMMA LaunchAgree ==
  ASSUME Inv, Agree, NEW t \in Tests, Launch(t)
  PROVE  Agree'
<1> DEFINE next_phase == NextPhase(tests[t].phase)
<1>1. /\ tests \in [Tests -> [phase : Phases, status : Statuses]]
      /\ threads \in [Tests -> Threads]
  BY DEF Inv, TypeOK
<1>2. /\ tests'[t].phase = next_phase /\ tests'[t].status = "PEND"
      /\ threads'[t].phase = next_phase /\ threads'[t].pc = "phase"
      /\ file' = file
      /\ \A u \in Tests \ {t} : tests'[u] = tests[u] /\ threads'[u] = threads[u]
  BY <1>1 DEF Launch
<1>3. tests[t].status = "PASS" /\ PhaseBefore(next_phase) = tests[t].phase
  <2>1. /\ CanUpdate(t, next_phase, "PEND")
        /\ tests[t].phase \in Phases
        /\ tests[t].phase # LastPhase
    BY <1>1 DEF Launch, Ready, WorkRemains
  <2>2. tests[t].status = "PASS"
    BY <2>1 DEF CanUpdate
  <2> QED
    BY <2>1, <2>2, OptionAssumption
       DEF PhaseBefore, NextPhase, Phases, INIT, XML_PHASE, SETUP_PHASE, MODEL_BUILD_PHASE,
           RUN_PHASE, SUBMIT_PHASE
<1>4. PassedInFile(t, tests[t].phase)
  BY <1>3 DEF Agree, OnFile
<1> HIDE DEF next_phase
<1>5. InMemory(t)' /\ OnFile(t)'
  BY <1>2, <1>3, <1>4 DEF InMemory, OnFile, PassedInFile
<1> QED
  BY <1>2, <1>5, OneTest

LEMMA RefuseAgree ==
  ASSUME Inv, Agree, NEW t \in Tests, Refuse(t)
  PROVE  Agree'
<1>1. /\ tests \in [Tests -> [phase : Phases, status : Statuses]]
      /\ file \in [Tests -> [CORE_PHASES -> FileStatuses]]
  BY DEF Inv, TypeOK
<1>2. /\ tests'[t].status = "FAIL"
      /\ threads' = threads
      /\ threads[t].pc = "none"
      /\ \A u \in Tests \ {t} : tests'[u] = tests[u] /\ file'[u] = file[u]
  BY <1>1 DEF Refuse, Ready, in_flight
<1>3. InMemory(t)' /\ OnFile(t)'
  BY <1>2 DEF InMemory, OnFile
<1> QED
  BY <1>2, <1>3, OneTest

LEMMA ReapAgree ==
  ASSUME Inv, Agree, Reap
  PROVE  Agree'
<1> SUFFICES ASSUME NEW t \in Tests PROVE InMemory(t)' /\ OnFile(t)'
  BY DEF Agree
<1>1. /\ tests' = tests /\ file' = file
      /\ threads'[t] = threads[t] \/ threads'[t] = NoThread
  BY DEF Reap
<1>2. CASE threads'[t] = threads[t]
  BY <1>1, <1>2, Untouched DEF Agree
<1>3. CASE threads'[t] = NoThread
  BY <1>1, <1>3 DEF Agree, InMemory, OnFile, PassedInFile, NoThread
<1> QED
  BY <1>1, <1>2, <1>3

LEMMA BatchJobAgree ==
  ASSUME Inv, Agree, NEW t \in Tests, BatchJob(t)
  PROVE  Agree'
<1>1. PICK status \in Statuses : file' = [file EXCEPT ![t] = RanPhase(file[t], RUN_PHASE, status)]
  BY DEF BatchJob, Statuses, Inv, TypeOK
<1>2. file \in [Tests -> [CORE_PHASES -> FileStatuses]]
  BY DEF Inv, TypeOK
<1>3. \A q \in CREATE_NEWCASE_PHASE .. MODEL_BUILD_PHASE :
        q \in CORE_PHASES /\ q < RUN_PHASE /\ RUN_PHASE \in CORE_PHASES
  BY DEF CORE_PHASES, CREATE_NEWCASE_PHASE, MODEL_BUILD_PHASE, RUN_PHASE
<1>4. \A q \in CREATE_NEWCASE_PHASE .. MODEL_BUILD_PHASE : file'[t][q] = file[t][q]
  BY <1>1, <1>2, <1>3, RanPhaseKeeps
<1>5. tests' = tests /\ threads' = threads
  BY DEF BatchJob
<1>6. \A phase : PassedInFile(t, phase) => PassedInFile(t, phase)'
  BY <1>4 DEF PassedInFile
<1>7. InMemory(t)' /\ OnFile(t)'
  BY <1>5, <1>6 DEF Agree, InMemory, OnFile, WritesFile
<1>8. \A u \in Tests \ {t} : file'[u] = file[u]
  BY <1>1, <1>2
<1> QED
  BY <1>5, <1>7, <1>8, OneTest

(* A phase_method returns: all it may have done to the file is from its    *)
(* own phase on, and a command that succeeds has recorded it.              *)
LEMMA CalledAgree ==
  ASSUME Inv, Agree, NEW t \in Tests, threads[t].pc = "phase",
         NEW success \in BOOLEAN, Called(t, success),
         UNCHANGED tests,
         \A u \in Tests \ {t} : file'[u] = file[u],
         \A q \in CREATE_NEWCASE_PHASE .. MODEL_BUILD_PHASE :
           q < threads[t].phase => file'[t][q] = file[t][q],
         ~WritesFile(t) /\ success => PassedInFile(t, threads[t].phase)'
  PROVE  Agree'
<1>1. threads \in [Tests -> Threads]
  BY DEF Inv, TypeOK
<1>2. /\ threads'[t].pc = "finish" /\ threads'[t].success = success
      /\ threads'[t].phase = threads[t].phase
      /\ \A u \in Tests \ {t} : threads'[u] = threads[u]
  BY <1>1 DEF Called, Threads
<1>3. InMemory(t) /\ OnFile(t)
  BY DEF Agree
<1>4. WritesFile(t)' <=> WritesFile(t)
  BY <1>2 DEF WritesFile
<1>5. ASSUME WritesFile(t) PROVE PassedInFile(t, threads[t].phase - 1)'
  <2>1. threads[t].phase \in CREATE_NEWCASE_PHASE .. MODEL_BUILD_PHASE
    BY <1>5 DEF WritesFile, CREATE_NEWCASE_PHASE, XML_PHASE, SHAREDLIB_BUILD_PHASE,
                MODEL_BUILD_PHASE
  <2>2. PhaseBefore(threads[t].phase) = threads[t].phase - 1
    BY <2>1 DEF PhaseBefore, CREATE_NEWCASE_PHASE, MODEL_BUILD_PHASE, RUN_PHASE
  <2>3. PassedInFile(t, threads[t].phase - 1)
    BY <1>3, <2>2 DEF OnFile
  <2>4. \A q \in CREATE_NEWCASE_PHASE .. MODEL_BUILD_PHASE :
          q <= threads[t].phase - 1 => file'[t][q] = file[t][q]
    BY <2>1 DEF CREATE_NEWCASE_PHASE, MODEL_BUILD_PHASE
  <2>5. threads'[t].phase - 1 = threads[t].phase - 1
    BY <1>2
  <2> QED
    BY <2>3, <2>4, <2>5 DEF PassedInFile
<1>6. OnFile(t)'
  <2>1. tests'[t].status # "PASS"
    BY <1>3 DEF InMemory
  <2> QED
    BY <1>2, <1>4, <1>5, <2>1 DEF OnFile
<1>7. InMemory(t)'
  BY <1>2, <1>3 DEF InMemory
<1> QED
  BY <1>2, <1>6, <1>7, OneTest

LEMMA PhaseAgree ==
  ASSUME Inv, Agree, NEW t \in Tests,
         \/ CreateNewcase(t) \/ Xml(t) \/ XmlFails(t) \/ Setup(t) \/ Build(t) \/ TakeBuild(t)
         \/ SkipRun(t) \/ RunHere(t) \/ Submit(t) \/ SubmitFails(t)
  PROVE  Agree'
<1>1. /\ file \in [Tests -> [CORE_PHASES -> FileStatuses]]
      /\ file[t] \in [CORE_PHASES -> FileStatuses]
  BY DEF Inv, TypeOK
<1>2. "PASS" \in Statuses /\ "FAIL" \in Statuses /\ "PEND" \in Statuses
  BY DEF Statuses
<1>3. /\ CREATE_NEWCASE_PHASE .. MODEL_BUILD_PHASE \subseteq CORE_PHASES
      /\ {SETUP_PHASE, SHAREDLIB_BUILD_PHASE, MODEL_BUILD_PHASE, SUBMIT_PHASE, RUN_PHASE}
           \subseteq CORE_PHASES
      /\ \A q \in CREATE_NEWCASE_PHASE .. MODEL_BUILD_PHASE : q < SUBMIT_PHASE /\ q < RUN_PHASE
  BY DEF CORE_PHASES, CREATE_NEWCASE_PHASE, SETUP_PHASE, SHAREDLIB_BUILD_PHASE,
         MODEL_BUILD_PHASE, SUBMIT_PHASE, RUN_PHASE
<1>4. CASE CreateNewcase(t) \/ Xml(t) \/ XmlFails(t) \/ TakeBuild(t)
  <2>1. /\ threads[t].pc = "phase" /\ WritesFile(t)
        /\ UNCHANGED <<tests, file>>
        /\ \E success \in BOOLEAN : Called(t, success)
    BY <1>4 DEF CreateNewcase, Xml, XmlFails, TakeBuild, InPhase, WritesFile
  <2> QED
    BY <2>1, CalledAgree
<1>5. CASE Setup(t) \/ Build(t)
  <2>1. PICK success \in BOOLEAN, status \in Statuses, ts \in [CORE_PHASES -> FileStatuses],
             phase \in {SETUP_PHASE, SHAREDLIB_BUILD_PHASE, MODEL_BUILD_PHASE} :
          /\ InPhase(t, phase)
          /\ Called(t, success)
          /\ file' = [file EXCEPT ![t] = ts]
          /\ ts = SetStatus(file[t], phase, status) \/ ts = RanPhase(file[t], phase, status)
          /\ success => status = "PASS"
    <3>1. CASE Setup(t)
      BY <1>1, <1>2, <3>1, SetStatusType DEF Setup
    <3>2. CASE Build(t)
      <4>1. PICK phase \in {SHAREDLIB_BUILD_PHASE, MODEL_BUILD_PHASE} :
              /\ InPhase(t, phase)
              /\ \/ Called(t, TRUE) /\ file' = [file EXCEPT ![t] = RanPhase(@, phase, "PASS")]
                 \/ Called(t, FALSE) /\ file' = [file EXCEPT ![t] = RanPhase(@, phase, "FAIL")]
        BY <3>2 DEF Build
      <4>2. /\ RanPhase(file[t], phase, "PASS") \in [CORE_PHASES -> FileStatuses]
            /\ RanPhase(file[t], phase, "FAIL") \in [CORE_PHASES -> FileStatuses]
        BY <1>1, <1>2, RanPhaseType
      <4> QED
        BY <1>1, <1>2, <4>1, <4>2
    <3> QED
      BY <1>5, <3>1, <3>2
  <2>2. /\ threads[t].pc = "phase" /\ threads[t].phase = phase /\ tests' = tests
    BY <1>5, <2>1 DEF InPhase, Setup, Build
  <2>3. file'[t] = ts /\ \A u \in Tests \ {t} : file'[u] = file[u]
    BY <1>1, <2>1
  <2>4. ts[phase] = status /\ \A q \in CORE_PHASES : q < phase => ts[q] = file[t][q]
    BY <1>1, <1>3, <2>1, SetStatusKeeps, RanPhaseKeeps
  <2>5. success => PassedInFile(t, threads[t].phase)'
    <3>1. threads'[t].phase = threads[t].phase
      BY <2>1 DEF Called, Inv, TypeOK, Threads
    <3>2. PassedInFile(t, phase - 1)
      <4>1. PassedInFile(t, PhaseBefore(phase))
        BY <2>2 DEF Agree, OnFile
      <4> QED
        BY <2>1, <4>1 DEF PhaseBefore, SETUP_PHASE, SHAREDLIB_BUILD_PHASE, MODEL_BUILD_PHASE, RUN_PHASE
    <3>3. \A q \in CREATE_NEWCASE_PHASE .. MODEL_BUILD_PHASE :
            q <= phase => q = phase \/ (q < phase /\ q <= phase - 1)
      BY <2>1 DEF CREATE_NEWCASE_PHASE, SETUP_PHASE, SHAREDLIB_BUILD_PHASE, MODEL_BUILD_PHASE
    <3>4. ASSUME success, NEW q \in CREATE_NEWCASE_PHASE .. MODEL_BUILD_PHASE, q <= phase
          PROVE  ts[q] = "PASS"
      <4>1. q \in CORE_PHASES
        BY <1>3
      <4> QED
        BY <2>1, <2>4, <3>2, <3>3, <3>4, <4>1 DEF PassedInFile
    <3> QED
      BY <2>2, <2>3, <3>1, <3>4 DEF PassedInFile
  <2> QED
    BY <1>3, <2>1, <2>2, <2>3, <2>4, <2>5, CalledAgree
<1>6. CASE SkipRun(t) \/ RunHere(t) \/ Submit(t) \/ SubmitFails(t)
  <2>1. \A ts \in [CORE_PHASES -> FileStatuses], status \in Statuses :
          \A q \in CREATE_NEWCASE_PHASE .. MODEL_BUILD_PHASE :
            /\ SetStatus(ts, SUBMIT_PHASE, status)[q] = ts[q]
            /\ SetStatus(ts, RUN_PHASE, status)[q] = ts[q]
            /\ RanPhase(ts, RUN_PHASE, status)[q] = ts[q]
            /\ Submitting(ts)[q] = ts[q]
    BY <1>2, <1>3, SetStatusKeeps, RanPhaseKeeps DEF Submitting
  <2>2. PICK ts \in [CORE_PHASES -> FileStatuses] :
          /\ file' = [file EXCEPT ![t] = ts]
          /\ \A q \in CREATE_NEWCASE_PHASE .. MODEL_BUILD_PHASE : ts[q] = file[t][q]
    <3>1. \A old \in [CORE_PHASES -> FileStatuses], status \in Statuses :
            /\ SetStatus(old, SUBMIT_PHASE, status) \in [CORE_PHASES -> FileStatuses]
            /\ SetStatus(old, RUN_PHASE, status) \in [CORE_PHASES -> FileStatuses]
            /\ RanPhase(old, RUN_PHASE, status) \in [CORE_PHASES -> FileStatuses]
            /\ Submitting(old) \in [CORE_PHASES -> FileStatuses]
      BY SetStatusType, RanPhaseType
    <3> DEFINE old == file[t]
               sub == Submitting(old)
               passed == SetStatus(old, SUBMIT_PHASE, "PASS")
    <3>2. /\ sub \in [CORE_PHASES -> FileStatuses]
          /\ passed \in [CORE_PHASES -> FileStatuses]
          /\ \A q \in CREATE_NEWCASE_PHASE .. MODEL_BUILD_PHASE :
               sub[q] = file[t][q] /\ passed[q] = file[t][q]
      BY <1>1, <1>2, <2>1, <3>1
    <3>3. CASE SkipRun(t)
      <4>1. file' = [file EXCEPT ![t] = SetStatus(passed, RUN_PHASE, "PASS")]
        BY <1>1, <3>3 DEF SkipRun
      <4> HIDE DEF passed
      <4>2. /\ SetStatus(passed, RUN_PHASE, "PASS") \in [CORE_PHASES -> FileStatuses]
            /\ \A q \in CREATE_NEWCASE_PHASE .. MODEL_BUILD_PHASE :
                 SetStatus(passed, RUN_PHASE, "PASS")[q] = file[t][q]
        BY <1>2, <2>1, <3>1, <3>2
      <4> QED
        BY <4>1, <4>2
    <3>4. CASE RunHere(t)
      <4>1. PICK status \in Statuses : file' = [file EXCEPT ![t] = RanPhase(sub, RUN_PHASE, status)]
        BY <1>1, <1>2, <3>4 DEF RunHere
      <4> HIDE DEF sub
      <4>2. /\ RanPhase(sub, RUN_PHASE, status) \in [CORE_PHASES -> FileStatuses]
            /\ \A q \in CREATE_NEWCASE_PHASE .. MODEL_BUILD_PHASE :
                 RanPhase(sub, RUN_PHASE, status)[q] = file[t][q]
        BY <2>1, <3>1, <3>2
      <4> QED
        BY <4>1, <4>2
    <3>5. CASE Submit(t)
      <4>1. file' = [file EXCEPT ![t] = sub]
        BY <1>1, <3>5 DEF Submit
      <4> HIDE DEF sub
      <4> QED
        BY <3>2, <4>1
    <3>6. CASE SubmitFails(t)
      <4>1. file' = [file EXCEPT ![t] = SetStatus(sub, SUBMIT_PHASE, "FAIL")]
        BY <1>1, <3>6 DEF SubmitFails
      <4> HIDE DEF sub
      <4>2. /\ SetStatus(sub, SUBMIT_PHASE, "FAIL") \in [CORE_PHASES -> FileStatuses]
            /\ \A q \in CREATE_NEWCASE_PHASE .. MODEL_BUILD_PHASE :
                 SetStatus(sub, SUBMIT_PHASE, "FAIL")[q] = file[t][q]
        BY <1>2, <2>1, <3>1, <3>2
      <4> QED
        BY <4>1, <4>2
    <3> QED
      BY <1>6, <3>3, <3>4, <3>5, <3>6
  <2>3. /\ threads[t].pc = "phase" /\ threads[t].phase = RUN_PHASE /\ tests' = tests
        /\ \E success \in BOOLEAN : Called(t, success)
    BY <1>6 DEF InPhase, SkipRun, RunHere, Submit, SubmitFails
  <2>4. PassedInFile(t, threads[t].phase)'
    <3>1. PassedInFile(t, MODEL_BUILD_PHASE)
      BY <2>3 DEF Agree, OnFile, PhaseBefore
    <3>2. \A q \in CREATE_NEWCASE_PHASE .. MODEL_BUILD_PHASE : file'[t][q] = "PASS"
      BY <1>1, <2>2, <3>1 DEF PassedInFile, CREATE_NEWCASE_PHASE, MODEL_BUILD_PHASE
    <3> QED
      BY <3>2 DEF PassedInFile
  <2>5. file'[t] = ts /\ \A u \in Tests \ {t} : file'[u] = file[u]
    BY <1>1, <2>2
  <2> QED
    BY <2>2, <2>3, <2>4, <2>5, CalledAgree
<1> QED
  BY <1>4, <1>5, <1>6

LEMMA FinishAgree ==
  ASSUME Inv, Agree, NEW t \in Tests, Finish(t)
  PROVE  Agree'
<1> DEFINE phase  == threads[t].phase
           status == FinalStatus(t)
<1>1. /\ tests \in [Tests -> [phase : Phases, status : Statuses]]
      /\ file \in [Tests -> [CORE_PHASES -> FileStatuses]]
      /\ threads \in [Tests -> Threads]
      /\ phase \in Phases
      /\ status \in Statuses
  BY DEF Inv, TypeOK, Threads, FinalStatus, Statuses
<1>2. InMemory(t) /\ OnFile(t) /\ threads[t].pc = "finish"
  BY DEF Agree, Finish
<1>3. tests[t].phase = phase /\ tests[t].status = "PEND"
  BY <1>2 DEF InMemory
<1>4. status = "PEND" \/ CanUpdate(t, phase, status)
  BY <1>3 DEF CanUpdate
<1>5. /\ threads'[t].pc \in {"chain", "dead"}
      /\ threads'[t].pc = "chain" => SubmitsNow(t)
      /\ \A u \in Tests \ {t} : threads'[u] = threads[u] /\ tests'[u] = tests[u] /\ file'[u] = file[u]
  BY <1>1 DEF Finish
<1>6. CASE status = "PEND"
  <2>1. phase = RUN_PHASE /\ tests' = tests
    BY <1>6 DEF FinalStatus, Finish
  <2>2. threads'[t].pc = "dead"
    BY <1>5, <2>1 DEF SubmitsNow, MODEL_BUILD_PHASE, RUN_PHASE
  <2>3. InMemory(t)' /\ OnFile(t)'
    BY <1>3, <2>1, <2>2 DEF InMemory, OnFile
  <2> QED
    BY <1>5, <2>3, OneTest
<1>7. CASE status = "FAIL"
  <2>1. tests'[t].status = "FAIL"
    BY <1>1, <1>4, <1>7 DEF Finish
  <2>2. threads'[t].pc = "dead"
    BY <1>5, <1>7 DEF SubmitsNow, FinalStatus
  <2>3. InMemory(t)' /\ OnFile(t)'
    BY <2>1, <2>2 DEF InMemory, OnFile
  <2> QED
    BY <1>5, <2>3, OneTest
<1>8. CASE status = "PASS"
  <2>1. threads[t].success
    BY <1>8 DEF FinalStatus
  <2>2. tests'[t].phase = phase /\ tests'[t].status = "PASS"
    BY <1>1, <1>4, <1>8 DEF Finish
  <2>3. PassedInFile(t, phase)' 
    <3>1. CASE WritesFile(t)
      <4>1. phase \in CREATE_NEWCASE_PHASE .. MODEL_BUILD_PHASE /\ phase \in CORE_PHASES
        BY <3>1 DEF WritesFile, CORE_PHASES, CREATE_NEWCASE_PHASE, XML_PHASE,
                    SHAREDLIB_BUILD_PHASE, MODEL_BUILD_PHASE, RUN_PHASE
      <4>2. PassedInFile(t, phase - 1)
        BY <1>2, <3>1 DEF OnFile
      <4>3. CanSetStatus(file[t], phase)
        BY <4>1, <4>2 DEF CanSetStatus, PassedInFile, CREATE_NEWCASE_PHASE, MODEL_BUILD_PHASE
      <4>4. file' = [file EXCEPT ![t] = SetStatus(file[t], phase, status)]
        BY <1>4, <3>1, <4>3 DEF Finish
      <4>5. /\ file'[t][phase] = "PASS"
            /\ \A q \in CORE_PHASES : q < phase => file'[t][q] = file[t][q]
        <5>1. /\ SetStatus(file[t], phase, status)[phase] = status
              /\ \A q \in CORE_PHASES : q < phase => SetStatus(file[t], phase, status)[q] = file[t][q]
          BY <1>1, <4>1, SetStatusKeeps
        <5> QED
          BY <1>1, <1>8, <4>4, <5>1
      <4>6. \A q \in CREATE_NEWCASE_PHASE .. MODEL_BUILD_PHASE :
              q <= phase => q \in CORE_PHASES /\ (q = phase \/ (q < phase /\ q <= phase - 1))
        BY <4>1 DEF CREATE_NEWCASE_PHASE, MODEL_BUILD_PHASE, CORE_PHASES, RUN_PHASE
      <4>7. threads'[t].phase = phase
        BY <1>1 DEF Finish, Threads
      <4> QED
        BY <4>2, <4>5, <4>6, <4>7 DEF PassedInFile
    <3>2. CASE ~WritesFile(t)
      <4>1. file' = file
        BY <3>2 DEF Finish
      <4>2. PassedInFile(t, phase)
        BY <1>2, <2>1, <3>2 DEF OnFile
      <4>3. threads'[t].phase = phase
        BY <1>1 DEF Finish, Threads
      <4> QED
        BY <4>1, <4>2, <4>3 DEF PassedInFile
    <3> QED
      BY <3>1, <3>2
  <2>4. threads'[t].phase = phase
    BY <1>1 DEF Finish, Threads
  <2>5. threads'[t].pc = "chain" => phase = MODEL_BUILD_PHASE
    BY <1>5 DEF SubmitsNow
  <2>6. InMemory(t)'
    BY <1>5, <2>2, <2>5 DEF InMemory
  <2>7. OnFile(t)'
    BY <1>5, <2>2, <2>3, <2>4 DEF OnFile, PassedInFile
  <2> QED
    BY <1>5, <2>6, <2>7, OneTest
<1> QED
  BY <1>1, <1>6, <1>7, <1>8 DEF Statuses

LEMMA ChainAgree ==
  ASSUME Inv, Agree, NEW t \in Tests, Chain(t)
  PROVE  Agree' /\ tests'[t].phase = RUN_PHASE /\ threads'[t].pc = "phase"
<1>1. /\ tests \in [Tests -> [phase : Phases, status : Statuses]]
      /\ threads \in [Tests -> Threads]
  BY DEF Inv, TypeOK
<1>2. /\ tests[t].phase = MODEL_BUILD_PHASE /\ tests[t].status = "PASS"
      /\ PassedInFile(t, MODEL_BUILD_PHASE)
  BY DEF Chain, Agree, InMemory, OnFile
<1>3. CanUpdate(t, RUN_PHASE, "PEND")
  BY <1>2 DEF CanUpdate, NextPhase, MODEL_BUILD_PHASE, RUN_PHASE
<1>4. /\ tests'[t].phase = RUN_PHASE /\ tests'[t].status = "PEND"
      /\ threads'[t].pc = "phase" /\ threads'[t].phase = RUN_PHASE
      /\ file' = file
      /\ \A u \in Tests \ {t} : tests'[u] = tests[u] /\ threads'[u] = threads[u]
  BY <1>1, <1>3 DEF Chain, Threads
<1>5. InMemory(t)' /\ OnFile(t)'
  BY <1>2, <1>4 DEF InMemory, OnFile, PassedInFile, PhaseBefore
<1> QED
  BY <1>4, <1>5, OneTest

LEMMA DieAgree ==
  ASSUME Inv, Agree, NEW t \in Tests, Die(t)
  PROVE  Agree'
<1>1. threads \in [Tests -> Threads]
  BY DEF Inv, TypeOK
<1>2. /\ threads'[t].pc = "dead" /\ tests' = tests /\ file' = file
      /\ \A u \in Tests \ {t} : threads'[u] = threads[u]
  BY <1>1 DEF Die
<1>3. InMemory(t)' /\ OnFile(t)'
  BY <1>2 DEF Die, Agree, InMemory, OnFile, PassedInFile
<1> QED
  BY <1>2, <1>3, OneTest

LEMMA NextAgree == Inv /\ Agree /\ [Next]_vars => Agree'
<1> SUFFICES ASSUME Inv, Agree, [Next]_vars PROVE Agree'
  OBVIOUS
<1>1. CASE ProducerNext
  BY <1>1, QuietSteps, QuietAgree, LaunchAgree, RefuseAgree, ReapAgree DEF ProducerNext
<1>2. ASSUME NEW t \in Tests, ConsumerNext(t) PROVE Agree'
  BY <1>2, PhaseAgree, FinishAgree, ChainAgree, DieAgree DEF ConsumerNext
<1>3. ASSUME NEW t \in Tests, BatchJob(t) PROVE Agree'
  BY <1>3, BatchJobAgree
<1>4. CASE UNCHANGED vars
  BY <1>4, Untouched DEF vars, Agree
<1> QED
  BY <1>1, <1>2, <1>3, <1>4 DEF Next

LEMMA AlwaysAgree == Spec => [](Inv /\ Agree)
<1> QED
  BY InitInv, NextInv, InitAgree, NextAgree, PTL DEF Spec

(* What set_status asks for is part of that agreement. *)
LEMMA AgreeKeepsUp == Inv /\ Agree => FileKeepsUp
<1> SUFFICES ASSUME Inv, Agree, NEW t \in Tests
             PROVE  /\ threads[t].pc = "phase" =>
                         CanSetStatus(file[t], IF threads[t].phase = RUN_PHASE THEN SUBMIT_PHASE
                                               ELSE threads[t].phase)
                    /\ threads[t].pc = "finish" /\ WritesFile(t) =>
                         CanSetStatus(file[t], threads[t].phase)
  BY DEF FileKeepsUp
<1>1. threads[t].phase \in Phases
  BY DEF Inv, TypeOK, Threads
<1>2. ASSUME threads[t].pc = "phase"
      PROVE  CanSetStatus(file[t], IF threads[t].phase = RUN_PHASE THEN SUBMIT_PHASE
                                   ELSE threads[t].phase)
  <2>1. PassedInFile(t, PhaseBefore(threads[t].phase))
    BY <1>2 DEF Agree, OnFile
  <2> QED
    BY <1>1, <2>1, OptionAssumption
       DEF CanSetStatus, PassedInFile, PhaseBefore, Phases, CORE_PHASES, INIT,
           CREATE_NEWCASE_PHASE, XML_PHASE, SETUP_PHASE, MODEL_BUILD_PHASE, SUBMIT_PHASE, RUN_PHASE
<1>3. ASSUME threads[t].pc = "finish", WritesFile(t)
      PROVE  CanSetStatus(file[t], threads[t].phase)
  <2>1. PassedInFile(t, threads[t].phase - 1)
    BY <1>3 DEF Agree, OnFile
  <2> QED
    BY <1>3, <2>1
       DEF CanSetStatus, PassedInFile, WritesFile, CORE_PHASES, CREATE_NEWCASE_PHASE, XML_PHASE,
           SHAREDLIB_BUILD_PHASE, MODEL_BUILD_PHASE, RUN_PHASE
<1> QED
  BY <1>2, <1>3

(* Whatever the scheduler, the phases and the batch jobs do to a TestStatus *)
(* file, in whatever order, set_status never refuses what a phase records.  *)
THEOREM FilesKeepUp == Spec => []FileKeepsUp
  BY AgreeKeepsUp, AlwaysAgree, PTL

-----------------------------------------------------------------------------
(* No expectation of the producer fails, if a phase's error can be logged. *)

(* A test without a running thread is not left pending, its RUN phase      *)
(* apart: a batch run is nobody's to follow.                               *)
NotLeftPending(t) ==
  threads[t].pc \in {"none", "dead"} => tests[t].status # "PEND" \/ tests[t].phase = RUN_PHASE

Sound == NoHardAbort /\ \A t \in Tests : NotLeftPending(t)

LEMMA InitSound == Init => Sound
  BY DEF Init, Sound, NoHardAbort, NotLeftPending, NewScan

LEMMA ScanSound ==
  ASSUME Inv, Agree, Sound,
         \/ \E t \in Tests : Skip(t) \/ Full(t) \/ Abort(t) \/ Defer(t)
         \/ EndScan \/ Join \/ WaitForTests
  PROVE  Sound'
<1>1. UNCHANGED <<tests, threads>>
  BY DEF Skip, Full, Abort, Defer, EndScan, Join, WaitForTests
<1>2. producer'.pc # "aborted"
  <2>1. producer \in [pc : ProducerPCs, at : 1 .. NumTests + 1, work : BOOLEAN, launched : BOOLEAN]
    BY DEF Inv, TypeOK, Producer
  <2>2. producer.pc # "aborted"
    BY DEF Sound, NoHardAbort
  <2>3. ASSUME NEW t \in Tests, Ready(t) PROVE CanUpdate(t, NextPhase(tests[t].phase), "PEND")
    <3>1. tests[t].status = "PASS"
      BY <2>3, RunIsLast DEF Inv, TypeOK, Ready, WorkRemains, Sound, NotLeftPending, in_flight
    <3>2. tests[t].phase # NextPhase(tests[t].phase)
      BY DEF Inv, TypeOK, Phases, NextPhase, INIT, MODEL_BUILD_PHASE, RUN_PHASE
    <3> QED
      BY <3>1, <3>2 DEF CanUpdate
  <2>4. CASE EndScan
    BY <2>1, <2>2, <2>4 DEF Inv, FewThreads, EndScan, NewScan
  <2>5. CASE \E t \in Tests : Skip(t) \/ Full(t) \/ Abort(t) \/ Defer(t)
    BY <2>1, <2>2, <2>3, <2>5 DEF Skip, Full, Abort, Defer, Moved
  <2>6. CASE Join \/ WaitForTests
    BY <2>1, <2>6 DEF Join, WaitForTests
  <2> QED
    BY <2>4, <2>5, <2>6
<1> QED
  BY <1>1, <1>2 DEF Sound, NoHardAbort, NotLeftPending

LEMMA NextSound ==
  ASSUME "log" \notin Faults, Inv, Agree, Sound, [Next]_vars
  PROVE  Sound'
<1>1. /\ tests \in [Tests -> [phase : Phases, status : Statuses]]
      /\ threads \in [Tests -> Threads]
      /\ producer \in [pc : ProducerPCs, at : 1 .. NumTests + 1, work : BOOLEAN, launched : BOOLEAN]
  BY DEF Inv, TypeOK, Producer
<1>2. producer.pc # "aborted"
  BY DEF Sound, NoHardAbort
<1>3. ASSUME NEW t \in Tests, NotLeftPending(t)', producer'.pc = producer.pc,
             \A u \in Tests \ {t} : tests'[u] = tests[u] /\ threads'[u] = threads[u]
      PROVE  Sound'
  BY <1>2, <1>3 DEF Sound, NoHardAbort, NotLeftPending
<1>4. ASSUME NEW t \in Tests, Launch(t) PROVE Sound'
  <2>1. threads'[t].pc = "phase" /\ producer'.pc = producer.pc
    BY <1>1, <1>4 DEF Launch, Moved
  <2>2. \A u \in Tests \ {t} : tests'[u] = tests[u] /\ threads'[u] = threads[u]
    BY <1>1, <1>4 DEF Launch
  <2> QED
    BY <1>3, <2>1, <2>2 DEF NotLeftPending
<1>5. ASSUME NEW t \in Tests, Refuse(t) PROVE Sound'
  <2> DEFINE next_phase == NextPhase(tests[t].phase)
             first_set  == IF next_phase = RUN_PHASE THEN SUBMIT_PHASE ELSE next_phase
  <2>1. tests[t].phase \in Phases /\ tests[t].phase # LastPhase /\ tests[t].status = "PASS"
    BY <1>1, <1>5, RunIsLast DEF Refuse, Ready, WorkRemains, Sound, NotLeftPending, in_flight
  <2>2. PassedInFile(t, tests[t].phase)
    BY <2>1 DEF Agree, OnFile
  <2>3. CanSetStatus(file[t], first_set)
    BY <2>1, <2>2, OptionAssumption
       DEF CanSetStatus, PassedInFile, NextPhase, Phases, CORE_PHASES, INIT,
           CREATE_NEWCASE_PHASE, XML_PHASE, SETUP_PHASE, MODEL_BUILD_PHASE, SUBMIT_PHASE, RUN_PHASE
  <2>4. producer'.pc = producer.pc
    BY <1>1, <1>5, <2>3, "log" \notin Faults DEF Refuse, Moved
  <2>5. tests'[t].status = "FAIL" /\ threads' = threads
    BY <1>1, <1>5 DEF Refuse
  <2>6. \A u \in Tests \ {t} : tests'[u] = tests[u]
    BY <1>1, <1>5 DEF Refuse
  <2> QED
    BY <1>3, <2>4, <2>5, <2>6 DEF NotLeftPending
<1>6. CASE Reap
  <2>1. tests' = tests /\ producer'.pc = "scan"
    BY <1>6 DEF Reap, NewScan
  <2>2. ASSUME NEW t \in Tests PROVE NotLeftPending(t)'
    <3>1. threads'[t] = threads[t] \/ threads[t].pc = "dead"
      BY <1>6 DEF Reap
    <3> QED
      BY <2>1, <3>1 DEF Sound, NotLeftPending
  <2> QED
    BY <2>1, <2>2 DEF Sound, NoHardAbort
<1>7. ASSUME NEW t \in Tests, ConsumerNext(t) PROVE Sound'
  <2>1. CASE Finish(t)
    <3>1. InMemory(t)
      BY DEF Agree
    <3>2. FinalStatus(t) = "PEND" \/ CanUpdate(t, threads[t].phase, FinalStatus(t))
      BY <2>1, <3>1 DEF InMemory, CanUpdate, Finish
    <3>3. NotLeftPending(t)'
      <4>1. CASE FinalStatus(t) = "PEND"
        <5>1. tests' = tests /\ threads[t].phase = RUN_PHASE /\ threads[t].phase \in Phases
          BY <1>1, <2>1, <4>1 DEF Finish, FinalStatus, Threads
        <5>2. LastPhase = RUN_PHASE
          BY <5>1, RunIsLast
        <5>3. tests[t].phase = threads[t].phase
          BY <2>1, <3>1 DEF InMemory, Finish
        <5> QED
          BY <5>1, <5>2, <5>3 DEF NotLeftPending
      <4>2. CASE FinalStatus(t) # "PEND"
        BY <1>1, <2>1, <3>2, <4>2 DEF Finish, NotLeftPending
      <4> QED
        BY <4>1, <4>2
    <3>4. producer' = producer
          /\ \A u \in Tests \ {t} : tests'[u] = tests[u] /\ threads'[u] = threads[u]
      BY <1>1, <2>1 DEF Finish
    <3> QED
      BY <1>3, <3>3, <3>4
  <2>2. CASE Chain(t)
    <3>1. threads'[t].pc = "phase"
      BY <2>2, ChainAgree
    <3>2. producer' = producer
          /\ \A u \in Tests \ {t} : tests'[u] = tests[u] /\ threads'[u] = threads[u]
      BY <1>1, <2>2 DEF Chain
    <3> QED
      BY <1>3, <3>1, <3>2 DEF NotLeftPending
  <2>3. CASE ~Finish(t) /\ ~Chain(t)
    <3>1. \E success : Called(t, success)
      BY <1>7, <2>3 DEF ConsumerNext, CreateNewcase, Xml, XmlFails, Setup, Build, TakeBuild,
                        SkipRun, RunHere, Submit, SubmitFails, Die
    <3>2. producer' = producer /\ tests' = tests
      BY <1>7, <2>3 DEF ConsumerNext, CreateNewcase, Xml, XmlFails, Setup, Build, TakeBuild,
                        SkipRun, RunHere, Submit, SubmitFails, Die
    <3>3. /\ threads'[t].pc = "finish"
          /\ \A u \in Tests \ {t} : threads'[u] = threads[u]
      BY <1>1, <3>1 DEF Called, Threads
    <3> QED
      BY <1>3, <3>2, <3>3 DEF NotLeftPending
  <2> QED
    BY <2>1, <2>2, <2>3
<1>8. ASSUME NEW t \in Tests, BatchJob(t) PROVE Sound'
  BY <1>8 DEF BatchJob, Sound, NoHardAbort, NotLeftPending
<1>9. CASE UNCHANGED vars
  BY <1>9 DEF vars, Sound, NoHardAbort, NotLeftPending
<1> QED
  BY <1>4, <1>5, <1>6, <1>7, <1>8, <1>9, ScanSound DEF Next, ProducerNext

(* "This program should never hard abort": it does not, provided that the  *)
(* error of a phase can always be written to the log of its test.          *)
THEOREM NeverHardAborts ==
  ASSUME "log" \notin Faults
  PROVE  Spec => []NoHardAbort
<1>1. Sound => NoHardAbort
  BY DEF Sound
<1>2. Inv /\ Agree /\ Sound /\ [Next]_vars => Sound'
  BY NextSound
<1> QED
  BY <1>1, <1>2, InitSound, AlwaysAgree, PTL DEF Spec

-----------------------------------------------------------------------------
(* How a step moves a test. *)

(* The ways a step can change what the scheduler knows of a test: its next *)
(* phase begins, or is refused, or the phase being run comes to its end.   *)
Begins(t) ==
  /\ tests[t].status = "PASS" /\ tests[t].phase # LastPhase
  /\ tests'[t].phase = NextPhase(tests[t].phase)
  /\ tests'[t].status \in {"PEND", "FAIL"}
  /\ threads[t].pc \in {"none", "chain"}
  /\ tests'[t].status = "FAIL" => threads' = threads /\ threads[t].pc = "none"

Ends(t) ==
  /\ tests[t].status = "PEND"
  /\ tests'[t].phase = tests[t].phase
  /\ tests'[t].status \in {"PASS", "FAIL"}
  /\ threads[t].pc = "finish" /\ threads[t].phase = tests[t].phase
  /\ tests'[t].status = "PASS" => threads[t].success

LEMMA UpdatePasses ==
  ASSUME TypeOK, NEW t \in Tests, CanUpdate(t, NextPhase(tests[t].phase), "PEND")
  PROVE  tests[t].status = "PASS"
<1>1. tests[t].phase # NextPhase(tests[t].phase)
  BY DEF TypeOK, Phases, NextPhase, INIT, MODEL_BUILD_PHASE, RUN_PHASE
<1> QED
  BY <1>1 DEF CanUpdate

LEMMA TestMoves ==
  ASSUME Inv, Agree, [Next]_vars, NEW t \in Tests
  PROVE  tests'[t] = tests[t] \/ Begins(t) \/ Ends(t)
<1>1. /\ tests \in [Tests -> [phase : Phases, status : Statuses]]
      /\ threads \in [Tests -> Threads]
      /\ TypeOK
  BY DEF Inv, TypeOK
<1>2. ASSUME NEW u \in Tests, Launch(u) \/ Refuse(u)
      PROVE  tests'[t] = tests[t] \/ Begins(t)
  <2>1. CASE u # t
    BY <1>1, <1>2, <2>1 DEF Launch, Refuse
  <2>2. CASE u = t
    <3>1. tests[t].status = "PASS"
      BY <1>1, <1>2, <2>2, UpdatePasses DEF Launch, Refuse
    <3>2. threads[t].pc = "none" /\ tests[t].phase # LastPhase
      BY <1>2, <2>2 DEF Launch, Refuse, Ready, WorkRemains, in_flight
    <3>3. /\ tests'[t].phase = NextPhase(tests[t].phase)
          /\ tests'[t].status \in {"PEND", "FAIL"}
          /\ tests'[t].status = "FAIL" => threads' = threads
      <4>1. CASE Launch(t)
        BY <1>1, <4>1 DEF Launch
      <4>2. CASE Refuse(t)
        <5>1. threads' = threads
          BY <4>2 DEF Refuse
        <5>2. tests'[t] = [phase |-> NextPhase(tests[t].phase), status |-> "FAIL"]
          BY <1>1, <4>2 DEF Refuse
        <5> QED
          BY <5>1, <5>2
      <4> QED
        BY <1>2, <2>2, <4>1, <4>2
    <3> QED
      BY <3>1, <3>2, <3>3 DEF Begins
  <2> QED
    BY <2>1, <2>2
<1>3. ASSUME NEW u \in Tests, ConsumerNext(u)
      PROVE  tests'[t] = tests[t] \/ Begins(t) \/ Ends(t)
  <2>1. CASE Finish(u) /\ u = t
    <3>1. /\ tests[t].phase = threads[t].phase /\ tests[t].status = "PEND"
          /\ threads[t].pc = "finish"
      BY <2>1 DEF Agree, InMemory, Finish
    <3>2. \/ tests' = tests
          \/ /\ tests' = [tests EXCEPT ![t] = [phase |-> threads[t].phase, status |-> FinalStatus(t)]]
             /\ FinalStatus(t) # "PEND"
      BY <2>1 DEF Finish
    <3>3. FinalStatus(t) \in {"PASS", "PEND", "FAIL"} /\ (FinalStatus(t) = "PASS" => threads[t].success)
      BY DEF FinalStatus
    <3> QED
      BY <1>1, <3>1, <3>2, <3>3 DEF Ends
  <2>2. CASE Chain(u) /\ u = t
    <3>1. tests[t].phase = MODEL_BUILD_PHASE /\ tests[t].status = "PASS"
      BY <2>2 DEF Agree, InMemory, Chain
    <3>2. LastPhase = RUN_PHASE
      BY <2>2 DEF Inv, ChainsToRun, Chain
    <3>3. \/ tests' = tests
          \/ tests' = [tests EXCEPT ![t] = [phase |-> RUN_PHASE, status |-> "PEND"]]
      BY <2>2 DEF Chain
    <3>4. threads[t].pc = "chain"
      BY <2>2 DEF Chain
    <3> QED
      BY <1>1, <3>1, <3>2, <3>3, <3>4 DEF Begins, NextPhase, MODEL_BUILD_PHASE, RUN_PHASE
  <2>3. CASE (Finish(u) \/ Chain(u)) /\ u # t
    BY <1>1, <2>3 DEF Finish, Chain
  <2>4. CASE ~Finish(u) /\ ~Chain(u)
    BY <1>3, <2>4 DEF ConsumerNext, CreateNewcase, Xml, XmlFails, Setup, Build, TakeBuild,
                      SkipRun, RunHere, Submit, SubmitFails, Die
  <2> QED
    BY <2>1, <2>2, <2>3, <2>4
<1>4. CASE ProducerNext
  BY <1>2, <1>4, QuietSteps DEF ProducerNext, ProducerMoves, Reap
<1>5. CASE \E u \in Tests : BatchJob(u)
  BY <1>5 DEF BatchJob
<1>6. CASE UNCHANGED vars
  BY <1>6 DEF vars
<1> QED
  BY <1>3, <1>4, <1>5, <1>6 DEF Next

(* A phase of a test that is not pending any more never is again. *)
LEMMA StaysSettled ==
  ASSUME Inv, Agree, [Next]_vars, NEW t \in Tests, NEW phase \in Phases,
         TestStatusAt(t, phase) # "PEND"
  PROVE  TestStatusAt(t, phase)' # "PEND"
<1>1. tests[t].phase \in Phases /\ tests[t].phase \in Int /\ phase \in Int
  BY DEF Inv, TypeOK, Phases, INIT
<1>2. NextPhase(tests[t].phase) > tests[t].phase /\ NextPhase(tests[t].phase) \in Int
  BY <1>1 DEF NextPhase, MODEL_BUILD_PHASE, RUN_PHASE
<1>3. CASE tests'[t] = tests[t]
  BY <1>3 DEF TestStatusAt
<1>4. CASE Begins(t)
  BY <1>1, <1>2, <1>4 DEF Begins, TestStatusAt
<1>5. CASE Ends(t)
  BY <1>1, <1>5 DEF Ends, TestStatusAt
<1> QED
  BY <1>3, <1>4, <1>5, TestMoves

(* A test for which nothing more is to be done stays so. *)
LEMMA StaysDone ==
  ASSUME Inv, Agree, [Next]_vars, NEW t \in Tests, ~WorkRemains(t)
  PROVE  ~WorkRemains(t)'
<1>1. CASE tests'[t] = tests[t]
  BY <1>1 DEF WorkRemains
<1>2. CASE Begins(t)
  BY <1>2 DEF Begins, WorkRemains
<1>3. CASE Ends(t)
  BY <1>3 DEF Ends, WorkRemains
<1> QED
  BY <1>1, <1>2, <1>3, TestMoves

-----------------------------------------------------------------------------
(* Tests that take over the build of another wait for it. *)

(* A test works on a phase it shares with its build group only once the    *)
(* first test of the group is through with that phase.                     *)
GroupSettled ==
  \A t \in Tests : ~IsFirst(t) /\ threads[t].pc = "phase" /\ threads[t].phase \in GroupPhases =>
    TestStatusAt(FirstOf[t], threads[t].phase) # "PEND"

LEMMA InitSettled == Init => GroupSettled
  BY DEF Init, GroupSettled, NoThread

(* Only a launch begins a phase that is shared. *)
LEMMA NextSettled ==
  ASSUME Inv, Agree, GroupSettled, [Next]_vars
  PROVE  GroupSettled'
<1>0. \A t \in Tests : threads'[t].phase \in Phases
  <2>1. Inv'
    BY NextInv
  <2> QED
    BY <2>1 DEF Inv, TypeOK, Threads
<1> SUFFICES ASSUME NEW t \in Tests, NEW p \in Phases, ~IsFirst(t),
                    threads'[t].pc = "phase", threads'[t].phase = p, p \in GroupPhases
             PROVE  TestStatusAt(FirstOf[t], p)' # "PEND"
  <2>1. SUFFICES ASSUME NEW t \in Tests, ~IsFirst(t), threads'[t].pc = "phase",
                        threads'[t].phase \in GroupPhases
                 PROVE  TestStatusAt(FirstOf[t], threads[t].phase)' # "PEND"
    BY DEF GroupSettled, IsFirst
  <2>2. PICK p \in Phases : p = threads'[t].phase
    BY <1>0
  <2>3. TestStatusAt(FirstOf[t], p)' # "PEND"
    BY <2>1, <2>2
  <2> QED
    BY <2>2, <2>3 DEF TestStatusAt
<1>1. /\ threads \in [Tests -> Threads]
      /\ FirstOf[t] \in Tests
      /\ TypeOK
      /\ procs_avail \in 0 .. ProcPool /\ ProcPool \in Nat
  BY TestsAssumption, ResourceAssumption DEF Inv, TypeOK
<1>2. TestStatusAt(FirstOf[t], p) # "PEND" => TestStatusAt(FirstOf[t], p)' # "PEND"
  BY <1>1, StaysSettled
<1>3. CASE threads'[t] = threads[t]
  BY <1>2, <1>3 DEF GroupSettled
<1>4. CASE Launch(t)
  <2>1. NextPhase(tests[t].phase) = p
    BY <1>1, <1>4 DEF Launch
  <2>2. ProcsNeeded(t, p) <= procs_avail
    BY <1>4, <2>1 DEF Launch, Enough
  <2>3. TestStatusAt(FirstOf[t], p) # "PEND"
    <3>1. SUFFICES ASSUME TestStatusAt(FirstOf[t], p) = "PEND" PROVE FALSE
      OBVIOUS
    <3>2. ProcsNeeded(t, p) = NotYet
      <4>1. IsE3SM /\ p # RUN_PHASE
        BY TestsAssumption DEF IsFirst, GroupPhases, XML_PHASE, SHAREDLIB_BUILD_PHASE,
                               MODEL_BUILD_PHASE, RUN_PHASE
      <4> QED
        BY <3>1, <4>1 DEF ProcsNeeded
    <3> QED
      BY <1>1, <2>2, <3>2 DEF NotYet
  <2> QED
    BY <1>2, <2>3
<1>5. ASSUME NEW u \in Tests, u # t, Launch(u)
      PROVE  threads'[t] = threads[t]
  BY <1>1, <1>5 DEF Launch
<1>6. CASE Reap
  BY <1>3, <1>6 DEF Reap, NoThread
<1>7. ASSUME NEW u \in Tests, ConsumerNext(u)
      PROVE  threads'[t] = threads[t]
  <2>1. CASE u # t
    <3>1. ConsumerMoves(u)
      BY <1>7, PhaseSteps
    <3> QED
      BY <1>1, <2>1, <3>1 DEF ConsumerMoves
  <2>2. CASE u = t /\ Chain(t)
    <3>1. threads'[t].phase = RUN_PHASE \/ threads'[t].pc = "dead"
      BY <1>1, <2>2 DEF Chain, Threads
    <3> QED
      BY <3>1 DEF GroupPhases, RUN_PHASE, XML_PHASE, SHAREDLIB_BUILD_PHASE, MODEL_BUILD_PHASE
  <2>3. CASE u = t /\ Finish(t)
    <3>1. threads'[t].pc \in {"chain", "dead"}
      BY <1>1, <2>3 DEF Finish
    <3> QED
      BY <3>1
  <2>4. CASE u = t /\ ~Chain(t) /\ ~Finish(t)
    <3>1. (\E success : Called(t, success)) \/ Die(t)
      BY <1>7, <2>4 DEF ConsumerNext, CreateNewcase, Xml, XmlFails, Setup, Build, TakeBuild,
                        SkipRun, RunHere, Submit, SubmitFails
    <3>2. threads'[t].pc \in {"finish", "dead"}
      BY <1>1, <3>1 DEF Called, Die, Threads
    <3> QED
      BY <3>2
  <2> QED
    BY <2>1, <2>2, <2>3, <2>4
<1>8. CASE UNCHANGED threads
  BY <1>3, <1>8
<1>9. CASE ProducerNext
  BY <1>3, <1>4, <1>5, <1>6, <1>8, <1>9, QuietSteps DEF ProducerNext, ProducerMoves, Refuse
<1>10. CASE \E u \in Tests : BatchJob(u)
  BY <1>8, <1>10 DEF BatchJob
<1>11. CASE UNCHANGED vars
  BY <1>8, <1>11 DEF vars
<1> QED
  BY <1>3, <1>7, <1>9, <1>10, <1>11 DEF Next

(* A test that has passed its XML phase, or is about to, has published the *)
(* EXEROOT of its group if it is the first of it, and the cost of a build  *)
(* has been scaled to the pool.                                            *)
PassesXml(t) ==
  \/ TestStatusAt(t, XML_PHASE) = "PASS"
  \/ threads[t].pc = "finish" /\ threads[t].phase = XML_PHASE /\ threads[t].success

Published ==
  \A t \in Tests : PassesXml(t) => /\ model_build_cost <= ProcPool
                                   /\ IsFirst(t) => t \in exeroots

LEMMA InitPublished ==
  ASSUME ~UseExisting
  PROVE  Init => Published
  BY DEF Init, Published, PassesXml, TestStatusAt, NoThread, INIT, XML_PHASE

LEMMA NextPublished ==
  ASSUME Inv, Agree, Published, [Next]_vars
  PROVE  Published'
<1>1. /\ threads \in [Tests -> Threads]
      /\ model_build_cost \in Nat /\ ProcPool \in Nat
      /\ \A u \in Tests : FirstOf[u] \in Tests
      /\ \A u \in Tests : tests[u].phase \in Int
  BY TestsAssumption, ResourceAssumption DEF Inv, TypeOK, Phases, INIT
<1>2. model_build_cost' <= model_build_cost /\ exeroots \subseteq exeroots'
  <2>1. ASSUME NEW u \in Tests, Xml(u)
        PROVE  model_build_cost' <= model_build_cost /\ exeroots \subseteq exeroots'
    <3>1. \/ model_build_cost' = model_build_cost
          \/ model_build_cost' = ProcPool /\ model_build_cost > ProcPool
      BY <2>1 DEF Xml
    <3>2. exeroots \subseteq exeroots'
      BY <2>1 DEF Xml
    <3> QED
      BY <1>1, <3>1, <3>2
  <2>2. CASE ~ \E u \in Tests : Xml(u)
    <3>1. UNCHANGED <<model_build_cost, exeroots>>
      BY <2>2 DEF Next, vars, ProducerNext, Skip, Full, Abort, Launch, Defer, Refuse, EndScan,
                  Reap, Join, WaitForTests, ConsumerNext, CreateNewcase, XmlFails, Setup, Build,
                  TakeBuild, SkipRun, RunHere, Submit, SubmitFails, Die, Finish, Chain, BatchJob
    <3> QED
      BY <1>1, <3>1
  <2> QED
    BY <2>1, <2>2
<1>3. model_build_cost' \in Nat
  <2>1. Inv'
    BY NextInv
  <2> QED
    BY <2>1, ResourceAssumption DEF Inv, TypeOK
<1>4. SUFFICES ASSUME NEW t \in Tests, PassesXml(t)'
               PROVE  \/ PassesXml(t)
                      \/ model_build_cost' <= ProcPool /\ (IsFirst(t) => t \in exeroots')
  <2>1. SUFFICES ASSUME NEW t \in Tests, PassesXml(t)'
                 PROVE  model_build_cost' <= ProcPool /\ (IsFirst(t) => t \in exeroots')
    BY DEF Published, IsFirst
  <2>2. CASE PassesXml(t)
    <3>1. model_build_cost <= ProcPool /\ (IsFirst(t) => t \in exeroots)
      BY <2>2 DEF Published
    <3> QED
      BY <1>1, <1>2, <1>3, <3>1
  <2> QED
    BY <2>1, <2>2
<1>5. CASE TestStatusAt(t, XML_PHASE)' = "PASS"
  <2>1. CASE tests'[t] = tests[t]
    BY <1>5, <2>1 DEF PassesXml, TestStatusAt
  <2>2. CASE Begins(t)
    <3>1. NextPhase(tests[t].phase) <= tests[t].phase + 1 \/ tests[t].phase = MODEL_BUILD_PHASE
      BY <1>1 DEF NextPhase
    <3>2. NextPhase(tests[t].phase) > XML_PHASE
      <4>1. NextPhase(tests[t].phase) \in Int /\ XML_PHASE \in Int
        BY <1>1 DEF NextPhase, XML_PHASE, RUN_PHASE
      <4> QED
        BY <1>5, <2>2, <4>1 DEF Begins, TestStatusAt
    <3>3. tests[t].phase >= XML_PHASE
      BY <1>1, <3>1, <3>2 DEF NextPhase, XML_PHASE, MODEL_BUILD_PHASE, RUN_PHASE
    <3> QED
      BY <1>1, <2>2, <3>3 DEF Begins, PassesXml, TestStatusAt, XML_PHASE
  <2>3. CASE Ends(t)
    BY <1>1, <1>5, <2>3 DEF Ends, PassesXml, TestStatusAt, XML_PHASE
  <2> QED
    BY <2>1, <2>2, <2>3, TestMoves
<1>6. CASE threads'[t].pc = "finish" /\ threads'[t].phase = XML_PHASE /\ threads'[t].success
  <2>1. CASE threads'[t] = threads[t]
    BY <1>6, <2>1 DEF PassesXml
  <2>2. CASE Xml(t)
    <3>1. threads'[t].success => Called(t, TRUE)
      BY <1>1, <2>2 DEF Xml, Called, Threads
    <3>2. IsFirst(t) = (FirstOf[t] \notin exeroots)
      <4>1. CASE ~(IsFirst(t) = (FirstOf[t] \notin exeroots))
        BY <1>1, <1>6, <2>2, <4>1 DEF Xml, Called, Threads
      <4> QED
        BY <4>1
    <3> QED
      BY <1>1, <2>2, <3>2 DEF Xml, IsFirst
  <2>3. ASSUME NEW u \in Tests, u # t, ConsumerNext(u) PROVE threads'[t] = threads[t]
    <3>1. ConsumerMoves(u)
      BY <2>3, PhaseSteps
    <3> QED
      BY <1>1, <2>3, <3>1 DEF ConsumerMoves
  <2>4. ASSUME ConsumerNext(t), ~Xml(t) PROVE FALSE
    <3>1. XML_PHASE \notin {CREATE_NEWCASE_PHASE, SETUP_PHASE, SHAREDLIB_BUILD_PHASE,
                            MODEL_BUILD_PHASE, RUN_PHASE}
      BY DEF XML_PHASE, CREATE_NEWCASE_PHASE, SETUP_PHASE, SHAREDLIB_BUILD_PHASE,
             MODEL_BUILD_PHASE, RUN_PHASE
    <3>2. CASE XmlFails(t)
      BY <1>1, <1>6, <3>2 DEF XmlFails, Called, Threads
    <3>3. CASE Die(t) \/ Finish(t) \/ Chain(t)
      <4>1. threads'[t].pc \in {"dead", "chain"} \/ Chain(t)
        <5>1. Die(t) => threads'[t].pc = "dead"
          BY <1>1 DEF Die
        <5>2. Finish(t) => threads'[t].pc \in {"dead", "chain"}
          BY <1>1 DEF Finish
        <5> QED
          BY <3>3, <5>1, <5>2
      <4>2. Chain(t) => threads'[t].pc \in {"dead", "phase"}
        BY <1>1 DEF Chain, Threads
      <4> QED
        BY <1>6, <4>1, <4>2
    <3>4. CASE ~XmlFails(t) /\ ~Die(t) /\ ~Finish(t) /\ ~Chain(t)
      <4>1. threads[t].phase # XML_PHASE /\ \E success : Called(t, success)
        BY <2>4, <3>1, <3>4 DEF ConsumerNext, CreateNewcase, Setup, Build, TakeBuild,
                                SkipRun, RunHere, Submit, SubmitFails, InPhase
      <4> QED
        BY <1>1, <1>6, <4>1 DEF Called, Threads
    <3> QED
      BY <3>2, <3>3, <3>4
  <2>5. ASSUME NEW u \in Tests, Launch(u) PROVE threads'[t] = threads[t]
    BY <1>1, <1>6, <2>5 DEF Launch
  <2>6. CASE Reap
    BY <1>6, <2>1, <2>6 DEF Reap, NoThread
  <2>7. CASE UNCHANGED threads
    BY <2>1, <2>7
  <2>8. CASE ProducerNext
    BY <2>1, <2>5, <2>6, <2>7, <2>8, QuietSteps DEF ProducerNext, ProducerMoves, Refuse
  <2>9. CASE \E u \in Tests : BatchJob(u)
    BY <2>7, <2>9 DEF BatchJob
  <2>10. CASE UNCHANGED vars
    BY <2>7, <2>10 DEF vars
  <2> QED
    BY <2>1, <2>2, <2>3, <2>4, <2>8, <2>9, <2>10 DEF Next
<1> QED
  BY <1>4, <1>5, <1>6 DEF PassesXml

(* Without --use-existing: a test that takes over the first test's build   *)
(* comes to a phase only after the first test is through with it, and, if  *)
(* that one passed its XML phase, finds its EXEROOT published.             *)
THEOREM BuildsAreThere ==
  ASSUME ~UseExisting
  PROVE  Spec => []BuildIsThere
<1>1. Published /\ GroupSettled => BuildIsThere
  <2> SUFFICES ASSUME Published, GroupSettled, NEW t \in Tests, ~IsFirst(t),
                      threads[t].pc = "phase"
               PROVE  /\ threads[t].phase \in {XML_PHASE, SHAREDLIB_BUILD_PHASE, MODEL_BUILD_PHASE} =>
                           TestStatusAt(FirstOf[t], threads[t].phase) # "PEND"
                      /\ threads[t].phase = XML_PHASE /\ TestStatusAt(FirstOf[t], XML_PHASE) = "PASS" =>
                           FirstOf[t] \in exeroots
    BY DEF BuildIsThere
  <2>1. FirstOf[t] \in Tests /\ IsFirst(FirstOf[t])
    BY TestsAssumption DEF IsFirst
  <2>2. threads[t].phase \in GroupPhases => TestStatusAt(FirstOf[t], threads[t].phase) # "PEND"
    BY DEF GroupSettled
  <2>3. TestStatusAt(FirstOf[t], XML_PHASE) = "PASS" => FirstOf[t] \in exeroots
    BY <2>1 DEF Published, PassesXml
  <2> QED
    BY <2>2, <2>3 DEF GroupPhases
<1>2. Inv /\ Agree /\ Published /\ GroupSettled /\ [Next]_vars => Published' /\ GroupSettled'
  BY NextPublished, NextSettled
<1>3. Init => Published /\ GroupSettled
  BY InitPublished, InitSettled
<1> QED
  BY <1>1, <1>2, <1>3, AlwaysAgree, PTL DEF Spec

-----------------------------------------------------------------------------
(* What the batch system holds of a test. *)

(* Every step is the producer's that touches no test, a reaping, or one    *)
(* that touches one test only.                                             *)
StepOf(t) == Launch(t) \/ Refuse(t) \/ ConsumerNext(t) \/ BatchJob(t)

SameTest(t) ==
  /\ tests'[t] = tests[t] /\ threads'[t] = threads[t]
  /\ file'[t] = file[t] /\ submits'[t] = submits[t]

LEMMA StepCases ==
  ASSUME Inv, [Next]_vars
  PROVE  \/ (ProducerMoves \/ UNCHANGED vars) /\ \A t \in Tests : SameTest(t)
         \/ Reap
         \/ \E t \in Tests : StepOf(t) /\ \A u \in Tests \ {t} : SameTest(u)
<1>1. ASSUME ProducerMoves \/ UNCHANGED vars PROVE \A t \in Tests : SameTest(t)
  BY <1>1 DEF ProducerMoves, vars, SameTest
<1>2. ASSUME NEW t \in Tests, StepOf(t), NEW u \in Tests, u # t PROVE SameTest(u)
  <2>1. /\ tests \in [Tests -> [phase : Phases, status : Statuses]]
        /\ threads \in [Tests -> Threads]
        /\ file \in [Tests -> [CORE_PHASES -> FileStatuses]]
        /\ submits \in [Tests -> [queued : BOOLEAN, count : Nat]]
    BY DEF Inv, TypeOK
  <2>2. CASE Launch(t)
    BY <1>2, <2>1, <2>2 DEF Launch, SameTest
  <2>3. CASE Refuse(t)
    BY <1>2, <2>1, <2>3 DEF Refuse, SameTest
  <2>4. CASE BatchJob(t)
    BY <1>2, <2>1, <2>4 DEF BatchJob, SameTest
  <2>5. CASE Finish(t) \/ Chain(t) \/ Die(t)
    <3>1. threads'[u] = threads[u]
      BY <1>2, <2>1, <2>5 DEF Finish, Chain, Die
    <3>2. tests'[u] = tests[u] /\ file'[u] = file[u] /\ submits'[u] = submits[u]
      BY <1>2, <2>1, <2>5 DEF Finish, Chain, Die
    <3> QED
      BY <3>1, <3>2 DEF SameTest
  <2>6. CASE \E success : Called(t, success)
    <3>1. threads'[u] = threads[u]
      BY <1>2, <2>1, <2>6 DEF Called
    <3>2. CASE Finish(t) \/ Chain(t) \/ Die(t) \/ Launch(t) \/ Refuse(t) \/ BatchJob(t)
      BY <2>2, <2>3, <2>4, <2>5, <3>2
    <3>3. CASE CreateNewcase(t) \/ Xml(t) \/ XmlFails(t) \/ Setup(t) \/ Build(t) \/ TakeBuild(t)
      BY <1>2, <2>1, <3>1, <3>3 DEF CreateNewcase, Xml, XmlFails, Setup, Build, TakeBuild, SameTest
    <3>4. CASE SkipRun(t) \/ RunHere(t) \/ Submit(t) \/ SubmitFails(t)
      BY <1>2, <2>1, <3>1, <3>4 DEF SkipRun, RunHere, Submit, SubmitFails, SameTest
    <3> QED
      BY <1>2, <3>2, <3>3, <3>4 DEF StepOf, ConsumerNext
  <2>7. CASE ~(\E success : Called(t, success))
    BY <1>2, <2>2, <2>3, <2>4, <2>5, <2>7
       DEF StepOf, ConsumerNext, CreateNewcase, Xml, XmlFails, Setup, Build, TakeBuild, SkipRun,
           RunHere, Submit, SubmitFails
  <2> QED
    BY <2>6, <2>7
<1>3. CASE ProducerNext
  BY <1>1, <1>2, <1>3, QuietSteps DEF ProducerNext, StepOf
<1>4. CASE \E t \in Tests : ConsumerNext(t) \/ BatchJob(t)
  BY <1>2, <1>4 DEF StepOf
<1>5. CASE UNCHANGED vars
  BY <1>1, <1>5
<1> QED
  BY <1>3, <1>4, <1>5 DEF Next

(* A TestStatus file in which SUBMIT has passed still waits for its RUN.   *)
RunToCome(ts) == ts[SUBMIT_PHASE] = "PASS" => ts[RUN_PHASE] = "PEND"

(* A test is submitted once and then pends in the file, whatever its       *)
(* thread and the producer do, until its job has run; and a test that is   *)
(* not submitted has no passed SUBMIT with a RUN that does not pend.       *)
InQueue(t) ==
  /\ submits[t].count \in {0, 1}
  /\ submits[t].count = 1 =>
       /\ ~NoBatch
       /\ tests[t].phase = RUN_PHASE /\ tests[t].status = "PEND"
       /\ threads[t].pc # "phase"
       /\ threads[t].pc = "finish" => threads[t].success
  /\ submits[t].queued =>
       /\ submits[t].count = 1
       /\ PassedInFile(t, MODEL_BUILD_PHASE)
       /\ file[t][SUBMIT_PHASE] = "PASS" /\ file[t][RUN_PHASE] = "PEND"
  /\ tests[t].phase # RUN_PHASE \/ threads[t].pc = "phase" => RunToCome(file[t])

Queue == \A t \in Tests : InQueue(t)

LEMMA InitQueue == Init => Queue
<1> SUFFICES ASSUME Init, NEW t \in Tests PROVE InQueue(t)
  BY DEF Queue
<1>1. /\ submits[t].count = 0 /\ ~submits[t].queued
      /\ threads[t].pc = "none"
  BY DEF Init, NoThread
<1>2. SUFFICES ASSUME tests[t].phase # RUN_PHASE PROVE RunToCome(file[t])
  BY <1>1 DEF InQueue
<1>3. SUBMIT_PHASE \in CORE_PHASES /\ RUN_PHASE \in CORE_PHASES /\ RUN_PHASE = SUBMIT_PHASE + 1
  BY DEF CORE_PHASES, CREATE_NEWCASE_PHASE, SUBMIT_PHASE, RUN_PHASE
<1>4. CASE ~UseExisting
  BY <1>3, <1>4 DEF Init, PassedUpTo, RunToCome, INIT, SUBMIT_PHASE, NoStatus
<1>5. CASE UseExisting
  <2>1. PICK last \in [Tests -> INIT .. LastPhase], next \in {"PEND", "FAIL"} :
          /\ tests = [u \in Tests |-> [phase |-> ResumedAt(last[u]), status |-> "PASS"]]
          /\ file = [u \in Tests |-> Resumed(PassedUpTo(last[u], next))]
    BY <1>5 DEF Init
  <2>2. tests[t].phase = ResumedAt(last[t]) /\ file[t] = Resumed(PassedUpTo(last[t], next))
    BY <2>1
  <2>3. last[t] \in INIT .. LastPhase /\ last[t] # RUN_PHASE
    BY <1>2, <2>1, <2>2 DEF ResumedAt, SUBMIT_PHASE, RUN_PHASE
  <2>4. last[t] \in 0 .. 6
    BY <2>3, OptionAssumption DEF INIT, XML_PHASE, SETUP_PHASE, MODEL_BUILD_PHASE, RUN_PHASE
  <2>5. CASE last[t] = SUBMIT_PHASE
    <3>1. PassedUpTo(last[t], next)[RUN_PHASE] = next
      BY <1>3, <2>5 DEF PassedUpTo, SUBMIT_PHASE
    <3>2. file[t][RUN_PHASE] = "PEND"
      BY <1>3, <2>1, <2>2, <3>1 DEF Resumed
    <3> QED
      BY <3>2 DEF RunToCome
  <2>6. CASE last[t] # SUBMIT_PHASE
    <3>1. PassedUpTo(last[t], next)[SUBMIT_PHASE] # "PASS"
      BY <1>3, <2>1, <2>4, <2>6 DEF PassedUpTo, SUBMIT_PHASE, NoStatus
    <3>2. file[t][SUBMIT_PHASE] # "PASS"
      BY <1>3, <2>2, <3>1 DEF Resumed
    <3> QED
      BY <3>2 DEF RunToCome
  <2> QED
    BY <2>5, <2>6
<1> QED
  BY <1>4, <1>5

(* Setting a phase before SUBMIT either leaves SUBMIT and RUN as they are  *)
(* or takes SUBMIT back.                                                   *)
LEMMA SetKeepsRun ==
  ASSUME NEW ts \in [CORE_PHASES -> FileStatuses],
         NEW phase \in CREATE_NEWCASE_PHASE .. MODEL_BUILD_PHASE, NEW status \in Statuses
  PROVE  /\ RunToCome(ts) => RunToCome(SetStatus(ts, phase, status))
         /\ RunToCome(ts) => RunToCome(RanPhase(ts, phase, status))
<1>1. ASSUME NEW old \in [CORE_PHASES -> FileStatuses], NEW new \in Statuses, RunToCome(old)
      PROVE  RunToCome(SetStatus(old, phase, new))
  <2>1. SUBMIT_PHASE \in CORE_PHASES /\ RUN_PHASE \in CORE_PHASES
    BY DEF CORE_PHASES, CREATE_NEWCASE_PHASE, SUBMIT_PHASE, RUN_PHASE
  <2>2. /\ phase < SUBMIT_PHASE /\ phase < RUN_PHASE /\ phase # SUBMIT_PHASE /\ phase # RUN_PHASE
        /\ RUN_PHASE # phase + 1
    BY DEF CREATE_NEWCASE_PHASE, MODEL_BUILD_PHASE, SUBMIT_PHASE, RUN_PHASE
  <2>3. SetStatus(old, phase, new)[RUN_PHASE] =
          IF ReranPhase(old, phase) THEN NoStatus ELSE old[RUN_PHASE]
    BY <2>1, <2>2 DEF SetStatus
  <2>4. \/ SetStatus(old, phase, new)[SUBMIT_PHASE] = "PEND"
        \/ SetStatus(old, phase, new)[SUBMIT_PHASE] =
              IF ReranPhase(old, phase) THEN NoStatus ELSE old[SUBMIT_PHASE]
    BY <2>1, <2>2 DEF SetStatus
  <2> QED
    BY <1>1, <2>3, <2>4 DEF RunToCome, NoStatus
<1>2. SetStatus(ts, phase, "PEND") \in [CORE_PHASES -> FileStatuses] /\ "PEND" \in Statuses
  BY SetStatusType DEF Statuses
<1> QED
  BY <1>1, <1>2 DEF RanPhase

(* After case.submit has submitted, the file waits for the run. *)
LEMMA SubmittingWaits ==
  ASSUME NEW ts \in [CORE_PHASES -> FileStatuses], RunToCome(ts)
  PROVE  /\ Submitting(ts)[SUBMIT_PHASE] = "PASS" /\ Submitting(ts)[RUN_PHASE] = "PEND"
         /\ \A q \in CREATE_NEWCASE_PHASE .. MODEL_BUILD_PHASE : Submitting(ts)[q] = ts[q]
<1>1. CASE ts[SUBMIT_PHASE] = "PASS"
  BY <1>1 DEF Submitting, RunToCome
<1>2. CASE ts[SUBMIT_PHASE] # "PASS"
  <2>1. SUBMIT_PHASE \in CORE_PHASES /\ RUN_PHASE \in CORE_PHASES
    BY DEF CORE_PHASES, CREATE_NEWCASE_PHASE, SUBMIT_PHASE, RUN_PHASE
  <2>2. /\ RUN_PHASE = SUBMIT_PHASE + 1 /\ SUBMIT_PHASE # RUN_PHASE
        /\ \A q \in CREATE_NEWCASE_PHASE .. MODEL_BUILD_PHASE : q \in CORE_PHASES /\ q < SUBMIT_PHASE
    BY DEF CORE_PHASES, CREATE_NEWCASE_PHASE, MODEL_BUILD_PHASE, SUBMIT_PHASE, RUN_PHASE
  <2>3. SetStatus(ts, SUBMIT_PHASE, "PASS")[RUN_PHASE] = "PEND"
    BY <2>1, <2>2 DEF SetStatus
  <2>4. /\ SetStatus(ts, SUBMIT_PHASE, "PASS")[SUBMIT_PHASE] = "PASS"
        /\ \A q \in CORE_PHASES : q < SUBMIT_PHASE => SetStatus(ts, SUBMIT_PHASE, "PASS")[q] = ts[q]
    BY <2>1, SetStatusKeeps DEF Statuses
  <2> QED
    BY <1>2, <2>2, <2>3, <2>4 DEF Submitting
<1> QED
  BY <1>1, <1>2

(* A test that has not been submitted stays so in every step but Submit;   *)
(* what is left to see is that its file can still be submitted.            *)
LEMMA NotSubmitted ==
  ASSUME Inv, NEW t \in Tests, InQueue(t), submits[t].count = 0, submits'[t] = submits[t],
         tests'[t].phase # RUN_PHASE \/ threads'[t].pc = "phase" => RunToCome(file'[t])
  PROVE  InQueue(t)'
<1>1. ~submits[t].queued
  BY DEF InQueue
<1> QED
  BY <1>1 DEF InQueue, RunToCome

LEMMA StepQueue ==
  ASSUME Inv, Agree, Queue, NEW t \in Tests, StepOf(t)
  PROVE  InQueue(t)'
<1> DEFINE phases == CREATE_NEWCASE_PHASE .. MODEL_BUILD_PHASE
<1>1. /\ tests \in [Tests -> [phase : Phases, status : Statuses]]
      /\ threads \in [Tests -> Threads]
      /\ file \in [Tests -> [CORE_PHASES -> FileStatuses]]
      /\ file[t] \in [CORE_PHASES -> FileStatuses]
      /\ submits \in [Tests -> [queued : BOOLEAN, count : Nat]]
      /\ InQueue(t) /\ InMemory(t) /\ OnFile(t)
      /\ TypeOK
  BY DEF Inv, TypeOK, Queue, Agree
<1>2. /\ \A p \in Phases : p # RUN_PHASE => p \in phases \/ p = INIT
      /\ RUN_PHASE \notin phases /\ RUN_PHASE # INIT
      /\ {CREATE_NEWCASE_PHASE, XML_PHASE, SETUP_PHASE, SHAREDLIB_BUILD_PHASE, MODEL_BUILD_PHASE}
           \subseteq phases
      /\ "PASS" \in Statuses /\ "FAIL" \in Statuses /\ "PEND" \in Statuses
  BY OptionAssumption
     DEF Phases, INIT, CREATE_NEWCASE_PHASE, XML_PHASE, SETUP_PHASE, SHAREDLIB_BUILD_PHASE,
         MODEL_BUILD_PHASE, SUBMIT_PHASE, RUN_PHASE, Statuses
<1>3. threads[t].pc = "phase" => submits[t].count = 0 /\ RunToCome(file[t])
  BY <1>1 DEF InQueue
<1>4. tests[t].phase # RUN_PHASE => submits[t].count = 0 /\ RunToCome(file[t])
  BY <1>1 DEF InQueue
<1>5. ASSUME Launch(t) \/ Refuse(t) PROVE InQueue(t)'
  <2>1. tests[t].status = "PASS" /\ tests[t].phase # RUN_PHASE
    <3>1. tests[t].phase # LastPhase /\ tests[t].phase \in Phases
      BY <1>1, <1>5 DEF Launch, Refuse, Ready, WorkRemains
    <3> QED
      BY <1>1, <1>5, <3>1, UpdatePasses, RunIsLast DEF Launch, Refuse
  <2>2. submits' = submits /\ submits[t].count = 0 /\ RunToCome(file[t])
    BY <1>4, <1>5, <2>1 DEF Launch, Refuse
  <2>3. CASE Launch(t)
    BY <1>1, <2>2, <2>3, NotSubmitted DEF Launch
  <2>4. CASE Refuse(t)
    <3>1. tests'[t].phase = NextPhase(tests[t].phase) /\ threads' = threads /\ threads[t].pc = "none"
      BY <1>1, <2>4 DEF Refuse, Ready, in_flight
    <3>2. CASE NextPhase(tests[t].phase) = RUN_PHASE
      BY <1>1, <2>2, <3>1, <3>2, NotSubmitted
    <3>3. CASE NextPhase(tests[t].phase) # RUN_PHASE
      <4>1. NextPhase(tests[t].phase) \in phases
        <5>1. tests[t].phase \in Phases /\ tests[t].phase # LastPhase
          BY <1>1, <2>4 DEF Refuse, Ready, WorkRemains
        <5> QED
          BY <3>3, <5>1, OptionAssumption
             DEF NextPhase, Phases, INIT, CREATE_NEWCASE_PHASE, XML_PHASE, SETUP_PHASE,
                 MODEL_BUILD_PHASE, SUBMIT_PHASE, RUN_PHASE
      <4>2. file'[t] = file[t] \/ file'[t] = SetStatus(file[t], NextPhase(tests[t].phase), "FAIL")
        BY <1>1, <2>4, <3>3 DEF Refuse
      <4>3. RunToCome(file'[t])
        BY <1>1, <1>2, <2>2, <4>1, <4>2, SetKeepsRun
      <4> QED
        BY <1>1, <2>2, <4>3, NotSubmitted
    <3> QED
      BY <3>2, <3>3
  <2> QED
    BY <1>5, <2>3, <2>4
<1>6. ASSUME CreateNewcase(t) \/ Xml(t) \/ XmlFails(t) \/ Setup(t) \/ Build(t) \/ TakeBuild(t)
      PROVE  InQueue(t)'
  <2>1. threads[t].pc = "phase" /\ submits' = submits
    BY <1>6 DEF CreateNewcase, Xml, XmlFails, Setup, Build, TakeBuild, InPhase
  <2>2. RunToCome(file'[t])
    <3>1. CASE Setup(t)
      <4>1. \/ file'[t] = SetStatus(file[t], SETUP_PHASE, "PASS")
            \/ file'[t] = SetStatus(file[t], SETUP_PHASE, "FAIL")
        BY <1>1, <3>1 DEF Setup
      <4> QED
        BY <1>1, <1>2, <1>3, <2>1, <4>1, SetKeepsRun
    <3>2. CASE Build(t)
      <4>1. PICK phase \in {SHAREDLIB_BUILD_PHASE, MODEL_BUILD_PHASE} :
              \/ file' = [file EXCEPT ![t] = RanPhase(@, phase, "PASS")]
              \/ file' = [file EXCEPT ![t] = RanPhase(@, phase, "FAIL")]
        BY <3>2 DEF Build
      <4> QED
        BY <1>1, <1>2, <1>3, <2>1, <4>1, SetKeepsRun
    <3>3. CASE ~Setup(t) /\ ~Build(t)
      BY <1>3, <1>6, <2>1, <3>3 DEF CreateNewcase, Xml, XmlFails, TakeBuild
    <3> QED
      BY <3>1, <3>2, <3>3
  <2> QED
    BY <1>1, <1>3, <2>1, <2>2, NotSubmitted
<1>7. ASSUME SkipRun(t) \/ RunHere(t) \/ SubmitFails(t) PROVE InQueue(t)'
  <2>1. threads[t].pc = "phase" /\ threads[t].phase = RUN_PHASE /\ UNCHANGED <<submits, tests>>
    BY <1>7 DEF SkipRun, RunHere, SubmitFails, InPhase
  <2>2. threads'[t].pc = "finish"
    BY <1>1, <1>7 DEF SkipRun, RunHere, SubmitFails, Called, Threads
  <2>3. tests[t].phase = RUN_PHASE
    BY <1>1, <2>1 DEF InMemory
  <2> QED
    BY <1>1, <1>3, <2>1, <2>2, <2>3, NotSubmitted
<1>8. ASSUME Submit(t) PROVE InQueue(t)'
  <2>1. /\ threads[t].pc = "phase" /\ threads[t].phase = RUN_PHASE /\ tests' = tests /\ ~NoBatch
        /\ submits'[t].queued = TRUE /\ submits'[t].count = submits[t].count + 1
        /\ file'[t] = Submitting(file[t])
    BY <1>1, <1>8 DEF Submit, InPhase
  <2>2. threads'[t].pc = "finish" /\ threads'[t].success = TRUE
    BY <1>1, <1>8 DEF Submit, Called, Threads
  <2>3. tests[t].phase = RUN_PHASE /\ tests[t].status = "PEND"
    BY <1>1, <2>1 DEF InMemory
  <2>4. PassedInFile(t, MODEL_BUILD_PHASE)
    BY <1>1, <2>1 DEF OnFile, PhaseBefore
  <2>5. /\ file'[t][SUBMIT_PHASE] = "PASS" /\ file'[t][RUN_PHASE] = "PEND"
        /\ PassedInFile(t, MODEL_BUILD_PHASE)'
    BY <1>1, <1>3, <2>1, <2>4, SubmittingWaits DEF PassedInFile
  <2>6. submits'[t].count = 1
    BY <1>3, <2>1
  <2> QED
    BY <2>1, <2>2, <2>3, <2>5, <2>6 DEF InQueue, RunToCome
<1>9. ASSUME Finish(t) PROVE InQueue(t)'
  <2>1. /\ tests[t].phase = threads[t].phase /\ threads[t].pc = "finish" /\ submits' = submits
        /\ threads'[t].pc \in {"chain", "dead"} /\ tests'[t].phase = tests[t].phase
    <3>1. tests[t].phase = threads[t].phase /\ threads[t].pc = "finish"
      BY <1>1, <1>9 DEF Finish, InMemory
    <3>2. tests'[t].phase \in {tests[t].phase, threads[t].phase}
      BY <1>1, <1>9 DEF Finish
    <3>3. threads'[t].pc \in {"chain", "dead"} /\ submits' = submits
      BY <1>1, <1>9 DEF Finish
    <3> QED
      BY <3>1, <3>2, <3>3
  <2>2. CASE tests[t].phase # RUN_PHASE
    <3>1. file'[t] = file[t] \/ file'[t] = SetStatus(file[t], threads[t].phase, FinalStatus(t))
      BY <1>1, <1>9 DEF Finish
    <3>2. threads[t].phase \in phases \/ file'[t] = file[t]
      BY <1>1, <1>2, <1>9 DEF Finish, WritesFile
    <3>3. FinalStatus(t) \in Statuses
      BY <1>2 DEF FinalStatus
    <3>4. RunToCome(file'[t])
      BY <1>1, <1>4, <2>2, <3>1, <3>2, <3>3, SetKeepsRun
    <3> QED
      BY <1>1, <1>4, <2>1, <2>2, <3>4, NotSubmitted
  <2>3. CASE tests[t].phase = RUN_PHASE
    <3>1. file' = file
      BY <1>2, <1>9, <2>1, <2>3 DEF Finish, WritesFile
    <3>2. submits[t].count = 1 => tests'[t] = tests[t]
      <4>1. submits[t].count = 1 => FinalStatus(t) = "PEND"
        BY <1>1, <2>1, <2>3 DEF InQueue, FinalStatus
      <4> QED
        BY <1>9, <4>1 DEF Finish
    <3>3. tests'[t].phase = RUN_PHASE
      BY <2>1, <2>3
    <3> QED
      BY <1>1, <2>1, <3>1, <3>2, <3>3 DEF InQueue, PassedInFile
  <2> QED
    BY <2>2, <2>3
<1>10. ASSUME Chain(t) PROVE InQueue(t)'
  <2>1. tests[t].phase # RUN_PHASE
    BY <1>1, <1>10 DEF Chain, InMemory, MODEL_BUILD_PHASE, RUN_PHASE
  <2> QED
    BY <1>1, <1>4, <1>10, <2>1, NotSubmitted DEF Chain
<1>11. ASSUME Die(t) PROVE InQueue(t)'
  BY <1>1, <1>3, <1>11, NotSubmitted DEF Die
<1>12. ASSUME BatchJob(t) PROVE InQueue(t)'
  <2>1. /\ submits[t].count = 1 /\ tests' = tests /\ threads' = threads
        /\ submits'[t].queued = FALSE /\ submits'[t].count = 1
    BY <1>1, <1>12 DEF BatchJob, InQueue
  <2> QED
    BY <1>1, <2>1 DEF InQueue
<1> QED
  BY <1>5, <1>6, <1>7, <1>8, <1>9, <1>10, <1>11, <1>12 DEF StepOf, ConsumerNext

LEMMA NextQueue ==
  ASSUME Inv, Agree, Queue, [Next]_vars
  PROVE  Queue'
<1>1. ASSUME NEW t \in Tests, SameTest(t) PROVE InQueue(t)'
  BY <1>1 DEF SameTest, Queue, InQueue, PassedInFile
<1>2. CASE Reap
  <2> SUFFICES ASSUME NEW t \in Tests PROVE InQueue(t)'
    BY DEF Queue
  <2>1. threads'[t] = threads[t] \/ threads'[t].pc = "none"
    BY <1>2 DEF Reap, NoThread
  <2> QED
    BY <1>2, <2>1 DEF Reap, Queue, InQueue, PassedInFile
<1> QED
  BY <1>1, <1>2, StepCases, StepQueue DEF Queue

LEMMA AlwaysQueue == Spec => [](Inv /\ Agree /\ Queue)
<1>1. Inv /\ Agree /\ Queue /\ [Next]_vars => Queue'
  BY NextQueue
<1> QED
  BY <1>1, InitQueue, AlwaysAgree, PTL DEF Spec

(* Whether its consumer submits a test by itself or the producer launches  *)
(* its RUN phase, and whatever dies in between, it is submitted only once. *)
THEOREM OnlySubmittedOnce == Spec => []SubmittedOnce
<1>1. Queue => SubmittedOnce
  BY DEF Queue, InQueue, SubmittedOnce
<1> QED
  BY <1>1, AlwaysQueue, PTL

-----------------------------------------------------------------------------
(* What the producer knows when it comes to an end. *)

(* Once it has joined its threads there is none, and a job that is queued  *)
(* is one it has waited for.                                               *)
AfterJoin ==
  /\ producer.pc \in {"wait_for_tests", "exit"} => \A t \in Tests : threads[t].pc \in {"none", "dead"}
  /\ producer.pc = "exit" /\ Wait => \A t \in Tests : ~submits[t].queued

(* An overall status is pending if the first phase that is open pends. *)
LEMMA OpenRunPends ==
  ASSUME NEW ts \in [CORE_PHASES -> FileStatuses],
         \A p \in CREATE_NEWCASE_PHASE .. MODEL_BUILD_PHASE : ts[p] = "PASS",
         ts[SUBMIT_PHASE] = "PASS", ts[RUN_PHASE] = "PEND"
  PROVE  OverallStatus(ts, TRUE) = "PEND"
<1>1. {p \in CORE_PHASES : ts[p] \in {"PEND", "FAIL"}} = {RUN_PHASE}
  BY DEF CORE_PHASES, CREATE_NEWCASE_PHASE, MODEL_BUILD_PHASE, SUBMIT_PHASE, RUN_PHASE
<1>2. (CHOOSE p \in {RUN_PHASE} : \A q \in {RUN_PHASE} : p <= q) = RUN_PHASE
  BY DEF RUN_PHASE
<1>3. CoreStatus(ts, TRUE) = "PEND"
  BY <1>1, <1>2 DEF CoreStatus
<1> QED
  BY <1>3 DEF OverallStatus

LEMMA NextAfterJoin ==
  ASSUME Inv, Agree, Queue, AfterJoin, [Next]_vars
  PROVE  AfterJoin'
<1>1. /\ producer \in [pc : ProducerPCs, at : 1 .. NumTests + 1, work : BOOLEAN, launched : BOOLEAN]
      /\ threads \in [Tests -> Threads]
  BY DEF Inv, TypeOK, Producer
<1>2. ASSUME NEW t \in Tests, ConsumerNext(t) PROVE AfterJoin'
  <2>1. producer' = producer
    BY <1>2, PhaseSteps DEF ConsumerMoves
  <2>2. threads[t].pc \notin {"none", "dead"}
    BY <1>2 DEF ConsumerNext, CreateNewcase, Xml, XmlFails, Setup, Build, TakeBuild, SkipRun,
                RunHere, Submit, SubmitFails, Die, Finish, Chain, InPhase
  <2> QED
    BY <2>1, <2>2 DEF AfterJoin
<1>3. ASSUME NEW t \in Tests, BatchJob(t) PROVE AfterJoin'
  BY <1>3 DEF BatchJob, AfterJoin
<1>4. CASE Join
  <2>1. \A t \in Tests : threads[t].pc \in {"none", "dead"}
    BY <1>4 DEF Join, in_flight
  <2>2. threads' = threads /\ submits' = submits
    BY <1>4 DEF Join
  <2>3. CASE Wait /\ LastPhase = RUN_PHASE /\ ~NoBatch
    BY <1>1, <1>4, <2>1, <2>2, <2>3 DEF Join, AfterJoin
  <2>4. CASE ~(Wait /\ LastPhase = RUN_PHASE /\ ~NoBatch)
    <3>1. \A t \in Tests : Wait => ~submits[t].queued
      BY <2>4, RunIsLast DEF Queue, InQueue, Inv, TypeOK
    <3> QED
      BY <2>1, <2>2, <3>1 DEF AfterJoin
  <2> QED
    BY <2>3, <2>4
<1>5. CASE WaitForTests
  <2>1. ASSUME NEW t \in Tests, submits[t].queued PROVE FALSE
    <3>1. /\ file[t] \in [CORE_PHASES -> FileStatuses]
          /\ file[t][SUBMIT_PHASE] = "PASS" /\ file[t][RUN_PHASE] = "PEND"
          /\ \A p \in CREATE_NEWCASE_PHASE .. MODEL_BUILD_PHASE : file[t][p] = "PASS"
      BY <2>1 DEF Queue, InQueue, PassedInFile, Inv, TypeOK, CREATE_NEWCASE_PHASE, MODEL_BUILD_PHASE
    <3>2. OverallStatus(file[t], TRUE) = "PEND"
      BY <3>1, OpenRunPends
    <3>3. RUN_PHASE \in CORE_PHASES /\ file[t][RUN_PHASE] # NoStatus
      BY <3>1 DEF CORE_PHASES, CREATE_NEWCASE_PHASE, RUN_PHASE, NoStatus
    <3> QED
      BY <1>5, <2>1, <3>2, <3>3 DEF WaitForTests, Pending
  <2>2. UNCHANGED <<threads, submits>> /\ producer.pc = "wait_for_tests"
    BY <1>5 DEF WaitForTests
  <2> QED
    BY <2>1, <2>2 DEF AfterJoin
<1>6. ASSUME producer'.pc \in {"scan", "wait", "join", "aborted"} PROVE AfterJoin'
  BY <1>6 DEF AfterJoin
<1>7. CASE \E t \in Tests : Skip(t) \/ Full(t) \/ Abort(t) \/ Launch(t) \/ Defer(t) \/ Refuse(t)
  BY <1>1, <1>6, <1>7 DEF Skip, Full, Abort, Launch, Defer, Refuse, AtTest, Ready, Moved
<1>8. CASE EndScan \/ Reap
  BY <1>1, <1>6, <1>8 DEF EndScan, Reap, NewScan
<1>9. CASE UNCHANGED vars
  BY <1>9 DEF vars, AfterJoin
<1> QED
  BY <1>2, <1>3, <1>4, <1>5, <1>7, <1>8, <1>9 DEF Next, ProducerNext

(* With --wait, create_test does not exit while a job it has submitted is  *)
(* queued: the file of such a test pends, whatever it looked like before.  *)
THEOREM JobsAreWaitedFor == Spec => []WaitedForJobs
<1>1. Init => AfterJoin
  BY DEF Init, AfterJoin, NewScan
<1>2. Inv /\ Agree /\ Queue /\ AfterJoin /\ [Next]_vars => AfterJoin'
  BY NextAfterJoin
<1>3. AfterJoin => WaitedForJobs
  BY DEF AfterJoin, WaitedForJobs
<1> QED
  BY <1>1, <1>2, <1>3, AlwaysQueue, PTL DEF Spec

-----------------------------------------------------------------------------
(* What the producer has scanned. *)

(* What the producer has scanned stays without work: it knows so when it   *)
(* stops, and when nothing is in flight.                                   *)
Scanned ==
  /\ producer.pc = "scan" /\ (~producer.work \/ in_flight = {}) =>
       \A u \in Tests : u < producer.at => ~WorkRemains(u)
  /\ producer.pc \in {"join", "wait_for_tests", "exit"} => \A u \in Tests : ~WorkRemains(u)

LEMMA NextScanned ==
  ASSUME Inv, Agree, Scanned, [Next]_vars
  PROVE  Scanned'
<1>1. /\ producer \in [pc : ProducerPCs, at : 1 .. NumTests + 1, work : BOOLEAN, launched : BOOLEAN]
      /\ threads \in [Tests -> Threads]
      /\ tests \in [Tests -> [phase : Phases, status : Statuses]]
      /\ NumTests \in Nat /\ Tests = 1 .. NumTests
      /\ \A u \in Tests : ~WorkRemains(u) => ~WorkRemains(u)'
  BY TestsAssumption, StaysDone DEF Inv, TypeOK, Producer, Tests
<1>2. ASSUME producer' = producer, in_flight' = {} => in_flight = {} PROVE Scanned'
  BY <1>1, <1>2 DEF Scanned
<1>3. ASSUME NEW t \in Tests, ConsumerNext(t) PROVE Scanned'
  <2>1. ConsumerMoves(t)
    BY <1>3, PhaseSteps
  <2>2. threads'[t].pc \in {"phase", "finish", "chain", "dead"} /\ producer' = producer
    BY <1>1, <2>1 DEF ConsumerMoves
  <2>3. t \in in_flight'
    BY <2>2 DEF in_flight
  <2> QED
    BY <1>2, <2>2, <2>3
<1>4. ASSUME NEW t \in Tests, BatchJob(t) PROVE Scanned'
  BY <1>2, <1>4 DEF BatchJob, in_flight
<1>5. ASSUME NEW t \in Tests, Skip(t) PROVE Scanned'
  <2>1. producer.pc = "scan" /\ producer.at = t /\ in_flight' = in_flight /\ t \in Int
    BY <1>1, <1>5 DEF Skip, AtTest, in_flight
  <2>2. /\ producer'.pc = "scan" /\ producer'.at = t + 1
        /\ producer'.work = (producer.work \/ WorkRemains(t))
    BY <1>1, <1>5, <2>1 DEF Skip, Moved
  <2>3. WorkRemains(t) => in_flight # {}
    BY <1>5 DEF Skip
  <2>4. ASSUME ~producer'.work \/ in_flight' = {}, NEW u \in Tests, u < t + 1
        PROVE  ~WorkRemains(u)
    <3>1. u = t \/ u < t
      BY <1>1, <2>1, <2>4
    <3>2. ~producer.work \/ in_flight = {}
      BY <1>1, <2>1, <2>2, <2>4
    <3>3. ~WorkRemains(t)
      BY <1>1, <2>1, <2>2, <2>3, <2>4
    <3> QED
      BY <2>1, <3>1, <3>2, <3>3 DEF Scanned
  <2> QED
    BY <1>1, <2>2, <2>4 DEF Scanned
<1>6. ASSUME NEW t \in Tests, Full(t) PROVE Scanned'
  <2>1. in_flight # {}
    <3>1. Cardinality({}) = 0
      BY FS_EmptySet
    <3> QED
      BY <1>6, <3>1, ResourceAssumption DEF Full, WorkersFull
  <2>2. producer'.pc = "scan" /\ producer'.work = TRUE /\ in_flight' = in_flight
    BY <1>1, <1>6 DEF Full, AtTest, in_flight
  <2> QED
    BY <2>1, <2>2 DEF Scanned
<1>7. ASSUME NEW t \in Tests, Launch(t) PROVE Scanned'
  <2>1. producer'.pc = "scan" /\ producer'.work = TRUE
    BY <1>1, <1>7 DEF Launch, Ready, AtTest, Moved
  <2>2. t \in in_flight'
    BY <1>1, <1>7 DEF Launch, in_flight
  <2> QED
    BY <2>1, <2>2 DEF Scanned
<1>8. ASSUME NEW t \in Tests, Defer(t) PROVE Scanned'
  <2>1. producer'.pc = "scan" /\ producer'.work = TRUE
    BY <1>1, <1>8 DEF Defer, Ready, AtTest, Moved
  <2>2. in_flight' # {}
    BY <1>8 DEF Defer, MoreToCome, in_flight
  <2> QED
    BY <2>1, <2>2 DEF Scanned
<1>9. ASSUME NEW t \in Tests, Refuse(t) PROVE Scanned'
  <2>1. /\ producer.pc = "scan" /\ producer.at = t /\ in_flight = {} /\ t \in Int
        /\ \/ producer'.pc = "aborted"
           \/ producer'.pc = "scan" /\ producer'.at = t + 1
    <3>1. producer.pc = "scan" /\ producer.at = t /\ in_flight = {} /\ t \in Int
      BY <1>1, <1>9 DEF Refuse, Ready, AtTest, MoreToCome
    <3>2. CASE Moved(TRUE, TRUE)
      BY <1>1, <3>1, <3>2 DEF Moved
    <3>3. CASE producer' = [producer EXCEPT !.pc = "aborted"]
      BY <1>1, <3>1, <3>3
    <3> QED
      BY <1>9, <3>2, <3>3 DEF Refuse
  <2>2. ~WorkRemains(t)'
    <3>1. tests' = [tests EXCEPT ![t] = [phase |-> NextPhase(tests[t].phase), status |-> "FAIL"]]
      BY <1>9 DEF Refuse
    <3>2. tests'[t].status = "FAIL"
      BY <1>1, <3>1
    <3> QED
      BY <3>2 DEF WorkRemains
  <2>3. \A u \in Tests : u < t + 1 => u = t \/ u < t
    BY <1>1, <2>1
  <2> QED
    BY <1>1, <2>1, <2>2, <2>3 DEF Scanned
<1>10. CASE EndScan
  <2>1. CASE ~producer.work
    <3>1. \A u \in Tests : ~WorkRemains(u)
      BY <1>1, <1>10, <2>1 DEF EndScan, AtTest, Scanned
    <3> QED
      BY <1>1, <1>10, <2>1, <3>1 DEF EndScan, Scanned
  <2>2. CASE producer.work
    <3>1. producer'.pc \in {"wait", "aborted"} \/ producer' = NewScan
      BY <1>1, <1>10, <2>2 DEF EndScan
    <3> QED
      BY <1>1, <3>1 DEF Scanned, NewScan
  <2> QED
    BY <2>1, <2>2
<1>11. CASE Reap
  BY <1>1, <1>11 DEF Reap, Scanned, NewScan
<1>12. CASE Join \/ WaitForTests
  <2>1. /\ producer.pc \in {"join", "wait_for_tests"}
        /\ producer'.pc \in {"wait_for_tests", "exit"}
    BY <1>1, <1>12 DEF Join, WaitForTests
  <2> QED
    BY <1>1, <2>1 DEF Scanned
<1>13. ASSUME NEW t \in Tests, Abort(t) PROVE Scanned'
  BY <1>1, <1>13 DEF Abort, Scanned
<1>14. CASE UNCHANGED vars
  BY <1>2, <1>14 DEF vars, in_flight
<1> QED
  BY <1>3, <1>4, <1>5, <1>6, <1>7, <1>8, <1>9, <1>10, <1>11, <1>12, <1>13, <1>14
     DEF Next, ProducerNext

LEMMA AlwaysScanned == Spec => [](Inv /\ Agree /\ Scanned)
<1>1. Init => Scanned
  BY DEF Init, Scanned, NewScan, Tests
<1>2. Inv /\ Agree /\ Scanned /\ [Next]_vars => Scanned'
  BY NextScanned
<1> QED
  BY <1>1, <1>2, AlwaysAgree, PTL DEF Spec

(* The cost of a build fits the pool when a test comes to its build: it    *)
(* has been scaled in the XML phase, or resumed tests need no scaling.     *)
Scaled == \A t \in Tests : PassesXml(t) => model_build_cost <= ProcPool

(* What makes a refusal right. *)
LEMMA RefusalIsHopeless ==
  ASSUME Inv, Sound, Scanned, Scaled, NEW t \in Tests, Refuse(t)
  PROVE  \/ NextPhase(tests[t].phase) = RUN_PHASE /\ TotalPes[t] > ProcPool
         \/ ~IsFirst(t) /\ tests[FirstOf[t]].status = "FAIL"
<1> DEFINE next_phase == NextPhase(tests[t].phase)
           first == FirstOf[t]
<1>1. /\ tests \in [Tests -> [phase : Phases, status : Statuses]]
      /\ procs_avail \in Nat /\ model_build_cost \in Nat /\ ProcPool \in Nat \ {0}
      /\ TotalPes[t] \in Nat
      /\ first \in Tests
      /\ TypeOK
  BY TestsAssumption, ResourceAssumption DEF Inv, TypeOK
<1>2. /\ producer.pc = "scan" /\ producer.at = t /\ in_flight = {}
      /\ ~(ProcsNeeded(t, next_phase) <= procs_avail)
      /\ tests[t].phase # LastPhase
  BY DEF Refuse, Ready, AtTest, MoreToCome, Enough, WorkRemains
<1>3. procs_avail = ProcPool
  <2>1. Held({}) = {} /\ Cardinality({}) = 0
    BY FS_EmptySet DEF Held
  <2>2. in_flight = {} /\ procs_avail \in Nat /\ ProcPool \in Nat
    BY <1>1, <1>2
  <2>3. procs_avail + Cardinality(Held(in_flight)) = ProcPool
    BY DEF Inv, ProcsAccounted
  <2>4. Cardinality(Held(in_flight)) = 0
    BY <2>1, <2>2
  <2> QED
    BY <2>2, <2>3, <2>4
<1>4. next_phase \in Phases /\ next_phase \in Int /\ next_phase # tests[t].phase
  BY <1>1, <1>2, NextPhaseType
     DEF Phases, NextPhase, INIT, MODEL_BUILD_PHASE, RUN_PHASE
<1>5. CASE ~IsFirst(t) /\ next_phase \in GroupPhases
  <2>1. TestStatusAt(first, next_phase) = "PEND"
    <3>1. IsE3SM /\ next_phase # RUN_PHASE
      BY TestsAssumption, <1>5
         DEF IsFirst, GroupPhases, XML_PHASE, SHAREDLIB_BUILD_PHASE, MODEL_BUILD_PHASE, RUN_PHASE
    <3>2. ASSUME TestStatusAt(first, next_phase) # "PEND" PROVE ProcsNeeded(t, next_phase) = 1
      BY <1>5, <3>1, <3>2 DEF ProcsNeeded
    <3> QED
      BY <1>1, <1>2, <1>3, <3>2
  <2>2. first < t
    BY TestsAssumption, <1>1, <1>5 DEF IsFirst, Tests
  <2>3. ~WorkRemains(first)
    BY <1>1, <1>2, <2>2 DEF Scanned
  <2>4. threads[first].pc = "none"
    BY <1>1, <1>2 DEF in_flight
  <2>5. ASSUME tests[first].status # "FAIL" PROVE FALSE
    <3>1. tests[first].phase = LastPhase
      BY <1>1, <2>3, <2>5 DEF WorkRemains, Statuses
    <3>2. next_phase <= LastPhase
      BY <1>4, OptionAssumption DEF Phases
    <3>3. next_phase = LastPhase /\ tests[first].status = "PEND"
      BY <1>4, <2>1, <3>1, <3>2, OptionAssumption
         DEF TestStatusAt, XML_PHASE, SETUP_PHASE, MODEL_BUILD_PHASE, RUN_PHASE
    <3>4. tests[first].phase = RUN_PHASE
      BY <1>1, <2>4, <3>3 DEF Sound, NotLeftPending
    <3> QED
      BY <1>5, <3>1, <3>3, <3>4
         DEF GroupPhases, XML_PHASE, SHAREDLIB_BUILD_PHASE, MODEL_BUILD_PHASE, RUN_PHASE
  <2> QED
    BY <1>5, <2>5
<1>6. CASE IsFirst(t) /\ next_phase = MODEL_BUILD_PHASE
  <2>1. TestStatusAt(t, XML_PHASE) = "PASS"
    BY <1>1, <1>6
       DEF NextPhase, TestStatusAt, XML_PHASE, MODEL_BUILD_PHASE, RUN_PHASE, Phases, INIT
  <2>2. model_build_cost <= ProcPool
    BY <2>1 DEF Scaled, PassesXml
  <2>3. ProcsNeeded(t, next_phase) = model_build_cost
    BY <1>2, <1>6 DEF ProcsNeeded, MODEL_BUILD_PHASE, RUN_PHASE, SHAREDLIB_BUILD_PHASE, in_flight
  <2> QED
    BY <1>1, <1>2, <1>3, <2>2, <2>3
<1>7. CASE next_phase = RUN_PHASE /\ NoBatch
  <2>1. ProcsNeeded(t, next_phase) = TotalPes[t]
    BY <1>7 DEF ProcsNeeded, GroupPhases, RUN_PHASE, XML_PHASE, SHAREDLIB_BUILD_PHASE, MODEL_BUILD_PHASE
  <2> QED
    BY <1>1, <1>2, <1>3, <1>7, <2>1
<1>8. CASE /\ ~(~IsFirst(t) /\ next_phase \in GroupPhases)
           /\ ~(next_phase = RUN_PHASE /\ NoBatch)
           /\ ~(IsFirst(t) /\ next_phase = MODEL_BUILD_PHASE)
  <2>1. ProcsNeeded(t, next_phase) = 1
    BY <1>2, <1>8 DEF ProcsNeeded
  <2> QED
    BY <1>1, <1>2, <1>3, <2>1
<1> QED
  BY <1>5, <1>6, <1>7, <1>8

LEMMA AlwaysScaled ==
  ASSUME UseExisting => ModelBuildCost <= ProcPool
  PROVE  Spec => []Scaled
<1>1. CASE UseExisting
  <2>1. Inv => Scaled
    <3>1. ModelBuildCost <= ProcPool
      BY <1>1
    <3> QED
      BY <3>1, ResourceAssumption DEF Inv, TypeOK, Scaled
  <2> QED
    BY <2>1, AlwaysScanned, PTL
<1>2. CASE ~UseExisting
  <2>1. Init => Published
    BY <1>2, InitPublished
  <2>2. Inv /\ Agree /\ Published /\ [Next]_vars => Published'
    BY NextPublished
  <2>3. Published => Scaled
    BY DEF Published, Scaled
  <2> QED
    BY <2>1, <2>2, <2>3, AlwaysScanned, PTL DEF Spec
<1> QED
  BY <1>1, <1>2

(* As long as errors can be logged, and, with --use-existing, the pool has *)
(* the processors that a build takes by default: a test, fresh or resumed, *)
(* is refused for want of processors only if it can never have them.       *)
THEOREM RefusesOnlyTheHopeless ==
  ASSUME UseExisting => ModelBuildCost <= ProcPool, "log" \notin Faults
  PROVE  Spec => RefusedOnlyIfHopeless
<1> DEFINE I == Inv /\ Agree /\ Sound /\ Scanned /\ Scaled
           A == \A t \in Tests : Refuse(t) =>
                  \/ NextPhase(tests[t].phase) = RUN_PHASE /\ TotalPes[t] > ProcPool
                  \/ ~IsFirst(t) /\ tests[FirstOf[t]].status = "FAIL"
<1>1. Spec => []I
  <2>1. Inv /\ Agree /\ Sound /\ [Next]_vars => Sound'
    BY NextSound
  <2>2. Init => Sound
    BY InitSound
  <2> QED
    BY <2>1, <2>2, AlwaysScaled, AlwaysScanned, PTL DEF Spec
<1>2. I => A
  BY RefusalIsHopeless
<1>3. []I => [][A]_vars
  <2>1. I /\ [Next]_vars => [A]_vars
    BY <1>2
  <2> HIDE DEF I, A
  <2> QED
    BY <1>2, PTL
<1> QED
  BY <1>1, <1>3, PTL DEF RefusedOnlyIfHopeless
-----------------------------------------------------------------------------
(* Errors are in the TestStatus files. *)

(* The first phase that did not pass in the file failed. *)
Broken(ts) ==
  \E p \in CORE_PHASES : ts[p] = "FAIL" /\ \A q \in CORE_PHASES : q < p => ts[q] = "PASS"

(* A test that is broken in memory, or that a phase has just broken, is    *)
(* broken in its file; and a phase up to SUBMIT that failed in the file    *)
(* has broken the test, or is about to.                                    *)
Recorded(t) ==
  /\ tests[t].status = "FAIL" => Broken(file[t])
  /\ threads[t].pc = "finish" /\ ~threads[t].success /\ ~WritesFile(t) => Broken(file[t])
  /\ \A p \in CREATE_NEWCASE_PHASE .. SUBMIT_PHASE : file[t][p] = "FAIL" =>
       tests[t].status = "FAIL" \/ (threads[t].pc = "finish" /\ ~threads[t].success)

AllRecorded == \A t \in Tests : Recorded(t)

NoneFailed(ts) == \A p \in CREATE_NEWCASE_PHASE .. SUBMIT_PHASE : ts[p] # "FAIL"

(* set_status makes no phase fail but the one it is told to. *)
LEMMA NoNewFailure ==
  ASSUME NEW ts \in [CORE_PHASES -> FileStatuses], NEW phase \in CORE_PHASES,
         NEW status \in Statuses, phase = RUN_PHASE \/ status # "FAIL", NoneFailed(ts)
  PROVE  NoneFailed(SetStatus(ts, phase, status))
<1> SUFFICES ASSUME NEW p \in CREATE_NEWCASE_PHASE .. SUBMIT_PHASE
             PROVE  SetStatus(ts, phase, status)[p] # "FAIL"
  BY DEF NoneFailed
<1>1. p \in CORE_PHASES /\ p # RUN_PHASE
  BY DEF CORE_PHASES, CREATE_NEWCASE_PHASE, SUBMIT_PHASE, RUN_PHASE
<1>2. ts[p] # "FAIL"
  BY DEF NoneFailed
<1>3. SetStatus(ts, phase, status)[p] \in {ts[p], NoStatus, "PEND"}
        \/ (p = phase /\ SetStatus(ts, phase, status)[p] = status)
  BY <1>1 DEF SetStatus
<1> QED
  BY <1>1, <1>2, <1>3 DEF NoStatus

LEMMA RanNoNewFailure ==
  ASSUME NEW ts \in [CORE_PHASES -> FileStatuses], NEW phase \in CORE_PHASES,
         NEW status \in Statuses, phase = RUN_PHASE \/ status # "FAIL", NoneFailed(ts)
  PROVE  /\ NoneFailed(RanPhase(ts, phase, status))
         /\ NoneFailed(Submitting(ts))
<1>1. "PEND" \in Statuses /\ "PASS" \in Statuses /\ SUBMIT_PHASE \in CORE_PHASES
  BY DEF Statuses, CORE_PHASES, CREATE_NEWCASE_PHASE, SUBMIT_PHASE, RUN_PHASE
<1>2. NoneFailed(SetStatus(ts, phase, "PEND")) /\ NoneFailed(SetStatus(ts, SUBMIT_PHASE, "PASS"))
  BY <1>1, NoNewFailure
<1>3. SetStatus(ts, phase, "PEND") \in [CORE_PHASES -> FileStatuses]
  BY <1>1, SetStatusType
<1>4. NoneFailed(SetStatus(SetStatus(ts, phase, "PEND"), phase, status))
  BY <1>2, <1>3, NoNewFailure
<1> QED
  BY <1>2, <1>4 DEF RanPhase, Submitting

(* A phase that fails after those before it have passed breaks the file. *)
LEMMA FailureBreaks ==
  ASSUME NEW ts \in [CORE_PHASES -> FileStatuses], NEW phase \in CORE_PHASES,
         \A q \in CORE_PHASES : q < phase => ts[q] = "PASS"
  PROVE  Broken(SetStatus(ts, phase, "FAIL")) /\ Broken(RanPhase(ts, phase, "FAIL"))
<1>1. "FAIL" \in Statuses
  BY DEF Statuses
<1>2. /\ SetStatus(ts, phase, "FAIL")[phase] = "FAIL"
      /\ \A q \in CORE_PHASES : q < phase => SetStatus(ts, phase, "FAIL")[q] = "PASS"
  BY <1>1, SetStatusKeeps
<1>3. /\ RanPhase(ts, phase, "FAIL")[phase] = "FAIL"
      /\ \A q \in CORE_PHASES : q < phase => RanPhase(ts, phase, "FAIL")[q] = "PASS"
  BY <1>1, RanPhaseKeeps
<1> QED
  BY <1>2, <1>3 DEF Broken

(* A RUN phase that cannot start breaks the file of a test that is built. *)
LEMMA RefusedRunBreaks ==
  ASSUME NEW ts \in [CORE_PHASES -> FileStatuses],
         \A q \in CREATE_NEWCASE_PHASE .. MODEL_BUILD_PHASE : ts[q] = "PASS"
  PROVE  Broken(SetStatus(SetStatus(ts, SUBMIT_PHASE, "PASS"), RUN_PHASE, "FAIL"))
<1> DEFINE submitted == SetStatus(ts, SUBMIT_PHASE, "PASS")
<1>1. /\ SUBMIT_PHASE \in CORE_PHASES /\ RUN_PHASE \in CORE_PHASES /\ "PASS" \in Statuses
      /\ \A q \in CORE_PHASES : q < SUBMIT_PHASE => q \in CREATE_NEWCASE_PHASE .. MODEL_BUILD_PHASE
      /\ \A q \in CORE_PHASES : q < RUN_PHASE => q < SUBMIT_PHASE \/ q = SUBMIT_PHASE
  BY DEF CORE_PHASES, CREATE_NEWCASE_PHASE, MODEL_BUILD_PHASE, SUBMIT_PHASE, RUN_PHASE, Statuses
<1>2. submitted \in [CORE_PHASES -> FileStatuses]
  BY <1>1, SetStatusType
<1>3. /\ submitted[SUBMIT_PHASE] = "PASS"
      /\ \A q \in CORE_PHASES : q < SUBMIT_PHASE => submitted[q] = ts[q]
  BY <1>1, SetStatusKeeps
<1> HIDE DEF submitted
<1>4. \A q \in CORE_PHASES : q < RUN_PHASE => submitted[q] = "PASS"
  BY <1>1, <1>3
<1>5. Broken(SetStatus(submitted, RUN_PHASE, "FAIL"))
  BY <1>1, <1>2, <1>4, FailureBreaks
<1> QED
  BY <1>5 DEF submitted

(* A refused test and one whose phase fails are broken in the file at once,*)
(* or by Finish when the scheduler is the one that writes it.              *)
LEMMA StepRecorded ==
  ASSUME Faults \subseteq {"phase"}, Inv, Agree, Queue, AllRecorded, NEW t \in Tests, StepOf(t)
  PROVE  Recorded(t)'
<1> DEFINE phases == CREATE_NEWCASE_PHASE .. MODEL_BUILD_PHASE
           Calls(success) == threads'[t].pc = "finish" /\ threads'[t].success = success
<1>1. /\ tests \in [Tests -> [phase : Phases, status : Statuses]]
      /\ threads \in [Tests -> Threads]
      /\ file \in [Tests -> [CORE_PHASES -> FileStatuses]]
      /\ file[t] \in [CORE_PHASES -> FileStatuses]
      /\ InMemory(t) /\ OnFile(t) /\ InQueue(t) /\ Recorded(t)
      /\ TypeOK
  BY DEF Inv, TypeOK, Queue, Agree, AllRecorded
<1>2. /\ {SETUP_PHASE, SHAREDLIB_BUILD_PHASE, MODEL_BUILD_PHASE, SUBMIT_PHASE, RUN_PHASE}
           \subseteq CORE_PHASES
      /\ "PASS" \in Statuses /\ "FAIL" \in Statuses /\ "PEND" \in Statuses
      /\ {SETUP_PHASE, SHAREDLIB_BUILD_PHASE, MODEL_BUILD_PHASE} \subseteq phases
      /\ phases \subseteq CORE_PHASES
      /\ \A p \in phases : \A q \in CORE_PHASES : q < p => q \in phases /\ q <= p - 1
      /\ \A q \in CORE_PHASES : q < SUBMIT_PHASE => q \in phases /\ q <= MODEL_BUILD_PHASE
  BY DEF CORE_PHASES, CREATE_NEWCASE_PHASE, SETUP_PHASE, SHAREDLIB_BUILD_PHASE,
         MODEL_BUILD_PHASE, SUBMIT_PHASE, RUN_PHASE, Statuses
<1>3. ASSUME tests[t].status # "FAIL", threads[t].pc # "finish" \/ threads[t].success
      PROVE  NoneFailed(file[t])
  BY <1>1, <1>3 DEF Recorded, NoneFailed
<1>4. ASSUME NoneFailed(file'[t]), tests'[t].status # "FAIL",
             threads'[t].pc # "finish" \/ threads'[t].success
      PROVE  Recorded(t)'
  BY <1>4 DEF Recorded, NoneFailed
<1>5. ASSUME Broken(file'[t]), tests'[t].status = "FAIL" \/ Calls(FALSE)
      PROVE  Recorded(t)'
  BY <1>5 DEF Recorded
<1>6. ASSUME Launch(t) PROVE Recorded(t)'
  <2>1. tests[t].status = "PASS" /\ threads[t].pc = "none" /\ file' = file
    BY <1>1, <1>6, UpdatePasses DEF Launch, Ready, in_flight
  <2>2. tests'[t].status = "PEND" /\ threads'[t].pc = "phase"
    BY <1>1, <1>6 DEF Launch
  <2> QED
    BY <1>3, <1>4, <2>1, <2>2
<1>7. ASSUME Refuse(t) PROVE Recorded(t)'
  <2> DEFINE next_phase == NextPhase(tests[t].phase)
  <2>1. /\ tests[t].status = "PASS" /\ tests[t].phase \in Phases /\ tests[t].phase # LastPhase
        /\ PassedInFile(t, tests[t].phase)
    BY <1>1, <1>7, UpdatePasses DEF Refuse, Ready, WorkRemains, OnFile
  <2>2. /\ CanSetStatus(file[t], IF next_phase = RUN_PHASE THEN SUBMIT_PHASE ELSE next_phase)
        /\ next_phase # RUN_PHASE => next_phase \in phases /\ next_phase - 1 <= tests[t].phase
        /\ next_phase = RUN_PHASE => tests[t].phase = MODEL_BUILD_PHASE
    BY <2>1, OptionAssumption
       DEF CanSetStatus, PassedInFile, NextPhase, Phases, CORE_PHASES, INIT, CREATE_NEWCASE_PHASE,
           XML_PHASE, SETUP_PHASE, MODEL_BUILD_PHASE, SUBMIT_PHASE, RUN_PHASE
  <2>3. /\ tests' = [tests EXCEPT ![t] = [phase |-> next_phase, status |-> "FAIL"]]
        /\ file' = [file EXCEPT ![t] =
             IF next_phase = RUN_PHASE
             THEN SetStatus(SetStatus(file[t], SUBMIT_PHASE, "PASS"), RUN_PHASE, "FAIL")
             ELSE SetStatus(file[t], next_phase, "FAIL")]
    BY <1>7, <2>2, Faults \subseteq {"phase"} DEF Refuse
  <2>4. tests'[t].status = "FAIL"
    BY <1>1, <2>3
  <2>5. CASE next_phase = RUN_PHASE
    <3>1. \A q \in phases : file[t][q] = "PASS"
      BY <2>1, <2>2, <2>5 DEF PassedInFile, CREATE_NEWCASE_PHASE, MODEL_BUILD_PHASE
    <3>2. Broken(file'[t])
      BY <1>1, <2>3, <2>5, <3>1, RefusedRunBreaks
    <3> QED
      BY <1>5, <2>4, <3>2
  <2>6. CASE next_phase # RUN_PHASE
    <3>1. \A q \in CORE_PHASES : q < next_phase => q \in phases /\ q <= tests[t].phase
      BY <2>1, <2>2, <2>6
         DEF CORE_PHASES, CREATE_NEWCASE_PHASE, MODEL_BUILD_PHASE, RUN_PHASE, NextPhase, Phases, INIT
    <3>2. \A q \in CORE_PHASES : q < next_phase => file[t][q] = "PASS"
      BY <2>1, <3>1 DEF PassedInFile
    <3>3. next_phase \in CORE_PHASES
      BY <1>2, <2>2, <2>6
    <3>4. file'[t] = SetStatus(file[t], next_phase, "FAIL")
      BY <1>1, <2>3, <2>6
    <3>5. Broken(file'[t])
      BY <1>1, <3>2, <3>3, <3>4, FailureBreaks
    <3> QED
      BY <1>5, <2>4, <3>5
  <2> QED
    BY <2>5, <2>6
<1>8. ASSUME threads[t].pc = "phase"
      PROVE  NoneFailed(file[t]) /\ tests[t].status = "PEND"
  BY <1>1, <1>3, <1>8 DEF InMemory
<1>9. ASSUME CreateNewcase(t) \/ Xml(t) \/ XmlFails(t) \/ TakeBuild(t) PROVE Recorded(t)'
  <2>1. /\ threads[t].pc = "phase" /\ tests' = tests /\ file' = file /\ WritesFile(t)
        /\ \E success : Called(t, success)
    BY <1>9 DEF CreateNewcase, Xml, XmlFails, TakeBuild, InPhase, WritesFile
  <2>2. threads'[t].pc = "finish" /\ threads'[t].phase = threads[t].phase
    BY <1>1, <2>1 DEF Called, Threads
  <2>3. WritesFile(t)'
    BY <2>1, <2>2 DEF WritesFile
  <2> QED
    BY <1>8, <2>1, <2>3 DEF Recorded, NoneFailed
<1>10. ASSUME Setup(t) \/ Build(t) PROVE Recorded(t)'
  <2>1. PICK phase \in {SETUP_PHASE, SHAREDLIB_BUILD_PHASE, MODEL_BUILD_PHASE} :
          /\ InPhase(t, phase)
          /\ \/ /\ Called(t, TRUE)
                /\ \/ file' = [file EXCEPT ![t] = SetStatus(@, phase, "PASS")]
                   \/ file' = [file EXCEPT ![t] = RanPhase(@, phase, "PASS")]
             \/ /\ Called(t, FALSE)
                /\ \/ file' = [file EXCEPT ![t] = SetStatus(@, phase, "FAIL")]
                   \/ file' = [file EXCEPT ![t] = RanPhase(@, phase, "FAIL")]
    <3>1. CASE Setup(t)
      BY <3>1, Faults \subseteq {"phase"} DEF Setup
    <3>2. CASE Build(t)
      BY <3>2 DEF Build
    <3> QED
      BY <1>10, <3>1, <3>2
  <2>2. threads[t].pc = "phase" /\ threads[t].phase = phase /\ tests' = tests
    BY <1>10, <2>1 DEF Setup, Build, InPhase
  <2>3. CASE /\ Called(t, TRUE)
             /\ \/ file' = [file EXCEPT ![t] = SetStatus(@, phase, "PASS")]
                \/ file' = [file EXCEPT ![t] = RanPhase(@, phase, "PASS")]
    <3>1. NoneFailed(file'[t])
      BY <1>1, <1>2, <1>8, <2>2, <2>3, NoNewFailure, RanNoNewFailure
    <3>2. threads'[t].success
      BY <1>1, <2>3 DEF Called, Threads
    <3> QED
      BY <1>4, <1>8, <2>2, <3>1, <3>2
  <2>4. CASE /\ Called(t, FALSE)
             /\ \/ file' = [file EXCEPT ![t] = SetStatus(@, phase, "FAIL")]
                \/ file' = [file EXCEPT ![t] = RanPhase(@, phase, "FAIL")]
    <3>1. \A q \in CORE_PHASES : q < phase => file[t][q] = "PASS"
      <4>1. PassedInFile(t, PhaseBefore(phase)) /\ PhaseBefore(phase) = phase - 1
        BY <1>1, <2>2
           DEF OnFile, PhaseBefore, SETUP_PHASE, SHAREDLIB_BUILD_PHASE, MODEL_BUILD_PHASE, RUN_PHASE
      <4> QED
        BY <1>2, <4>1 DEF PassedInFile
    <3>2. Broken(file'[t])
      BY <1>1, <1>2, <2>4, <3>1, FailureBreaks
    <3>3. Calls(FALSE)
      BY <1>1, <2>4 DEF Called, Threads
    <3> QED
      BY <1>5, <3>2, <3>3
  <2> QED
    BY <2>1, <2>3, <2>4
<1>11. ASSUME SkipRun(t) \/ RunHere(t) \/ Submit(t) PROVE Recorded(t)'
  <2>1. threads[t].pc = "phase" /\ tests' = tests /\ Called(t, TRUE)
    BY <1>11 DEF SkipRun, RunHere, Submit, InPhase
  <2>2. Submitting(file[t]) \in [CORE_PHASES -> FileStatuses] /\ NoneFailed(Submitting(file[t]))
    BY <1>1, <1>2, <1>8, <2>1, RanPhaseType, RanNoNewFailure
  <2>3. NoneFailed(file'[t])
    <3>1. CASE SkipRun(t)
      <4>1. /\ NoneFailed(SetStatus(file[t], SUBMIT_PHASE, "PASS"))
            /\ SetStatus(file[t], SUBMIT_PHASE, "PASS") \in [CORE_PHASES -> FileStatuses]
        BY <1>1, <1>2, <1>8, <2>1, NoNewFailure, SetStatusType
      <4>2. NoneFailed(SetStatus(SetStatus(file[t], SUBMIT_PHASE, "PASS"), RUN_PHASE, "PASS"))
        BY <1>2, <4>1, NoNewFailure
      <4> QED
        BY <1>1, <3>1, <4>2 DEF SkipRun
    <3>2. CASE RunHere(t)
      <4>1. PICK status \in Statuses :
              file' = [file EXCEPT ![t] = RanPhase(Submitting(file[t]), RUN_PHASE, status)]
        BY <1>2, <3>2 DEF RunHere
      <4>2. NoneFailed(RanPhase(Submitting(file[t]), RUN_PHASE, status))
        BY <1>2, <2>2, RanNoNewFailure
      <4> QED
        BY <1>1, <4>1, <4>2
    <3>3. CASE Submit(t)
      BY <1>1, <2>2, <3>3 DEF Submit
    <3> QED
      BY <1>11, <3>1, <3>2, <3>3
  <2>4. threads'[t].success
    BY <1>1, <2>1 DEF Called, Threads
  <2> QED
    BY <1>4, <1>8, <2>1, <2>3, <2>4
<1>12. ASSUME SubmitFails(t) PROVE Recorded(t)'
  <2>1. /\ threads[t].pc = "phase" /\ threads[t].phase = RUN_PHASE /\ Called(t, FALSE)
        /\ file'[t] = SetStatus(Submitting(file[t]), SUBMIT_PHASE, "FAIL")
    BY <1>1, <1>12 DEF SubmitFails, InPhase
  <2>2. PassedInFile(t, MODEL_BUILD_PHASE) /\ RunToCome(file[t])
    BY <1>1, <2>1 DEF OnFile, PhaseBefore, InQueue
  <2>3. \A q \in CORE_PHASES : q < SUBMIT_PHASE => Submitting(file[t])[q] = "PASS"
    BY <1>1, <1>2, <2>2, SubmittingWaits DEF PassedInFile
  <2>4. Submitting(file[t]) \in [CORE_PHASES -> FileStatuses]
    BY <1>1, <1>2, RanPhaseType
  <2>5. Broken(file'[t])
    BY <1>2, <2>1, <2>3, <2>4, FailureBreaks
  <2>6. Calls(FALSE)
    BY <1>1, <2>1 DEF Called, Threads
  <2> QED
    BY <1>5, <2>5, <2>6
<1>13. ASSUME Finish(t) PROVE Recorded(t)'
  <2>1. /\ threads[t].pc = "finish" /\ tests[t].phase = threads[t].phase /\ tests[t].status = "PEND"
        /\ FinalStatus(t) # "PEND" => CanUpdate(t, threads[t].phase, FinalStatus(t))
        /\ WritesFile(t) => CanSetStatus(file[t], threads[t].phase)
    BY <1>1, <1>13, AgreeKeepsUp DEF Finish, InMemory, CanUpdate, FileKeepsUp
  <2>2. /\ tests'[t].status = IF FinalStatus(t) # "PEND" THEN FinalStatus(t) ELSE "PEND"
        /\ file'[t] = IF WritesFile(t) THEN SetStatus(file[t], threads[t].phase, FinalStatus(t))
                      ELSE file[t]
        /\ threads'[t].pc \in {"chain", "dead"}
    BY <1>1, <1>13, <2>1 DEF Finish
  <2>3. WritesFile(t) => threads[t].phase \in phases /\ threads[t].phase \in CORE_PHASES
    BY DEF WritesFile, CORE_PHASES, CREATE_NEWCASE_PHASE, XML_PHASE, SHAREDLIB_BUILD_PHASE,
           MODEL_BUILD_PHASE, RUN_PHASE
  <2>4. CASE threads[t].success
    <3>1. FinalStatus(t) \in {"PASS", "PEND"} /\ NoneFailed(file[t])
      BY <1>3, <2>1, <2>4 DEF FinalStatus
    <3>2. NoneFailed(file'[t])
      BY <1>1, <1>2, <2>2, <2>3, <3>1, NoNewFailure
    <3> QED
      BY <1>4, <2>2, <3>1, <3>2
  <2>5. CASE ~threads[t].success
    <3>1. FinalStatus(t) = "FAIL"
      BY <2>5 DEF FinalStatus
    <3>2. CASE WritesFile(t)
      <4>1. PassedInFile(t, threads[t].phase - 1)
        BY <1>1, <2>1, <3>2 DEF OnFile
      <4>2. \A q \in CORE_PHASES : q < threads[t].phase => file[t][q] = "PASS"
        BY <1>2, <2>3, <3>2, <4>1 DEF PassedInFile
      <4>3. Broken(file'[t])
        BY <1>1, <2>2, <2>3, <3>1, <3>2, <4>2, FailureBreaks
      <4> QED
        BY <1>5, <2>2, <3>1, <4>3
    <3>3. CASE ~WritesFile(t)
      <4>1. Broken(file[t])
        BY <1>1, <2>1, <2>5, <3>3 DEF Recorded
      <4> QED
        BY <1>5, <2>2, <3>1, <3>3, <4>1
    <3> QED
      BY <3>2, <3>3
  <2> QED
    BY <2>4, <2>5
<1>14. ASSUME Chain(t) PROVE Recorded(t)'
  <2>1. /\ threads[t].pc = "chain" /\ tests[t].status = "PASS" /\ file' = file
        /\ tests'[t].status # "FAIL" /\ threads'[t].pc \in {"phase", "dead"}
    <3>1. threads[t].pc = "chain" /\ tests[t].status = "PASS" /\ file' = file
      BY <1>1, <1>14 DEF Chain, InMemory
    <3>2. tests'[t].status \in {"PASS", "PEND"}
      BY <1>1, <1>14, <3>1 DEF Chain
    <3>3. threads'[t].pc \in {"phase", "dead"}
      BY <1>1, <1>14 DEF Chain, Threads
    <3> QED
      BY <3>1, <3>2, <3>3
  <2> QED
    BY <1>3, <1>4, <2>1
<1>15. ASSUME Die(t) PROVE Recorded(t)'
  BY <1>15, Faults \subseteq {"phase"} DEF Die
<1>16. ASSUME BatchJob(t) PROVE Recorded(t)'
  <2>1. /\ tests' = tests /\ threads' = threads /\ tests[t].status = "PEND"
        /\ threads[t].pc = "finish" => threads[t].success
    BY <1>1, <1>16 DEF BatchJob, InQueue
  <2>2. PICK status \in Statuses : file' = [file EXCEPT ![t] = RanPhase(file[t], RUN_PHASE, status)]
    BY <1>2, <1>16 DEF BatchJob
  <2>3. NoneFailed(file'[t])
    BY <1>1, <1>2, <1>3, <2>1, <2>2, RanNoNewFailure
  <2> QED
    BY <1>4, <2>1, <2>3
<1> QED
  BY <1>6, <1>7, <1>9, <1>10, <1>11, <1>12, <1>13, <1>14, <1>15, <1>16 DEF StepOf, ConsumerNext

LEMMA NextRecorded ==
  ASSUME Faults \subseteq {"phase"}, Inv, Agree, Queue, AllRecorded, [Next]_vars
  PROVE  AllRecorded'
<1>1. ASSUME NEW t \in Tests, SameTest(t) PROVE Recorded(t)'
  BY <1>1 DEF SameTest, AllRecorded, Recorded, WritesFile
<1>2. CASE Reap
  <2> SUFFICES ASSUME NEW t \in Tests PROVE Recorded(t)'
    BY DEF AllRecorded
  <2>1. tests' = tests /\ file' = file
    BY <1>2 DEF Reap
  <2>2. threads'[t] = threads[t] \/ (threads[t].pc = "dead" /\ threads'[t].pc = "none")
    BY <1>2 DEF Reap, NoThread
  <2> QED
    BY <2>1, <2>2 DEF AllRecorded, Recorded, WritesFile
<1> QED
  BY <1>1, <1>2, StepCases, StepRecorded DEF AllRecorded

LEMMA InitRecorded == Init => AllRecorded
<1> SUFFICES ASSUME Init, NEW t \in Tests PROVE Recorded(t)
  BY DEF AllRecorded
<1>1. tests[t].status = "PASS" /\ threads[t].pc = "none"
  BY DEF Init, NoThread
<1>2. \A p \in CORE_PHASES : file[t][p] # "FAIL"
  BY DEF Init, PassedUpTo, Resumed, NoStatus
<1>3. CREATE_NEWCASE_PHASE .. SUBMIT_PHASE \subseteq CORE_PHASES
  BY DEF CORE_PHASES, CREATE_NEWCASE_PHASE, SUBMIT_PHASE, RUN_PHASE
<1> QED
  BY <1>1, <1>2, <1>3 DEF Recorded

(* The first phase that failed decides what the file says overall. *)
LEMMA BrokenFails ==
  ASSUME NEW ts, Broken(ts)
  PROVE  CoreStatus(ts, FALSE) = "FAIL"
<1> DEFINE open == {p \in CORE_PHASES : ts[p] \in {"PEND", "FAIL"}}
<1>1. PICK p \in CORE_PHASES : ts[p] = "FAIL" /\ \A q \in CORE_PHASES : q < p => ts[q] = "PASS"
  BY DEF Broken
<1>2. p \in open /\ \A q \in open : p <= q
  BY <1>1 DEF CORE_PHASES, CREATE_NEWCASE_PHASE, RUN_PHASE
<1>3. \A r \in open : (\A q \in open : r <= q) => r = p
  BY <1>2 DEF CORE_PHASES, CREATE_NEWCASE_PHASE, RUN_PHASE
<1>4. (CHOOSE r \in open : \A q \in open : r <= q) = p
  BY <1>2, <1>3
<1> QED
  BY <1>1, <1>2, <1>4 DEF CoreStatus

LEMMA FailsAtAPhase ==
  ASSUME NEW ts, CoreStatus(ts, FALSE) = "FAIL"
  PROVE  \E p \in CORE_PHASES : ts[p] = "FAIL"
<1> DEFINE open == {p \in CORE_PHASES : ts[p] \in {"PEND", "FAIL"}}
           first == CHOOSE p \in open : \A q \in open : p <= q
<1>1. open # {} /\ ts[first] = "FAIL"
  BY DEF CoreStatus
<1>2. \E p \in open : \A q \in open : p <= q
  BY <1>1 DEF CORE_PHASES, CREATE_NEWCASE_PHASE, RUN_PHASE
<1>3. first \in open
  BY <1>2
<1> QED
  BY <1>1, <1>3

(* However its threads interleave, when create_test has joined them no     *)
(* test is left half way, and what it knows to be broken is what the files *)
(* say, if a phase that fails says so (neither the comparison of namelists *)
(* nor the log of a test raises) and but for runs it does not follow.      *)
THEOREM ErrorsAreRecorded ==
  ASSUME Faults \subseteq {"phase"}
  PROVE  Spec => []ErrorsInTestStatus
<1>1. Inv /\ Scanned /\ AfterJoin /\ AllRecorded => ErrorsInTestStatus
  <2> SUFFICES ASSUME Inv, Scanned, AfterJoin, AllRecorded,
                      producer.pc \in {"wait_for_tests", "exit"}, NEW t \in Tests
               PROVE  /\ ~WorkRemains(t)
                      /\ tests[t].status = "FAIL" => CoreStatus(file[t], FALSE) = "FAIL"
                      /\ CoreStatus(file[t], FALSE) = "FAIL" =>
                           tests[t].status = "FAIL" \/ file[t][RUN_PHASE] = "FAIL"
    BY DEF ErrorsInTestStatus
  <2>1. ~WorkRemains(t) /\ threads[t].pc \in {"none", "dead"} /\ Recorded(t)
    BY DEF Scanned, AfterJoin, AllRecorded
  <2>2. tests[t].status = "FAIL" => CoreStatus(file[t], FALSE) = "FAIL"
    BY <2>1, BrokenFails DEF Recorded
  <2>3. ASSUME CoreStatus(file[t], FALSE) = "FAIL"
        PROVE  tests[t].status = "FAIL" \/ file[t][RUN_PHASE] = "FAIL"
    <3>1. PICK p \in CORE_PHASES : file[t][p] = "FAIL"
      BY <2>3, FailsAtAPhase
    <3>2. p \in CREATE_NEWCASE_PHASE .. SUBMIT_PHASE \/ p = RUN_PHASE
      BY DEF CORE_PHASES, CREATE_NEWCASE_PHASE, SUBMIT_PHASE, RUN_PHASE
    <3> QED
      BY <2>1, <3>1, <3>2 DEF Recorded
  <2> QED
    BY <2>1, <2>2, <2>3
<1>2. Inv /\ Agree /\ Queue /\ AllRecorded /\ [Next]_vars => AllRecorded'
  BY NextRecorded
<1>3. Inv /\ Agree /\ Queue /\ AfterJoin /\ [Next]_vars => AfterJoin'
  BY NextAfterJoin
<1>4. Init => AfterJoin
  BY DEF Init, AfterJoin, NewScan
<1> QED
  BY <1>1, <1>2, <1>3, <1>4, InitRecorded, AlwaysQueue, AlwaysScanned, PTL DEF Spec
=============================================================================
