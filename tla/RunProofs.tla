----------------------------- MODULE RunProofs -----------------------------
(***************************************************************************)
(* Proofs about module Run, for every number of threads and experiments,   *)
(* every timing and every outcome of thread creation and compilation.      *)
(***************************************************************************)
EXTENDS Run, FiniteSetTheorems, TLAPS

(* What the proofs need of the assumptions on the constants.               *)
LEMMA ConstantFacts ==
  /\ NumThreads \in Nat /\ NumThreads >= 1 /\ 0 \in Threads
  /\ Experiments \in Nat /\ Experiments >= 1 /\ Iterations \in Nat
  /\ OpsPerChain \in Nat /\ LongBits \in Nat
  /\ LongBits >= 1 /\ Seconds \in Nat /\ TicksPerSecond \in Nat
  /\ PassTime \in Nat /\ Jitter \subseteq Int /\ Resolutions \subseteq Int
  /\ MinBound \in Nat /\ MinBound > 0
BY ThreadsAssumption, CountsAssumption, TimeAssumption DEF MinBound, Threads

LEMMA ItersValueType ==
  ASSUME NEW n \in Nat
  PROVE  ItersValue(n) \in Int /\ CalLoopPasses(n) \in Int
<1>1. 2 ^ n \in Int
  BY SMT
<1>2. QED
  BY <1>1, ConstantFacts DEF ItersValue, CalLoopPasses

(* The prediction is a number, at least one, once elapsed is positive.     *)
LEMMA PredictedType ==
  ASSUME NEW n \in Nat, elapsed \in Int, elapsed > 0
  PROVE  Predicted(n) \in Nat /\ Predicted(n) >= 1
<1>1. ItersValue(n) \in Int
  BY ItersValueType
<1>2. (19998 * elapsed + 10000 * Seconds * ItersValue(n)) \div (20000 * elapsed)
        \in Int
  BY <1>1, ConstantFacts
<1>3. (9999 * elapsed + 10000 * TicksPerSecond * ItersValue(n))
        \div (10000 * elapsed) \in Int
  BY <1>1, ConstantFacts
<1>4. QED
  BY <1>2, <1>3 DEF Predicted

(* Where each barrier leads.                                               *)
LEMMA AfterBarrierValues ==
  /\ AfterBarrier("bar124") = "calStart"
  /\ AfterBarrier("bar130") = "calChase"
  /\ AfterBarrier("bar137") = "calStop"
  /\ AfterBarrier("bar144") = "shiftRead"
  /\ AfterBarrier("bar157") = "expTest"
  /\ AfterBarrier("bar163") = "start"
  /\ AfterBarrier("bar169") = "chase"
  /\ AfterBarrier("bar176") = "stop"
  /\ AfterBarrier("bar182") = "record"
  /\ AfterBarrier("bar194") = "free"
BY Zenon DEF AfterBarrier

LEMMA InitIInv == Init => IInv
<1> SUFFICES ASSUME Init PROVE IInv
  OBVIOUS
<1>1. TypeOK
  BY ConstantFacts, CountsAssumption DEF Init, TypeOK, Labels, BarrierLabels
<1>2. InSetup
  BY DEF Init, InSetup, Everyone
<1>3. QED
  BY <1>1, <1>2 DEF IInv, LockStep, SamplesInv, Init

-----------------------------------------------------------------------------
(* Types                                                                   *)

LEMMA GotoType ==
  ASSUME TypeOK, NEW t \in Threads, NEW from, NEW to \in Labels, Goto(t, from, to)
  PROVE  pc' \in [Threads -> Labels]
BY DEF TypeOK, Goto

(* The labels a step of a thread can lead to.                              *)
LEMMA StepLabels ==
  /\ BarrierLabels \subseteq Labels
  /\ {"alloc", "failed", "link", "compile", "calTest", "calCond", "calc",
      "expTest", "spin", "expSpin", "shiftWrite", "done"} \subseteq Labels
  /\ {"bar124", "bar130", "bar137", "bar144", "bar157", "bar163", "bar169",
      "bar176", "bar182", "bar194"} \subseteq Labels
BY DEF Labels, BarrierLabels

LEMMA MainType == ASSUME TypeOK, Main PROVE TypeOK'
<1> USE ConstantFacts DEF TypeOK, setupVars, calVars, expVars, mainVars
<1>0. cur + 1 # NumThreads => cur + 1 \in Threads
  BY DEF Threads
<1>1. CASE StartThread
  <2>1. pc' \in [Threads -> Labels]
    BY <1>1, GotoType, StepLabels DEF StartThread
  <2>2. QED
    BY <1>0, <1>1, <2>1 DEF StartThread, Advance
<1>2. CASE StartFails
  <2>1. pc' \in [Threads -> Labels]
    BY <1>2, GotoType, StepLabels DEF StartFails
  <2>2. QED
    BY <1>0, <1>2, <2>1 DEF StartFails, Advance
<1>3. CASE JoinThread
  BY <1>0, <1>3 DEF JoinThread, Advance
<1>4. CASE JoinCrashes
  BY <1>4 DEF JoinCrashes
<1>5. CASE PrintResults
  BY <1>5 DEF PrintResults
<1>6. QED
  BY <1>1, <1>2, <1>3, <1>4, <1>5 DEF Main

LEMMA BarrierType == ASSUME TypeOK, Barrier PROVE TypeOK'
<1>1. \A t \in Threads : AfterBarrier(pc[t]) \in Labels
  BY AfterBarrierValues DEF Barrier, BarrierLabels, Labels
<1>2. pc' \in [Threads -> Labels]
  BY <1>1 DEF Barrier
<1>3. QED
  BY <1>2 DEF TypeOK, Barrier, mainVars, setupVars, calVars, expVars

LEMMA SetupType ==
  ASSUME TypeOK, NEW t \in Threads, Setup(t) PROVE TypeOK'
<1> USE ConstantFacts DEF TypeOK, setupVars, calVars, expVars, mainVars
<1>1. CASE Alloc(t)
  <2>1. pc' \in [Threads -> Labels]
    BY <1>1, GotoType, StepLabels DEF Alloc
  <2>2. QED
    BY <1>1, <2>1 DEF Alloc
<1>2. CASE LinkChains(t)
  <2>1. pc' \in [Threads -> Labels]
    BY <1>2, GotoType, StepLabels DEF LinkChains
  <2>2. QED
    BY <1>2, <2>1 DEF LinkChains
<1>3. CASE Compile(t)
  <2>1. pc' \in [Threads -> Labels]
    BY <1>3, GotoType, StepLabels DEF Compile
  <2>2. QED
    BY <1>3, <2>1 DEF Compile
<1>4. CASE CompileFails(t)
  <2>1. pc' \in [Threads -> Labels]
    BY <1>4, GotoType, StepLabels DEF CompileFails
  <2>2. QED
    BY <1>4, <2>1 DEF CompileFails
<1>5. QED
  BY <1>1, <1>2, <1>3, <1>4 DEF Setup

(* LockStep says that elapsed, a divisor in Calculate, is positive there,  *)
(* and that the calibration chase precedes CalStop.                        *)
LEMMA CalibrateType ==
  ASSUME TypeOK, NEW t \in Threads, Calibrate(t),
         pc[t] = "calc" => elapsed > 0,
         pc[t] = "calStop" => calPasses[0] >= 0
  PROVE  TypeOK'
<1> USE ConstantFacts DEF TypeOK, setupVars, calVars, expVars, mainVars
<1>1. CASE SkipCalibration(t)
  <2>1. pc' \in [Threads -> Labels]
    BY <1>1, GotoType, StepLabels DEF SkipCalibration
  <2>2. QED
    BY <1>1, <2>1 DEF SkipCalibration
<1>2. CASE BeginCalibration(t)
  <2>1. pc' \in [Threads -> Labels]
    BY <1>2, GotoType, StepLabels DEF BeginCalibration
  <2>2. PICK r \in Resolutions :
          bound' = [bound EXCEPT
                      ![t] = IF MinBound < 10 * r THEN 10 * r ELSE MinBound]
    BY <1>2 DEF BeginCalibration
  <2>3. bound' \in [Threads -> Int]
    BY <2>2
  <2>4. QED
    BY <1>2, <2>1, <2>3, 0 \in 0 .. LongBits DEF BeginCalibration
<1>3. CASE CalCond(t)
  <2>1. pc' \in [Threads -> Labels]
    BY <1>3, GotoType, StepLabels DEF CalCond
  <2>2. QED
    BY <1>3, <2>1 DEF CalCond
<1>4. CASE CalStart(t)
  <2>1. pc' \in [Threads -> Labels]
    BY <1>4, GotoType, StepLabels DEF CalStart
  <2>2. calPasses' \in [Threads -> -1 .. LongBits]
    BY <1>4 DEF CalStart
  <2>3. QED
    BY <1>4, <2>1, <2>2 DEF CalStart
<1>5. CASE CalChase(t)
  <2>1. pc' \in [Threads -> Labels]
    BY <1>5, GotoType, StepLabels DEF CalChase
  <2>2. calPasses' \in [Threads -> -1 .. LongBits]
    BY <1>5 DEF CalChase
  <2>3. QED
    BY <1>5, <2>1, <2>2 DEF CalChase
<1>6. CASE CalChaseOverflows(t)
  <2>1. pc' \in [Threads -> Labels]
    BY <1>6, GotoType, StepLabels DEF CalChaseOverflows
  <2>2. QED
    BY <1>6, <2>1 DEF CalChaseOverflows
<1>7. CASE CalStop(t)
  <2>1. calPasses[0] \in Nat
    BY <1>7 DEF CalStop, Goto
  <2>2. CalLoopPasses(calPasses[0]) \in Int
    BY <2>1, ItersValueType
  <2>3. elapsed' \in Int
    <3>1. CASE t = 0
      <4>1. PICK j \in Jitter :
              elapsed' = PassTime * CalLoopPasses(calPasses[0]) + j
        BY <1>7, <3>1 DEF CalStop
      <4>2. QED
        BY <2>2, <4>1
    <3>2. CASE t # 0
      BY <1>7, <3>2 DEF CalStop
    <3>3. QED
      BY <3>1, <3>2
  <2>4. pc' \in [Threads -> Labels]
    BY <1>7, GotoType, StepLabels DEF CalStop
  <2>5. QED
    BY <1>7, <2>1, <2>2, <2>3, <2>4 DEF CalStop
<1>8. CASE ShiftRead(t)
  <2>1. pc' \in [Threads -> Labels]
    BY <1>8, GotoType, StepLabels DEF ShiftRead
  <2>2. QED
    BY <1>8, <2>1 DEF ShiftRead
<1>9. CASE ShiftWrite(t)
  <2>1. pc' \in [Threads -> Labels]
    BY <1>9, GotoType, StepLabels DEF ShiftWrite
  <2>4. /\ shifted[t] \in 0 .. LongBits
        /\ iters' = IF shifted[t] < LongBits THEN shifted[t] + 1 ELSE LongBits
    BY <1>9, Zenon DEF ShiftWrite
  <2>2. iters' \in 0 .. LongBits
    <3> HIDE DEF TypeOK
    <3> QED BY <2>4
  <2>3. QED
    BY <1>9, <2>1, <2>2 DEF ShiftWrite
<1>10. CASE Calculate(t)
  <2>1. elapsed > 0
    BY <1>10 DEF Calculate, Goto
  <2>2. iters \in Nat /\ elapsed \in Int
    OBVIOUS
  <2>5. Predicted(iters) \in Nat
    BY <2>1, <2>2, PredictedType
  <2>3. pc' \in [Threads -> Labels]
    BY <1>10, GotoType, StepLabels DEF Calculate
  <2>4. QED
    BY <1>10, <2>3, <2>5 DEF Calculate
<1>11. QED
  BY <1>1, <1>2, <1>3, <1>4, <1>5, <1>6, <1>7, <1>8, <1>9, <1>10
  DEF Calibrate

(* The counter of a thread at "record" is below Experiments.               *)
LEMMA ExperimentType ==
  ASSUME TypeOK, NEW t \in Threads, Experiment(t),
         pc[t] = "record" => e[t] < Experiments
  PROVE  TypeOK'
<1> USE ConstantFacts DEF TypeOK, setupVars, calVars, expVars, mainVars
<1>1. CASE ExpTest(t)
  <2>1. pc' \in [Threads -> Labels]
    BY <1>1, GotoType, StepLabels DEF ExpTest
  <2>2. QED
    BY <1>1, <2>1 DEF ExpTest
<1>2. CASE StartTimer(t)
  <2>1. pc' \in [Threads -> Labels]
    BY <1>2, GotoType, StepLabels DEF StartTimer
  <2>2. QED
    BY <1>2, <2>1 DEF StartTimer
<1>3. CASE Chase(t)
  <2>1. pc' \in [Threads -> Labels]
    BY <1>3, GotoType, StepLabels DEF Chase
  <2>2. QED
    BY <1>3, <2>1 DEF Chase
<1>4. CASE ChaseOverflows(t)
  <2>1. pc' \in [Threads -> Labels]
    BY <1>4, GotoType, StepLabels DEF ChaseOverflows
  <2>2. QED
    BY <1>4, <2>1 DEF ChaseOverflows
<1>5. CASE StopTimer(t)
  <2>1. passes[0] \in Nat
    OBVIOUS
  <2>2. delta' \in Int
    <3>1. CASE t = 0
      <4>1. PICK j \in Jitter : delta' = PassTime * passes[0] + j
        BY <1>5, <3>1 DEF StopTimer
      <4>2. QED
        BY <2>1, <4>1
    <3>2. CASE t # 0
      BY <1>5, <3>2 DEF StopTimer
    <3>3. QED
      BY <3>1, <3>2
  <2>3. pc' \in [Threads -> Labels]
    BY <1>5, GotoType, StepLabels DEF StopTimer
  <2>4. QED
    BY <1>5, <2>1, <2>2, <2>3 DEF StopTimer
<1>6. CASE Record(t)
  <2>1. seconds' \in Seq(Int)
    BY <1>6 DEF Record
  <2>2. e' \in [Threads -> 0 .. Experiments]
    <3>0. e[t] \in 0 .. Experiments /\ e[t] < Experiments
      BY <1>6, Zenon DEF Record, Goto
    <3>1. e[t] + 1 \in 0 .. Experiments
      <4> HIDE DEF TypeOK
      <4> QED BY <3>0
    <3>2. e' = [e EXCEPT ![t] = e[t] + 1]
      BY <1>6 DEF Record
    <3>3. QED
      BY <3>1, <3>2
  <2>3. pc' \in [Threads -> Labels]
    BY <1>6, GotoType, StepLabels DEF Record
  <2>4. QED
    BY <1>6, <2>1, <2>2, <2>3 DEF Record
<1>7. CASE FreeChains(t)
  <2>1. pc' \in [Threads -> Labels]
    BY <1>7, GotoType, StepLabels DEF FreeChains
  <2>2. QED
    BY <1>7, <2>1 DEF FreeChains
<1>8. QED
  BY <1>1, <1>2, <1>3, <1>4, <1>5, <1>6, <1>7 DEF Experiment

-----------------------------------------------------------------------------
(* The stretches between barriers.  A step of a thread never leaves the    *)
(* stretch it is in: one lemma for each.                                   *)

LEMMA MainSetup ==
  ASSUME TypeOK, InSetup, Main PROVE InSetup'
<1> USE DEF TypeOK, InSetup, Everyone, setupVars, calVars, expVars, mainVars
<1>1. CASE StartThread
  BY <1>1 DEF StartThread, Goto
<1>2. CASE StartFails
  BY <1>2 DEF StartFails, Goto
<1>3. CASE JoinThread \/ JoinCrashes \/ PrintResults
  BY <1>3 DEF JoinThread, JoinCrashes, PrintResults
<1>4. QED
  BY <1>1, <1>2, <1>3 DEF Main

LEMMA SetupStep ==
  ASSUME TypeOK, InSetup, NEW t \in Threads, Step(t) PROVE InSetup'
<1> USE ConstantFacts DEF TypeOK, InSetup, Everyone, setupVars, calVars,
                          expVars, mainVars
<1>1. CASE Alloc(t)
  BY <1>1 DEF Alloc, Goto
<1>2. CASE LinkChains(t)
  BY <1>2 DEF LinkChains, Goto
<1>3. CASE Compile(t)
  BY <1>3 DEF Compile, Goto
<1>4. CASE CompileFails(t)
  BY <1>4 DEF CompileFails, Goto
<1>5. CASE SkipCalibration(t)
  BY <1>5 DEF SkipCalibration, Goto
<1>6. CASE BeginCalibration(t)
  <2>1. PICK r \in Resolutions :
          bound' = [bound EXCEPT
                      ![t] = IF MinBound < 10 * r THEN 10 * r ELSE MinBound]
    BY <1>6 DEF BeginCalibration
  <2>2. ~(MinBound < 10 * r)
    BY ResolutionAssumption
  <2>3. bound' = [bound EXCEPT ![t] = MinBound]
    BY <2>1, <2>2
  <2>4. QED
    BY <1>6, <2>3 DEF BeginCalibration, Goto
<1>7. CASE CalCond(t)
  <2>1. elapsed <= bound[t]
    BY <1>7 DEF CalCond, Goto
  <2>2. QED
    BY <1>7, <2>1 DEF CalCond, Goto
<1>8. CASE ExpTest(t)
  <2>1. e[t] < Experiments
    <3>1. e[t] = 0
      BY Zenon
    <3> HIDE DEF TypeOK, InSetup
    <3>2. QED
      BY <3>1
  <2>2. pc[t] = "expTest" /\ pc' = [pc EXCEPT ![t] = "bar163"]
    BY <1>8, <2>1 DEF ExpTest, Goto
  <2>3. UNCHANGED <<elapsed, iterations, e, bound>>
    BY <1>8 DEF ExpTest
  <2>4. QED
    BY <2>2, <2>3
<1>9. QED
  BY <1>1, <1>2, <1>3, <1>4, <1>5, <1>6, <1>7, <1>8
  DEF Step, Setup, Calibrate, Experiment, Alloc, LinkChains, Compile, CompileFails,
      SkipCalibration, BeginCalibration, CalCond, CalStart, CalChase,
      CalChaseOverflows, CalStop, ShiftRead, ShiftWrite, Calculate, ExpTest,
      StartTimer, Chase, ChaseOverflows, StopTimer, Record, FreeChains,
      CallNull, Goto

LEMMA CalStartStep ==
  ASSUME TypeOK, InCalStart, NEW t \in Threads, Step(t) PROVE InCalStart'
<1> USE ConstantFacts DEF TypeOK, InCalStart, Everyone, Calibrating, setupVars, calVars,
                          expVars, mainVars
<1>1. CASE CalStart(t)
  BY <1>1 DEF CalStart, Goto
<1>2. QED
  BY <1>1
  DEF Step, Setup, Calibrate, Experiment, Alloc, LinkChains, Compile, CompileFails,
      SkipCalibration, BeginCalibration, CalCond, CalStart, CalChase,
      CalChaseOverflows, CalStop, ShiftRead, ShiftWrite, Calculate, ExpTest,
      StartTimer, Chase, ChaseOverflows, StopTimer, Record, FreeChains,
      CallNull, Goto

LEMMA CalChaseStep ==
  ASSUME TypeOK, InCalChase, NEW t \in Threads, Step(t) PROVE InCalChase'
<1> USE ConstantFacts DEF TypeOK, InCalChase, Everyone, Calibrating, setupVars, calVars,
                          expVars, mainVars
<1>1. CASE CalChase(t)
  BY <1>1 DEF CalChase, Goto
<1>2. CASE CalChaseOverflows(t)
  BY <1>2 DEF CalChaseOverflows, Goto
<1>3. CASE CallNull(t)
  BY <1>3 DEF CallNull
<1>4. QED
  BY <1>1, <1>2, <1>3
  DEF Step, Setup, Calibrate, Experiment, Alloc, LinkChains, Compile, CompileFails,
      SkipCalibration, BeginCalibration, CalCond, CalStart, CalChase,
      CalChaseOverflows, CalStop, ShiftRead, ShiftWrite, Calculate, ExpTest,
      StartTimer, Chase, ChaseOverflows, StopTimer, Record, FreeChains,
      CallNull, Goto

LEMMA CalStopStep ==
  ASSUME TypeOK, InCalStop, NEW t \in Threads, Step(t) PROVE InCalStop'
<1> USE ConstantFacts DEF TypeOK, InCalStop, Everyone, Calibrating, setupVars, calVars,
                          expVars, mainVars
<1>1. CASE CalStop(t)
  BY <1>1 DEF CalStop, Goto
<1>2. QED
  BY <1>1
  DEF Step, Setup, Calibrate, Experiment, Alloc, LinkChains, Compile, CompileFails,
      SkipCalibration, BeginCalibration, CalCond, CalStart, CalChase,
      CalChaseOverflows, CalStop, ShiftRead, ShiftWrite, Calculate, ExpTest,
      StartTimer, Chase, ChaseOverflows, StopTimer, Record, FreeChains,
      CallNull, Goto

LEMMA ExpFirstStep ==
  ASSUME TypeOK, InExpFirst, NEW t \in Threads, Step(t) PROVE InExpFirst'
<1> USE ConstantFacts DEF TypeOK, InExpFirst, Everyone, setupVars, calVars,
                          expVars, mainVars
<1>1. CASE ExpTest(t)
  <2>1. e[t] < Experiments
    <3>1. e[t] = 0
      BY Zenon
    <3> HIDE DEF TypeOK, InExpFirst
    <3>2. QED
      BY <3>1
  <2>2. pc' = [pc EXCEPT ![t] = "bar163"]
    BY <1>1, <2>1 DEF ExpTest, Goto
  <2>3. QED
    BY <1>1, <2>2 DEF ExpTest
<1>2. QED
  BY <1>1
  DEF Step, Setup, Calibrate, Experiment, Alloc, LinkChains, Compile, CompileFails,
      SkipCalibration, BeginCalibration, CalCond, CalStart, CalChase,
      CalChaseOverflows, CalStop, ShiftRead, ShiftWrite, Calculate, ExpTest,
      StartTimer, Chase, ChaseOverflows, StopTimer, Record, FreeChains,
      CallNull, Goto

LEMMA ExpStartStep ==
  ASSUME TypeOK, InExpStart, NEW t \in Threads, Step(t) PROVE InExpStart'
<1> USE ConstantFacts DEF TypeOK, InExpStart, Everyone, SameExperiment, setupVars, calVars,
                          expVars, mainVars
<1>1. CASE StartTimer(t)
  BY <1>1 DEF StartTimer, Goto
<1>2. QED
  BY <1>1
  DEF Step, Setup, Calibrate, Experiment, Alloc, LinkChains, Compile, CompileFails,
      SkipCalibration, BeginCalibration, CalCond, CalStart, CalChase,
      CalChaseOverflows, CalStop, ShiftRead, ShiftWrite, Calculate, ExpTest,
      StartTimer, Chase, ChaseOverflows, StopTimer, Record, FreeChains,
      CallNull, Goto

LEMMA ExpChaseStep ==
  ASSUME TypeOK, InExpChase, NEW t \in Threads, Step(t) PROVE InExpChase'
<1> USE ConstantFacts DEF TypeOK, InExpChase, Everyone, SameExperiment, setupVars, calVars,
                          expVars, mainVars
<1>1. CASE Chase(t)
  BY <1>1 DEF Chase, Goto
<1>2. CASE ChaseOverflows(t)
  BY <1>2 DEF ChaseOverflows, Goto
<1>3. CASE CallNull(t)
  BY <1>3 DEF CallNull
<1>4. QED
  BY <1>1, <1>2, <1>3
  DEF Step, Setup, Calibrate, Experiment, Alloc, LinkChains, Compile, CompileFails,
      SkipCalibration, BeginCalibration, CalCond, CalStart, CalChase,
      CalChaseOverflows, CalStop, ShiftRead, ShiftWrite, Calculate, ExpTest,
      StartTimer, Chase, ChaseOverflows, StopTimer, Record, FreeChains,
      CallNull, Goto

LEMMA ExpStopStep ==
  ASSUME TypeOK, InExpStop, NEW t \in Threads, Step(t) PROVE InExpStop'
<1> USE ConstantFacts DEF TypeOK, InExpStop, Everyone, SameExperiment, setupVars, calVars,
                          expVars, mainVars
<1>1. CASE StopTimer(t)
  BY <1>1 DEF StopTimer, Goto
<1>2. QED
  BY <1>1
  DEF Step, Setup, Calibrate, Experiment, Alloc, LinkChains, Compile, CompileFails,
      SkipCalibration, BeginCalibration, CalCond, CalStart, CalChase,
      CalChaseOverflows, CalStop, ShiftRead, ShiftWrite, Calculate, ExpTest,
      StartTimer, Chase, ChaseOverflows, StopTimer, Record, FreeChains,
      CallNull, Goto

LEMMA EndStep ==
  ASSUME TypeOK, InEnd, NEW t \in Threads, Step(t) PROVE InEnd'
<1> USE ConstantFacts DEF TypeOK, InEnd, Everyone, setupVars, calVars,
                          expVars, mainVars
<1>1. CASE FreeChains(t)
  BY <1>1 DEF FreeChains, Goto
<1>2. QED
  BY <1>1
  DEF Step, Setup, Calibrate, Experiment, Alloc, LinkChains, Compile, CompileFails,
      SkipCalibration, BeginCalibration, CalCond, CalStart, CalChase,
      CalChaseOverflows, CalStop, ShiftRead, ShiftWrite, Calculate, ExpTest,
      StartTimer, Chase, ChaseOverflows, StopTimer, Record, FreeChains,
      CallNull, Goto

LEMMA RecordStep ==
  ASSUME TypeOK, InRecord, NEW t \in Threads, Step(t) PROVE InRecord'
<1>k. PICK k \in 0 .. Experiments - 1 : \A u \in Threads :
        /\ e[u] = IF pc[u] = "record" THEN k ELSE k + 1
        /\ pc[u] = "bar163" => e[u] < Experiments
        /\ pc[u] = "bar194" => e[u] = Experiments
  BY DEF InRecord
<1> USE ConstantFacts DEF TypeOK, Everyone, setupVars, calVars, expVars, mainVars
<1> DEFINE P(j) == \A u \in Threads :
                     /\ e[u] = IF pc[u] = "record" THEN j ELSE j + 1
                     /\ pc[u] = "bar163" => e[u] < Experiments
                     /\ pc[u] = "bar194" => e[u] = Experiments
<1>1. CASE ExpTest(t)
  <2>1. e[t] = k + 1 /\ e[t] <= Experiments
    BY <1>k, <1>1 DEF ExpTest, Goto
  <2>2. \/ pc'[t] = "bar163" /\ e[t] < Experiments
        \/ pc'[t] = "bar194" /\ e[t] = Experiments
    BY <1>1, <2>1 DEF ExpTest, Goto
  <2>3. \A u \in Threads : u # t => pc'[u] = pc[u]
    BY <1>1 DEF ExpTest, Goto
  <2>4. e' = e
    BY <1>1 DEF ExpTest
  <2>5. P(k)'
    <3> HIDE DEF TypeOK
    <3> QED BY <1>k, <2>1, <2>2, <2>3, <2>4
  <2>6. QED
    BY <1>1, <2>5 DEF ExpTest, Goto, InRecord
<1>2. CASE Record(t)
  <2>1. P(k)'
    BY <1>k, <1>2 DEF Record, Goto
  <2>2. QED
    BY <1>2, <2>1 DEF Record, Goto, InRecord
<1>3. QED
  BY <1>1, <1>2
  DEF Step, Setup, Calibrate, Experiment, Alloc, LinkChains, Compile,
      CompileFails, SkipCalibration, BeginCalibration, CalCond, CalStart,
      CalChase, CalChaseOverflows, CalStop, ShiftRead, ShiftWrite, Calculate,
      ExpTest, StartTimer, Chase, ChaseOverflows, StopTimer, Record,
      FreeChains, CallNull, Goto, InRecord

(* The number of threads that have shifted is a number and at most         *)
(* NumThreads.                                                             *)
LEMMA HaveShiftedSize ==
  /\ IsFiniteSet(HaveShifted)
  /\ Cardinality(HaveShifted) \in Nat
  /\ Cardinality(HaveShifted) <= NumThreads
<1>1. IsFiniteSet(Threads) /\ Cardinality(Threads) = NumThreads
  BY FS_Interval, ConstantFacts DEF Threads
<1>2. HaveShifted \subseteq Threads
  BY DEF HaveShifted
<1>3. QED
  BY <1>1, <1>2, FS_Subset, FS_CardinalityType

LEMMA ShiftStep ==
  ASSUME TypeOK, InShift, NEW t \in Threads, Step(t) PROVE InShift'
<1> USE ConstantFacts DEF TypeOK, InShift, Calibrating, Everyone, setupVars,
                          calVars, expVars, mainVars
<1>0. Cardinality(HaveShifted) \in Nat
  BY HaveShiftedSize
<1>1. CASE ShiftRead(t)
  <2>1. HaveShifted' = HaveShifted
    BY <1>1 DEF ShiftRead, Goto, HaveShifted
  <2>2. QED
    BY <1>0, <1>1, <2>1 DEF ShiftRead, Goto
<1>2. CASE ShiftWrite(t)
  <2>1. t \notin HaveShifted /\ HaveShifted' = HaveShifted \cup {t}
    <3>1. pc[t] = "shiftWrite" /\ pc' = [pc EXCEPT ![t] = "calCond"]
      BY <1>2 DEF ShiftWrite, Goto
    <3>2. pc \in [Threads -> Labels]
      OBVIOUS
    <3> HIDE DEF TypeOK, InShift
    <3>3. QED
      BY <3>1, <3>2 DEF HaveShifted
  <2>2. Cardinality(HaveShifted') = Cardinality(HaveShifted) + 1
    BY <2>1, HaveShiftedSize, FS_AddElement
  <2>3. /\ shifted[t] \in 0 .. LongBits /\ calPasses[0] \in Nat
        /\ shifted[t] >= calPasses[0]
        /\ shifted[t] <= calPasses[0] + Cardinality(HaveShifted)
        /\ iters' = IF shifted[t] < LongBits THEN shifted[t] + 1 ELSE LongBits
    BY <1>2 DEF ShiftWrite, Goto
  <2>4. /\ iters' <= calPasses[0] + Cardinality(HaveShifted)'
        /\ iters' >= calPasses[0] + 1 \/ iters' = LongBits
        /\ iters' >= calPasses[0]
    <3> HIDE DEF TypeOK, InShift
    <3> QED BY <1>0, <2>2, <2>3
  <2>5. \A u \in Threads : pc'[u] = "shiftWrite" =>
          /\ u # t /\ shifted[u] \in 0 .. LongBits
          /\ shifted[u] >= calPasses[0]
          /\ shifted[u] <= calPasses[0] + Cardinality(HaveShifted)
    BY <1>2 DEF ShiftWrite, Goto
  <2>6. \A u \in Threads : pc'[u] = "shiftWrite" =>
          shifted[u] <= calPasses[0] + Cardinality(HaveShifted)'
    <3> HIDE DEF TypeOK, InShift
    <3> QED BY <1>0, <2>2, <2>3, <2>5
  <2>7. QED
    BY <1>2, <2>4, <2>5, <2>6 DEF ShiftWrite, Goto
<1>3. CASE CalCond(t)
  <2>1. HaveShifted' = HaveShifted
    BY <1>3 DEF CalCond, Goto, HaveShifted
  <2>2. pc'[t] = "bar124" => elapsed <= MinBound
    BY <1>3 DEF CalCond, Goto
  <2>3. pc'[t] # "bar124" => pc'[t] = "calc" /\ elapsed > MinBound
    BY <1>3 DEF CalCond, Goto
  <2>4. QED
    BY <1>0, <1>3, <2>1, <2>2, <2>3 DEF CalCond, Goto
<1>4. CASE Calculate(t)
  <2>1. HaveShifted' = HaveShifted
    BY <1>4 DEF Calculate, Goto, HaveShifted
  <2>2. elapsed \in Int /\ elapsed > 0 /\ iters \in Nat
    BY <1>4 DEF Calculate, Goto
  <2>3. Predicted(iters) \in Nat /\ Predicted(iters) >= 1
    BY <2>2, PredictedType
  <2>4. QED
    BY <1>0, <1>4, <2>1, <2>3 DEF Calculate, Goto
<1>5. QED
  BY <1>1, <1>2, <1>3, <1>4
  DEF Step, Setup, Calibrate, Experiment, Alloc, LinkChains, Compile,
      CompileFails, SkipCalibration, BeginCalibration, CalCond, CalStart,
      CalChase, CalChaseOverflows, CalStop, ShiftRead, ShiftWrite, Calculate,
      ExpTest, StartTimer, Chase, ChaseOverflows, StopTimer, Record,
      FreeChains, CallNull, Goto

-----------------------------------------------------------------------------
(* Opening the barrier leads from one stretch to the next.                 *)

LEMMA BarrierStep ==
  ASSUME TypeOK, LockStep, Barrier
  PROVE  LockStep' /\ (Measuring => Measuring')
<1> USE ConstantFacts, AfterBarrierValues
    DEF TypeOK, Barrier, BarrierLabels, Everyone, setupVars, calVars, expVars
<1>1. CASE InSetup
  <2>1. CASE iterations = 0
    <3>1. InCalStart'
      BY <1>1, <2>1 DEF InSetup, InCalStart, Calibrating
    <3>2. QED
      BY <1>1, <2>1, <3>1 DEF LockStep, InSetup, Measuring, InExpStart,
         SameExperiment, InExpChase, InExpStop, InRecord, InEnd
  <2>2. CASE iterations # 0
    <3>1. \A t \in Threads : pc[t] = "bar163" /\ e[t] = 0
      BY <1>1, <2>2 DEF InSetup
    <3>2. \A t \in Threads : pc'[t] = "start" /\ e'[t] = 0
      BY <3>1
    <3>3. InExpStart'
      BY <2>2, <3>2 DEF InExpStart, SameExperiment
    <3>4. QED
      BY <3>3 DEF LockStep, Measuring
  <2>3. QED
    BY <2>1, <2>2
<1>2. CASE InCalStart
  <2>1. InCalChase'
    BY <1>2 DEF InCalStart, InCalChase, Calibrating
  <2>2. QED
    BY <1>2, <2>1 DEF LockStep, InCalStart, Measuring, InExpStart, InExpChase,
       InExpStop, InRecord, InEnd
<1>3. CASE InCalChase
  <2>1. InCalStop'
    BY <1>3 DEF InCalChase, InCalStop, Calibrating
  <2>2. QED
    BY <1>3, <2>1 DEF LockStep, InCalChase, Measuring, InExpStart, InExpChase,
       InExpStop, InRecord, InEnd
<1>4. CASE InCalStop
  <2>1. HaveShifted' = {}
    BY <1>4 DEF InCalStop, HaveShifted
  <2>2. Cardinality(HaveShifted)' = 0
    BY <2>1, FS_EmptySet
  <2>5. \A t \in Threads : pc'[t] = "shiftRead" /\ bound'[t] = MinBound /\ e'[t] = 0
    BY <1>4 DEF InCalStop, Calibrating
  <2>6. /\ calPasses'[0] = iters' /\ calPasses'[0] \in Nat /\ iterations' = 0
        /\ iters' \in Nat
    BY <1>4 DEF InCalStop
  <2> HIDE DEF TypeOK, Barrier
  <2>3. InShift'
    BY <2>1, <2>2, <2>5, <2>6 DEF InShift, Calibrating
  <2>4. QED
    BY <1>4, <2>3 DEF LockStep, InCalStop, Measuring, InExpStart, InExpChase,
       InExpStop, InRecord, InEnd
<1>5. CASE InShift
  <2>1. CASE elapsed <= MinBound
    <3>1. \A t \in Threads : pc[t] = "bar124"
      <4>1. \A t \in Threads :
              /\ pc[t] \in {"bar124", "bar157"}
              /\ pc[t] = "bar157" => elapsed > MinBound
        BY <1>5, Zenon DEF InShift
      <4>2. elapsed \in Int
        OBVIOUS
      <4> HIDE DEF TypeOK, Barrier
      <4>3. QED
        BY <2>1, <4>1, <4>2
    <3>2. iterations = 0
      BY <1>5, <3>1 DEF InShift
    <3>3. InCalStart'
      BY <1>5, <3>1, <3>2 DEF InShift, InCalStart, Calibrating
    <3>4. QED
      BY <3>1, <3>3 DEF LockStep, InShift, Measuring, InExpStart,
         InExpChase, InExpStop, InRecord, InEnd
  <2>2. CASE ~(elapsed <= MinBound)
    <3>1. \A t \in Threads : pc[t] = "bar157"
      BY <1>5, <2>2 DEF InShift
    <3>2. InExpFirst'
      BY <1>5, <3>1 DEF InShift, Calibrating, InExpFirst
    <3>3. QED
      BY <3>1, <3>2 DEF LockStep, Measuring, InExpStart, InExpChase,
         InExpStop, InRecord, InEnd
  <2>3. QED
    BY <2>1, <2>2
<1>6. CASE InExpFirst
  <2>1. \A t \in Threads : pc'[t] = "start" /\ e'[t] = 0
    BY <1>6 DEF InExpFirst
  <2>2. iterations' >= 1
    BY <1>6, Zenon DEF InExpFirst
  <2> HIDE DEF TypeOK, Barrier
  <2>3. InExpStart'
    BY <2>1, <2>2 DEF InExpStart, SameExperiment
  <2>4. QED
    BY <2>3 DEF LockStep, Measuring
<1>7. CASE InExpStart
  <2>1. InExpChase'
    BY <1>7 DEF InExpStart, InExpChase, SameExperiment
  <2>2. QED
    BY <2>1 DEF LockStep, Measuring
<1>8. CASE InExpChase
  <2>1. InExpStop'
    BY <1>8 DEF InExpChase, InExpStop, SameExperiment
  <2>2. QED
    BY <2>1 DEF LockStep, Measuring
<1>9. CASE InExpStop
  <2>1. e[0] \in 0 .. Experiments - 1
    <3>1. e[0] \in 0 .. Experiments /\ e[0] < Experiments
      BY <1>9, Zenon DEF InExpStop, SameExperiment
    <3> HIDE DEF TypeOK, Barrier
    <3>2. QED
      BY <3>1
  <2>2. /\ \A t \in Threads : pc'[t] = "record" /\ e'[t] = e[0] /\ bench'[t]
        /\ iterations' >= 1
    BY <1>9 DEF InExpStop, SameExperiment
  <2>3. InRecord'
    BY <2>1, <2>2, Zenon DEF InRecord
  <2>4. QED
    BY <2>3 DEF LockStep, Measuring
<1>10. CASE InRecord
  <2>1. PICK k \in 0 .. Experiments - 1 : \A t \in Threads :
          /\ e[t] = IF pc[t] = "record" THEN k ELSE k + 1
          /\ pc[t] = "bar163" => e[t] < Experiments
          /\ pc[t] = "bar194" => e[t] = Experiments
    BY <1>10 DEF InRecord
  <2>2. CASE k + 1 < Experiments
    <3>1. \A t \in Threads : pc[t] = "bar163" /\ e[t] = k + 1
      <4>1. \A t \in Threads : pc[t] \in {"bar163", "bar194"}
        BY <1>10, Zenon DEF InRecord
      <4> HIDE DEF TypeOK, Barrier
      <4>2. QED
        BY <2>1, <2>2, <4>1
    <3>2. \A t \in Threads : pc'[t] = "start" /\ e'[t] = k + 1
      BY <3>1
    <3>3. iterations' >= 1
      BY <1>10, Zenon DEF InRecord
    <3> HIDE DEF TypeOK, Barrier
    <3>4. InExpStart'
      BY <2>2, <3>2, <3>3 DEF InExpStart, SameExperiment
    <3>5. QED
      BY <3>4 DEF LockStep, Measuring
  <2>3. CASE ~(k + 1 < Experiments)
    <3>1. \A t \in Threads : pc[t] = "bar194"
      <4>1. \A t \in Threads : pc[t] \in {"bar163", "bar194"}
        BY <1>10, Zenon DEF InRecord
      <4> HIDE DEF TypeOK, Barrier
      <4>2. QED
        BY <2>1, <2>3, <4>1
    <3>2. \A t \in Threads : pc'[t] = "free"
      BY <3>1
    <3>3. iterations' >= 1 /\ \A t \in Threads : bench'[t]
      BY <1>10, Zenon DEF InRecord
    <3> HIDE DEF TypeOK, Barrier
    <3>4. InEnd'
      BY <3>2, <3>3 DEF InEnd
    <3>5. QED
      BY <3>4 DEF LockStep, Measuring
  <2>4. QED
    BY <2>2, <2>3
<1>11. CASE InEnd
  BY <1>11 DEF InEnd
<1>12. QED
  BY <1>1, <1>2, <1>3, <1>4, <1>5, <1>6, <1>7, <1>8, <1>9, <1>10, <1>11
  DEF LockStep, Measuring

-----------------------------------------------------------------------------
(* Every step preserves the invariant.                                     *)

(* What main() does changes nothing that LockStep speaks of, except that   *)
(* it starts a thread, which is possible during the set-up only.           *)
LEMMA MainStep ==
  ASSUME TypeOK, LockStep, Main
  PROVE  LockStep' /\ (Measuring => Measuring')
<1>1. CASE InSetup
  <2>1. InSetup'
    BY <1>1, MainSetup
  <2>2. ~Measuring \/ UNCHANGED <<pc, setupVars, calVars, expVars>>
    BY DEF Main, StartThread, StartFails, JoinThread, JoinCrashes,
       PrintResults, Goto, TypeOK, Measuring, InExpStart, InExpChase,
       InExpStop, InRecord, InEnd, Everyone
  <2>3. Measuring => Measuring'
    BY <2>2 DEF setupVars, calVars, expVars, Measuring, InExpStart, InExpChase,
       InExpStop, InRecord, InEnd, Everyone, SameExperiment
  <2>4. QED
    BY <2>1, <2>3 DEF LockStep
<1>2. CASE ~InSetup
  <2>1. \A t \in Threads : pc[t] # "new"
    BY <1>2 DEF LockStep, Measuring, InCalStart, InCalChase, InCalStop,
       InShift, InExpFirst, InExpStart, InExpChase, InExpStop, InRecord,
       InEnd, Everyone
  <2>2. UNCHANGED <<pc, setupVars, calVars, expVars>>
    BY <2>1 DEF Main, StartThread, StartFails, JoinThread, JoinCrashes,
       PrintResults, Goto, TypeOK
  <2>3. QED
    BY <2>2 DEF LockStep, setupVars, calVars, expVars, Measuring, InSetup,
       InCalStart, InCalChase, InCalStop, InShift, HaveShifted, InExpFirst,
       InExpStart, InExpChase, InExpStop, InRecord, InEnd, Everyone,
       SameExperiment, Calibrating
<1>3. QED
  BY <1>1, <1>2

LEMMA ThreadStep ==
  ASSUME TypeOK, LockStep, NEW t \in Threads, Step(t)
  PROVE  LockStep' /\ (Measuring => Measuring')
BY SetupStep, CalStartStep, CalChaseStep, CalStopStep, ShiftStep,
   ExpFirstStep, ExpStartStep, ExpChaseStep, ExpStopStep, RecordStep, EndStep
DEF LockStep, Measuring

LEMMA ThreadType ==
  ASSUME TypeOK, LockStep, NEW t \in Threads, Step(t) PROVE TypeOK'
<1>1. CASE Setup(t)
  BY <1>1, SetupType
<1>2. CASE Calibrate(t)
  <2>1. pc[t] = "calc" => elapsed > 0
    <3>1. pc[t] = "calc" => elapsed > MinBound
      BY DEF LockStep, Measuring, InSetup, InCalStart, InCalChase,
         InCalStop, InShift, InExpFirst, InExpStart, InExpChase, InExpStop,
         InRecord, InEnd, Everyone
    <3>2. QED
      BY <3>1, ConstantFacts DEF TypeOK
  <2>2. pc[t] = "calStop" => calPasses[0] >= 0
    <3>1. pc[t] = "calStop" => InCalStop
      BY DEF LockStep, Measuring, InSetup, InCalStart, InCalChase,
         InShift, InExpFirst, InExpStart, InExpChase, InExpStop,
         InRecord, InEnd, Everyone
    <3>2. QED
      BY <3>1, ConstantFacts DEF TypeOK, InCalStop
  <2>3. QED
    BY <1>2, <2>1, <2>2, CalibrateType
<1>3. CASE CallNull(t)
  BY <1>3 DEF TypeOK, CallNull, mainVars, setupVars, calVars, expVars
<1>4. CASE Experiment(t)
  <2>1. pc[t] = "record" => InRecord
    BY DEF LockStep, Measuring, InSetup, InCalStart, InCalChase,
       InCalStop, InShift, InExpFirst, InExpStart, InExpChase, InExpStop,
       InEnd, Everyone
  <2>2. pc[t] = "record" => e[t] < Experiments
    BY <2>1, ConstantFacts DEF InRecord
  <2>3. QED
    BY <1>4, <2>2, ExperimentType
<1>5. QED
  BY <1>1, <1>2, <1>3, <1>4 DEF Step

(* A sample is appended by Record only, where all threads have a function, *)
(* and a thread keeps the function it has.                                 *)
LEMMA SamplesStep ==
  ASSUME TypeOK, LockStep, SamplesInv, Next,
         LockStep' /\ (Measuring => Measuring')
  PROVE  SamplesInv'
<1>1. \A u \in Threads : bench[u] => bench'[u]
  <2>1. CASE Main \/ OpenBarrier \/ Terminated
    BY <2>1 DEF Main, StartThread, StartFails, JoinThread, JoinCrashes,
       PrintResults, OpenBarrier, Barrier, Terminated, vars, setupVars
  <2>2. ASSUME NEW t \in Threads, Step(t)
        PROVE  bench' = bench \/ bench' = [bench EXCEPT ![t] = TRUE]
    BY <2>2 DEF Step, Setup, Calibrate, Experiment, Alloc, LinkChains, Compile,
      CompileFails, SkipCalibration, BeginCalibration, CalCond, CalStart,
      CalChase, CalChaseOverflows, CalStop, ShiftRead, ShiftWrite, Calculate,
      ExpTest, StartTimer, Chase, ChaseOverflows, StopTimer, Record,
      FreeChains, CallNull, setupVars
  <2>3. QED
    BY <2>1, <2>2 DEF Next, TypeOK
<1>2. \/ seconds' = seconds
      \/ \E t \in Threads : Record(t)
  BY DEF Next, Main, StartThread, StartFails, JoinThread, JoinCrashes,
     PrintResults, OpenBarrier, Barrier, Terminated, vars, expVars,
     Step, Setup, Calibrate, Experiment, Alloc, LinkChains, Compile,
     CompileFails, SkipCalibration, BeginCalibration, CalCond, CalStart,
     CalChase, CalChaseOverflows, CalStop, ShiftRead, ShiftWrite, Calculate,
     ExpTest, StartTimer, Chase, ChaseOverflows, StopTimer,
     FreeChains, CallNull
<1>3. CASE seconds' = seconds
  BY <1>1, <1>3 DEF SamplesInv
<1>4. ASSUME NEW t \in Threads, Record(t) PROVE SamplesInv'
  <2>1. pc[t] = "record"
    BY <1>4 DEF Record, Goto
  <2>2. InRecord
    BY <2>1 DEF LockStep, Measuring, InSetup, InCalStart, InCalChase,
       InCalStop, InShift, InExpFirst, InExpStart, InExpChase, InExpStop,
       InEnd, Everyone
  <2>3. QED
    BY <1>1, <2>2 DEF SamplesInv, InRecord, Measuring
<1>5. QED
  BY <1>2, <1>3, <1>4

LEMMA StepIInv == IInv /\ [Next]_vars => IInv'
<1> SUFFICES ASSUME IInv, [Next]_vars PROVE IInv'
  OBVIOUS
<1> USE DEF IInv
<1>1. CASE UNCHANGED vars
  <2>1. TypeOK'
    BY <1>1 DEF vars, TypeOK
  <2>2. LockStep' /\ (Measuring => Measuring')
    BY <1>1 DEF vars, LockStep, Measuring, InSetup, InCalStart, InCalChase,
       InCalStop, InShift, HaveShifted, InExpFirst, InExpStart, InExpChase,
       InExpStop, InRecord, InEnd, Everyone, SameExperiment, Calibrating
  <2>3. QED
    BY <1>1, <2>1, <2>2 DEF vars, SamplesInv
<1>2. CASE Next /\ ~UNCHANGED vars
  <2>1. TypeOK' /\ LockStep' /\ (Measuring => Measuring')
    <3>1. CASE Main
      BY <3>1, MainType, MainStep
    <3>2. CASE OpenBarrier
      BY <3>2, BarrierType, BarrierStep DEF OpenBarrier
    <3>3. ASSUME NEW t \in Threads, Step(t)
          PROVE  TypeOK' /\ LockStep' /\ (Measuring => Measuring')
      BY <3>3, ThreadType, ThreadStep
    <3>4. QED
      BY <1>2, <3>1, <3>2, <3>3 DEF Next, Terminated
  <2>2. QED
    BY <1>2, <2>1, SamplesStep
<1>3. QED
  BY <1>1, <1>2

-----------------------------------------------------------------------------
(* Theorems                                                                *)

(* The threads of Run::run() move in lock-step from barrier to barrier:    *)
(* IInv is an invariant.                                                   *)
THEOREM LockStepInvariant == Spec => []IInv
<1>1. QED
  BY InitIInv, StepIInv, PTL DEF Spec

(* Every variable of run.cpp and main.cpp keeps its type; the experiment   *)
(* counters stay within bounds and the prediction is a positive count.     *)
THEOREM TypeCorrect == Spec => []TypeOK
BY LockStepInvariant, PTL DEF IInv

(* No thread chases outside the interval that thread 0 times, for any      *)
(* number of threads and any interleaving.                                 *)
THEOREM ChaseIsTimed == Spec => []TimedChase
<1>1. IInv => TimedChase
  BY ConstantFacts DEF IInv, TimedChase, SameExperiment, LockStep, Measuring, InSetup, InCalStart, InCalChase, InCalStop,
     InShift, InExpFirst, InExpStart, InExpChase, InExpStop, InRecord, InEnd,
     Everyone
<1>2. QED
  BY <1>1, LockStepInvariant, PTL

(* The interval that thread 0 times contains the whole chase of every      *)
(* thread.                                                                 *)
THEOREM TimedWorkIsWhole == Spec => []WholeWork
<1>1. ASSUME IInv PROVE WholeWork
  <2>1. pc[0] = "calStop" => InCalStop
    BY <1>1, ConstantFacts DEF IInv, LockStep, Measuring, InSetup, InCalStart, InCalChase, InCalStop,
     InShift, InExpFirst, InExpStart, InExpChase, InExpStop, InRecord, InEnd,
     Everyone
  <2>2. pc[0] = "stop" => InExpStop
    BY <1>1, ConstantFacts DEF IInv, LockStep, Measuring, InSetup, InCalStart, InCalChase, InCalStop,
     InShift, InExpFirst, InExpStart, InExpChase, InExpStop, InRecord, InEnd,
     Everyone
  <2>3. iters # -1
    BY <1>1, ConstantFacts DEF IInv, TypeOK
  <2>4. QED
    BY <2>1, <2>2, <2>3 DEF WholeWork, InCalStop, InExpStop, SameExperiment
<1>2. QED
  BY <1>1, LockStepInvariant, PTL

(* The racing shifts of run.cpp:122 leave iters between 2 and 2^NumThreads *)
(* times the number of passes that were timed.                             *)
THEOREM PredictionBounds == Spec => []PredictionInput
<1>1. ASSUME IInv PROVE PredictionInput
  <2>1. SUFFICES ASSUME pc[0] = "calc"
                 PROVE  /\ iters <= calPasses[0] + NumThreads
                        /\ iters >= calPasses[0] + 1 \/ iters = LongBits
    BY DEF PredictionInput
  <2>2. InShift
    BY <1>1, <2>1, ConstantFacts DEF IInv, LockStep, Measuring, InSetup, InCalStart, InCalChase, InCalStop,
     InShift, InExpFirst, InExpStart, InExpChase, InExpStop, InRecord, InEnd,
     Everyone
  <2>3. 0 \in HaveShifted
    BY <2>1, ConstantFacts DEF HaveShifted
  <2>4. iters \in Nat /\ calPasses[0] \in Int
    BY <1>1, ConstantFacts DEF IInv, TypeOK
  <2>5. QED
    BY <2>2, <2>3, <2>4, HaveShiftedSize, ConstantFacts DEF InShift
<1>2. QED
  BY <1>1, LockStepInvariant, PTL

(* Whatever threads fail to start or to compile, no sample of a partial    *)
(* measurement is ever recorded.                                           *)
THEOREM NoPartialSample == Spec => []SamplesAreComplete
<1>1. IInv => SamplesAreComplete
  BY DEF IInv, SamplesAreComplete, SamplesInv, Measuring, InExpStart,
     InExpChase, InExpStop, InRecord, InEnd, Everyone
<1>2. QED
  BY <1>1, LockStepInvariant, PTL

(* The shared variables of the calibration never change under a thread     *)
(* that is reading them.                                                   *)
THEOREM SharedIsQuiet == Spec => QuietShared
<1> DEFINE Quiet ==
      /\ iters' # iters => \A t \in Threads : pc[t] \notin {"calChase", "spin"}
      /\ elapsed' # elapsed => \A t \in Threads : pc[t] # "calCond"
      /\ iterations' # iterations =>
           \A t \in Threads : pc[t] \notin {"calTest", "chase", "expSpin"}
<1>1. ASSUME IInv, Next PROVE Quiet
  <2>1. CASE Main \/ OpenBarrier \/ Terminated
    BY <2>1 DEF Main, StartThread, StartFails, JoinThread, JoinCrashes,
       PrintResults, OpenBarrier, Barrier, Terminated, vars, calVars
  <2>2. ASSUME NEW t \in Threads, Step(t) PROVE Quiet
    <3>1. iters' # iters => pc[t] \in {"calTest", "shiftWrite"}
      BY <2>2 DEF Step, Setup, Calibrate, Experiment, Alloc, LinkChains,
        Compile, CompileFails, SkipCalibration, BeginCalibration, CalCond,
        CalStart, CalChase, CalChaseOverflows, CalStop, ShiftRead, ShiftWrite,
        Calculate, ExpTest, StartTimer, Chase, ChaseOverflows, StopTimer,
        Record, FreeChains, CallNull, calVars, Goto
    <3>2. elapsed' # elapsed => pc[t] = "calStop"
      BY <2>2 DEF Step, Setup, Calibrate, Experiment, Alloc, LinkChains,
        Compile, CompileFails, SkipCalibration, BeginCalibration, CalCond,
        CalStart, CalChase, CalChaseOverflows, CalStop, ShiftRead, ShiftWrite,
        Calculate, ExpTest, StartTimer, Chase, ChaseOverflows, StopTimer,
        Record, FreeChains, CallNull, calVars, Goto
    <3>3. iterations' # iterations => pc[t] = "calc"
      BY <2>2 DEF Step, Setup, Calibrate, Experiment, Alloc, LinkChains,
        Compile, CompileFails, SkipCalibration, BeginCalibration, CalCond,
        CalStart, CalChase, CalChaseOverflows, CalStop, ShiftRead, ShiftWrite,
        Calculate, ExpTest, StartTimer, Chase, ChaseOverflows, StopTimer,
        Record, FreeChains, CallNull, calVars, Goto
    <3>4. QED
      BY <1>1, <3>1, <3>2, <3>3 DEF IInv, LockStep, Measuring, InSetup, InCalStart, InCalChase, InCalStop,
         InShift, InExpFirst, InExpStart, InExpChase, InExpStop, InRecord, InEnd,
         Everyone
  <2>3. QED
    BY <1>1, <2>1, <2>2 DEF Next
<1>2. IInv /\ [Next]_vars => [Quiet]_vars
  BY <1>1
<1>3. QED
  BY <1>2, LockStepInvariant, PTL DEF Spec, QuietShared
=============================================================================
