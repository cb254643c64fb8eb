------------------------- MODULE RunWindowsProofs --------------------------
(***************************************************************************)
(* Run::run() implements TimedWindows, for every number of threads and     *)
(* experiments.  The lock-step invariant of RunProofs says, at each step   *)
(* of one thread, where all the others are.                                *)
(***************************************************************************)
EXTENDS RunWindows, RunProofs

LEMMA InitWindows == Init => Windows!Init
BY ConstantFacts DEF Init, Windows!Init, Window, Busy, Taken

(* While no window is open only Taken is to be looked at.                  *)
LEMMA StaysClosed ==
  ASSUME Window = "closed", Window' = "closed", Taken' = Taken
  PROVE  UNCHANGED Windows!wvars
BY DEF Windows!wvars, Busy

(* The labels of a stretch determine the window.                           *)
LEMMA ClosedStretches ==
  ASSUME TypeOK
  PROVE  /\ InSetup \/ InShift \/ InExpFirst => Window = "closed" /\ Taken = e[0]
         /\ InRecord \/ InEnd => Window = "closed"
BY ConstantFacts DEF InSetup, InShift, InExpFirst, InRecord, InEnd, Everyone,
   Window, Taken

LEMMA MainWindows ==
  ASSUME IInv, Main PROVE UNCHANGED Windows!wvars
<1>1. CASE UNCHANGED <<pc, e>>
  BY <1>1 DEF Windows!wvars, Window, Busy, Taken
<1>2. CASE StartThread \/ StartFails
  <2>1. pc[cur] = "new" /\ cur \in Threads
    BY <1>2 DEF StartThread, StartFails, Goto, IInv, TypeOK
  <2>2. InSetup
    BY <2>1 DEF IInv, LockStep, Measuring, InCalStart, InCalChase, InCalStop,
       InShift, InExpFirst, InExpStart, InExpChase, InExpStop, InRecord,
       InEnd, Everyone
  <2>3. InSetup' /\ TypeOK'
    BY <2>2, MainSetup, MainType DEF IInv
  <2>4. e' = e
    BY <1>2 DEF StartThread, StartFails, expVars
  <2>5. Window = "closed" /\ Taken = e[0] /\ Window' = "closed" /\ Taken' = e[0]
    BY <2>2, <2>3, <2>4, ClosedStretches, ConstantFacts
    DEF IInv, InSetup, Everyone, Window, Taken
  <2>6. QED
    BY <2>5, StaysClosed
<1>3. QED
  BY <1>1, <1>2 DEF Main, JoinThread, JoinCrashes, PrintResults, expVars

(* The barrier moves every thread within the open window, or outside.      *)
LEMMA BarrierWindows ==
  ASSUME IInv, Barrier PROVE UNCHANGED Windows!wvars
<1> USE ConstantFacts, AfterBarrierValues
    DEF Barrier, BarrierLabels, Everyone, expVars
<1>1. \A t \in Threads : pc'[t] = AfterBarrier(pc[t])
  OBVIOUS
<1>2. Window' = Window
  BY <1>1 DEF Window
<1>3. Taken' = Taken
  BY <1>1 DEF Taken
<1>4. Busy' = Busy
  <2>1. \A t \in Threads :
          pc'[t] \in BeforeBar137 \cup BeforeBar176 <=>
            pc[t] \in BeforeBar137 \cup BeforeBar176 \cup {"bar124", "bar163"}
    BY <1>1 DEF BeforeBar137, BeforeBar176
  <2>2. Window # "closed" =>
          \A t \in Threads : pc[t] \notin {"bar124", "bar163"}
    BY DEF Window, IInv, LockStep, Measuring, InSetup, InCalStart, InCalChase,
       InCalStop, InShift, InExpFirst, InExpStart, InExpChase, InExpStop,
       InRecord, InEnd
  <2>3. QED
    BY <1>2, <2>1, <2>2 DEF Busy
<1>5. QED
  BY <1>2, <1>3, <1>4 DEF Windows!wvars

(* Calibration: one window in each round.                                  *)
LEMMA CalibrateWindows ==
  ASSUME IInv, NEW t \in Threads,
         CalStart(t) \/ CalChase(t) \/ CalChaseOverflows(t) \/ CalStop(t)
  PROVE  [Windows!Next]_(Windows!wvars)
<1> USE ConstantFacts DEF Goto, Everyone, Window, Busy, Taken, BeforeBar137,
    BeforeBar176, expVars
<1>0. TypeOK
  BY DEF IInv
<1>1. CASE CalStart(t)
  <2>1. InCalStart
    BY <1>1 DEF CalStart, IInv, LockStep, Measuring, InSetup, InCalChase,
       InCalStop, InShift, InExpFirst, InExpStart, InExpChase, InExpStop,
       InRecord, InEnd
  <2>2. CASE t = 0
    <3>1. Windows!Open("cal")
      BY <1>0, <1>1, <2>1, <2>2 DEF TypeOK, CalStart, InCalStart, Calibrating,
         Windows!Open
    <3>2. QED
      BY <3>1 DEF Windows!Next
  <2>3. CASE t # 0
    BY <1>0, <1>1, <2>1, <2>3 DEF TypeOK, CalStart, InCalStart, Windows!wvars
  <2>4. QED
    BY <2>2, <2>3
<1>2. CASE CalChase(t) \/ CalChaseOverflows(t)
  <2>1. InCalChase
    BY <1>2 DEF CalChase, CalChaseOverflows, IInv, LockStep, Measuring,
       InSetup, InCalStart, InCalStop, InShift, InExpFirst, InExpStart,
       InExpChase, InExpStop, InRecord, InEnd
  <2>2. CASE CalChase(t)
    <3>1. Windows!CompleteChase(t)
      BY <1>0, <2>1, <2>2 DEF TypeOK, CalChase, InCalChase,
         Windows!CompleteChase
    <3>2. QED
      BY <3>1 DEF Windows!Next
  <2>3. CASE CalChaseOverflows(t)
    BY <1>0, <2>1, <2>3 DEF TypeOK, CalChaseOverflows, InCalChase, Windows!wvars
  <2>4. QED
    BY <1>2, <2>2, <2>3
<1>3. CASE CalStop(t)
  <2>1. InCalStop
    BY <1>3 DEF CalStop, IInv, LockStep, Measuring, InSetup, InCalStart,
       InCalChase, InShift, InExpFirst, InExpStart, InExpChase, InExpStop,
       InRecord, InEnd
  <2>2. CASE t = 0
    <3>1. Windows!Close
      BY <1>0, <1>3, <2>1, <2>2 DEF TypeOK, CalStop, InCalStop, Windows!Close
    <3>2. QED
      BY <3>1 DEF Windows!Next
  <2>3. CASE t # 0
    BY <1>0, <1>3, <2>1, <2>3 DEF TypeOK, CalStop, InCalStop, Windows!wvars
  <2>4. QED
    BY <2>2, <2>3
<1>4. QED
  BY <1>1, <1>2, <1>3

(* Experiments: one window in each.                                        *)
LEMMA ExperimentWindows ==
  ASSUME IInv, NEW t \in Threads,
         StartTimer(t) \/ Chase(t) \/ ChaseOverflows(t) \/ StopTimer(t)
  PROVE  [Windows!Next]_(Windows!wvars)
<1> USE ConstantFacts DEF Goto, Everyone, Window, Busy, Taken, BeforeBar137,
    BeforeBar176, expVars
<1>0. TypeOK
  BY DEF IInv
<1>1. CASE StartTimer(t)
  <2>1. InExpStart
    BY <1>1 DEF StartTimer, IInv, LockStep, Measuring, InSetup, InCalStart,
       InCalChase, InCalStop, InShift, InExpFirst, InExpChase, InExpStop,
       InRecord, InEnd
  <2>2. CASE t = 0
    <3>1. Windows!Open("exp")
      BY <1>0, <1>1, <2>1, <2>2 DEF TypeOK, StartTimer, InExpStart,
         SameExperiment, Windows!Open
    <3>2. QED
      BY <3>1 DEF Windows!Next
  <2>3. CASE t # 0
    BY <1>0, <1>1, <2>1, <2>3 DEF TypeOK, StartTimer, InExpStart, Windows!wvars
  <2>4. QED
    BY <2>2, <2>3
<1>2. CASE Chase(t) \/ ChaseOverflows(t)
  <2>1. InExpChase
    BY <1>2 DEF Chase, ChaseOverflows, IInv, LockStep, Measuring, InSetup,
       InCalStart, InCalChase, InCalStop, InShift, InExpFirst, InExpStart,
       InExpStop, InRecord, InEnd
  <2>2. CASE Chase(t)
    <3>1. Windows!CompleteChase(t)
      BY <1>0, <2>1, <2>2 DEF TypeOK, Chase, InExpChase, Windows!CompleteChase
    <3>2. QED
      BY <3>1 DEF Windows!Next
  <2>3. CASE ChaseOverflows(t)
    BY <1>0, <2>1, <2>3 DEF TypeOK, ChaseOverflows, InExpChase, Windows!wvars
  <2>4. QED
    BY <1>2, <2>2, <2>3
<1>3. CASE StopTimer(t)
  <2>1. InExpStop
    BY <1>3 DEF StopTimer, IInv, LockStep, Measuring, InSetup, InCalStart,
       InCalChase, InCalStop, InShift, InExpFirst, InExpStart, InExpChase,
       InRecord, InEnd
  <2>2. CASE t = 0
    <3>1. Windows!Close
      BY <1>0, <1>3, <2>1, <2>2 DEF TypeOK, StopTimer, InExpStop, Windows!Close
    <3>2. QED
      BY <3>1 DEF Windows!Next
  <2>3. CASE t # 0
    BY <1>0, <1>3, <2>1, <2>3 DEF TypeOK, StopTimer, InExpStop, Windows!wvars
  <2>4. QED
    BY <2>2, <2>3
<1>4. QED
  BY <1>1, <1>2, <1>3

(* The other steps of a thread are taken between windows.                  *)
LEMMA OtherWindows ==
  ASSUME IInv, NEW t \in Threads, Step(t), pc' # pc,
         ~(CalStart(t) \/ CalChase(t) \/ CalChaseOverflows(t) \/ CalStop(t)),
         ~(StartTimer(t) \/ Chase(t) \/ ChaseOverflows(t) \/ StopTimer(t))
  PROVE  UNCHANGED Windows!wvars
<1>1. TypeOK /\ LockStep /\ TypeOK'
  BY ThreadType DEF IInv
<1>2. InSetup \/ InShift \/ InExpFirst \/ InRecord \/ InEnd
  BY <1>1 DEF Step, Setup, Calibrate, Experiment, Alloc, LinkChains, Compile,
     CompileFails, SkipCalibration, BeginCalibration, CalCond, ShiftRead,
     ShiftWrite, Calculate, ExpTest, Record, FreeChains, CallNull, Goto,
     LockStep, Measuring, InCalStart, InCalChase, InCalStop, InExpStart,
     InExpChase, InExpStop, Everyone
<1>3. Window = "closed" /\ Window' = "closed"
  BY <1>1, <1>2, ClosedStretches, SetupStep, ShiftStep, ExpFirstStep,
     RecordStep, EndStep, ConstantFacts
  DEF InSetup, InShift, InExpFirst, InRecord, InEnd, Everyone, Window
<1>4. Taken' = Taken
  <2>1. CASE Record(t)
    BY <1>1, <2>1, ConstantFacts DEF TypeOK, Record, Goto, Taken
  <2>2. CASE ~Record(t)
    <3>1. e' = e
      BY <2>2 DEF Step, Setup, Calibrate, Experiment, Alloc, LinkChains,
         Compile, CompileFails, SkipCalibration, BeginCalibration, CalCond,
         ShiftRead, ShiftWrite, Calculate, ExpTest, FreeChains, CallNull,
         expVars
    <3>2. pc'[0] \in {"bar182", "record"} <=> pc[0] \in {"bar182", "record"}
      BY <1>1, <2>2, ConstantFacts DEF Step, Setup, Calibrate, Experiment,
         Alloc, LinkChains, Compile, CompileFails, SkipCalibration,
         BeginCalibration, CalCond, ShiftRead, ShiftWrite, Calculate, ExpTest,
         FreeChains, CallNull, Goto, TypeOK
    <3>3. QED
      BY <3>1, <3>2 DEF Taken
  <2>3. QED
    BY <2>1, <2>2
<1>5. QED
  BY <1>3, <1>4, StaysClosed

LEMMA StepWindows ==
  IInv /\ [Next]_vars => [Windows!Next]_(Windows!wvars)
<1> SUFFICES ASSUME IInv, [Next]_vars PROVE [Windows!Next]_(Windows!wvars)
  OBVIOUS
<1>1. CASE UNCHANGED <<pc, e>>
  BY <1>1 DEF Windows!wvars, Window, Busy, Taken
<1>2. CASE Main
  BY <1>2, MainWindows
<1>3. CASE OpenBarrier
  BY <1>3, BarrierWindows DEF OpenBarrier
<1>4. ASSUME NEW t \in Threads, Step(t) PROVE [Windows!Next]_(Windows!wvars)
  <2>1. pc' # pc \/ UNCHANGED <<pc, e>>
    BY <1>4 DEF Step, Setup, Calibrate, Experiment, Alloc, LinkChains, Compile,
       CompileFails, SkipCalibration, BeginCalibration, CalCond, CalStart,
       CalChase, CalChaseOverflows, CalStop, ShiftRead, ShiftWrite, Calculate,
       ExpTest, StartTimer, Chase, ChaseOverflows, StopTimer, Record,
       FreeChains, CallNull, Goto, expVars, IInv, TypeOK
  <2>2. QED
    BY <1>1, <1>4, <2>1, CalibrateWindows, ExperimentWindows, OtherWindows
<1>5. QED
  BY <1>1, <1>2, <1>3, <1>4 DEF Next, Terminated, vars

(* Run::run() with its barriers implements the abstract windows: between   *)
(* two readings of the clock by thread 0 every thread chases exactly once, *)
(* and nobody chases at any other time.                                    *)
THEOREM RunImplementsWindows == Spec => ImplementsWindows
<1>1. QED
  BY InitWindows, StepWindows, LockStepInvariant, PTL
  DEF Spec, ImplementsWindows, Windows!Spec
=============================================================================
