--------------------------- MODULE ReportProofs ---------------------------
(***************************************************************************)
(* Proofs about the whole program: what Output::print says was measured is *)
(* what the threads did, for every number of threads and experiments, with *)
(* calibration or without, whichever threads fail and whatever the clock   *)
(* shows.                                                                  *)
(***************************************************************************)
EXTENDS Report, RunProofs, NumberFacts

(* A thread that has ended an experiment has made its iterations.          *)
WorkInv ==
  \A t \in Threads :
    pc[t] \in {"record", "bar194", "free", "done"}
        \/ (e[t] > 0 /\ pc[t] \in {"expTest", "bar163"})
      => passes[t] = iterations

(* A thread that has linked its chains has stored their length.            *)
OpsInv ==
  \A t \in Threads : pc[t] \notin {"new", "failed", "alloc", "link"} => ops = OpsPerChain

Over(t) == pc[t] \in {"done", "failed"}

(* main() has joined the threads before cur, and before it prints all.     *)
JoinInv ==
  /\ main = "join" => \A t \in Threads : t < cur => Over(t)
  /\ main \in {"print", "exit"} => \A t \in Threads : Over(t)

PrintInv == main = "exit" => printed = [ops |-> ops, seconds |-> seconds]

-----------------------------------------------------------------------------
LEMMA RunStep == [ReportNext]_reportVars => [Next]_vars
<1> SUFFICES ASSUME [ReportNext]_reportVars, ~Next PROVE UNCHANGED vars
  OBVIOUS
<1>1. CASE ReportNext
  BY <1>1, Zenon DEF ReportNext, MeasureResolution, RunThreads, WriteRows
<1>2. CASE UNCHANGED reportVars
  BY <1>2, Zenon DEF reportVars
<1> QED  BY <1>1, <1>2

(* The whole program runs its threads as Run describes: what is proved of  *)
(* them holds of it, whatever the clock's resolution and the output mode.  *)
THEOREM ReportImplementsRun == ReportSpec => Spec
<1>1. ReportInit => Init
  BY DEF ReportInit
<1> QED  BY <1>1, RunStep, PTL DEF ReportSpec, Spec

-----------------------------------------------------------------------------
(* What a step of a thread does, as far as the invariants above go.        *)
LEMMA StepEffect ==
  ASSUME TypeOK, NEW t \in Threads, Step(t)
  PROVE  /\ UNCHANGED <<main, cur, printed>>
         /\ \A u \in Threads : u # t => pc'[u] = pc[u] /\ e'[u] = e[u] /\ passes'[u] = passes[u]
         /\ ~Over(t)
  BY DEF Step, Setup, Calibrate, Experiment, Alloc, LinkChains, Compile,
      CompileFails, SkipCalibration, BeginCalibration, CalCond, CalStart,
      CalChase, CalChaseOverflows, CalStop, ShiftRead, ShiftWrite, Calculate,
      ExpTest, StartTimer, Chase, ChaseOverflows, StopTimer, Record,
      FreeChains, CallNull, mainVars, expVars, Goto, TypeOK, Over

(* The number of iterations is written only where nobody has used it.      *)
LEMMA IterationsStable ==
  ASSUME IInv, Next, iterations' # iterations
  PROVE  Everyone({"shiftRead", "shiftWrite", "calCond", "bar124", "calc", "bar157"})
<1>1. pc[0] = "calc"
  BY DEF Next, Main, StartThread, StartFails, JoinThread, JoinCrashes,
      PrintResults, OpenBarrier, Barrier, Terminated, vars, Step, Setup, Calibrate,
      Experiment, Alloc, LinkChains, Compile,
      CompileFails, SkipCalibration, BeginCalibration, CalCond, CalStart,
      CalChase, CalChaseOverflows, CalStop, ShiftRead, ShiftWrite, Calculate,
      ExpTest, StartTimer, Chase, ChaseOverflows, StopTimer, Record,
      FreeChains, CallNull, calVars, Goto
<1> QED
  BY <1>1, ConstantFacts DEF IInv, LockStep, Measuring, InSetup, InCalStart, InCalChase,
     InCalStop, InShift, InExpFirst, InExpStart, InExpChase, InExpStop, InRecord, InEnd,
     Everyone

(* Before the clock is stopped every thread has made its passes.           *)
LEMMA StoppedWork ==
  ASSUME IInv, NEW t \in Threads, pc[t] \in {"stop", "bar182"}
  PROVE  passes[t] = iterations
  BY DEF IInv, LockStep, Measuring, InSetup, InCalStart, InCalChase,
     InCalStop, InShift, InExpFirst, InExpStart, InExpChase, InExpStop, InRecord, InEnd,
     Everyone

(* A thread gets to where WorkInv speaks of it only from where WorkInv did *)
(* or from the experiment's last barrier.                                  *)
LEMMA WorkStep ==
  ASSUME IInv, WorkInv, Next PROVE WorkInv'
<1> DEFINE Worked(t) == \/ pc[t] \in {"record", "bar194", "free", "done"}
                        \/ e[t] > 0 /\ pc[t] \in {"expTest", "bar163"}
<1>0. TypeOK /\ Experiments \in Nat /\ Experiments >= 1
  BY ConstantFacts DEF IInv
<1> SUFFICES ASSUME NEW u \in Threads, Worked(u)' PROVE passes'[u] = iterations'
  BY DEF WorkInv
<1>1. CASE OpenBarrier
  <2>1. /\ pc[u] \in BarrierLabels /\ pc'[u] = AfterBarrier(pc[u])
        /\ UNCHANGED <<e, passes, iterations>>
    BY <1>1 DEF OpenBarrier, Barrier, calVars, expVars
  <2>2. pc[u] \in {"bar182", "bar194"} \/ (pc[u] = "bar157" /\ e[u] > 0)
    BY <2>1, AfterBarrierValues DEF BarrierLabels
  <2>3. pc[u] # "bar157" \/ e[u] = 0
    BY DEF IInv, LockStep, Measuring, InSetup, InCalStart, InCalChase,
       InCalStop, InShift, InExpFirst, InExpStart, InExpChase, InExpStop, InRecord, InEnd,
       Everyone, Calibrating
  <2>4. pc[u] \in {"bar182", "bar194"}
    BY <2>2, <2>3
  <2> QED  BY <2>1, <2>4, StoppedWork DEF WorkInv
<1>2. CASE Main
  <2>1. /\ pc'[u] = pc[u] \/ pc'[u] \in {"alloc", "failed"}
        /\ UNCHANGED <<e, passes, iterations>>
    BY <1>0, <1>2 DEF Main, StartThread, StartFails, JoinThread, JoinCrashes, PrintResults,
       calVars, expVars, Goto, TypeOK
  <2> QED  BY <2>1 DEF WorkInv
<1>3. ASSUME NEW t \in Threads, Step(t) PROVE passes'[u] = iterations'
  <2>1. CASE u # t
    <3>1. Worked(u) /\ passes'[u] = passes[u]
      BY <1>0, <1>3, <2>1, StepEffect
    <3>2. iterations' = iterations
      BY <3>1, IterationsStable DEF Everyone
    <3> QED  BY <3>1, <3>2 DEF WorkInv
  <2>2. CASE u = t
    <3>1. CASE ExpTest(t)
      <4>1. /\ pc[t] = "expTest" /\ pc'[t] \in {"bar163", "bar194"}
            /\ pc'[t] = "bar194" => ~(e[t] < Experiments)
            /\ UNCHANGED <<e, passes, iterations>>
        BY <1>0, <3>1 DEF ExpTest, Goto, calVars, expVars, TypeOK
      <4>2. e[t] > 0
        BY <1>0, <2>2, <4>1 DEF TypeOK
      <4> QED  BY <2>2, <4>1, <4>2 DEF WorkInv
    <3>2. CASE Record(t)
      <4>1. pc[t] = "record" /\ UNCHANGED <<passes, iterations>>
        BY <3>2 DEF Record, Goto, calVars
      <4> QED  BY <2>2, <4>1 DEF WorkInv
    <3>3. CASE FreeChains(t)
      <4>1. pc[t] = "free" /\ UNCHANGED <<passes, iterations>>
        BY <3>3 DEF FreeChains, Goto, calVars, expVars
      <4> QED  BY <2>2, <4>1 DEF WorkInv
    <3>4. CASE SkipCalibration(t)
      <4>1. pc[t] = "calTest" /\ pc'[t] = "expTest" /\ e' = e
        BY <1>0, <3>4 DEF SkipCalibration, Goto, expVars, TypeOK
      <4>2. e[t] = 0
        BY <4>1 DEF IInv, LockStep, Measuring, InSetup, InCalStart, InCalChase,
           InCalStop, InShift, InExpFirst, InExpStart, InExpChase, InExpStop, InRecord,
           InEnd, Everyone
      <4> QED  BY <2>2, <4>1, <4>2
    <3>5. CASE CallNull(t)
      BY <2>2, <3>5 DEF CallNull, WorkInv, calVars, expVars
    <3>6. CASE ~(ExpTest(t) \/ Record(t) \/ FreeChains(t) \/ SkipCalibration(t) \/ CallNull(t))
      <4>1. pc'[t] \notin {"record", "bar194", "free", "done", "expTest", "bar163"}
        BY <1>0, <1>3, <3>6 DEF Step, Setup, Calibrate, Experiment, Alloc, LinkChains, Compile,
           CompileFails, BeginCalibration, CalCond, CalStart,
           CalChase, CalChaseOverflows, CalStop, ShiftRead, ShiftWrite, Calculate,
           StartTimer, Chase, ChaseOverflows, StopTimer, Goto, TypeOK
      <4> QED  BY <2>2, <4>1
    <3> QED  BY <3>1, <3>2, <3>3, <3>4, <3>5, <3>6
  <2> QED  BY <2>1, <2>2
<1>4. CASE Terminated
  BY <1>4 DEF Terminated, vars, WorkInv
<1> QED  BY <1>1, <1>2, <1>3, <1>4 DEF Next

LEMMA OpsStep ==
  ASSUME IInv, OpsInv, Next PROVE OpsInv'
<1>0. TypeOK
  BY DEF IInv
<1> SUFFICES ASSUME NEW u \in Threads, pc'[u] \notin {"new", "failed", "alloc", "link"}
             PROVE  ops' = OpsPerChain
  BY DEF OpsInv
<1>1. CASE OpenBarrier
  BY <1>1 DEF OpenBarrier, Barrier, BarrierLabels, setupVars, OpsInv
<1>2. CASE Main
  BY <1>0, <1>2 DEF Main, StartThread, StartFails, JoinThread, JoinCrashes, PrintResults,
       setupVars, Goto, TypeOK, OpsInv
<1>3. ASSUME NEW t \in Threads, Step(t) PROVE ops' = OpsPerChain
  <2>1. ops' = ops \/ ops' = OpsPerChain
    BY <1>3 DEF Step, Setup, Calibrate, Experiment, Alloc, LinkChains, Compile,
      CompileFails, SkipCalibration, BeginCalibration, CalCond, CalStart,
      CalChase, CalChaseOverflows, CalStop, ShiftRead, ShiftWrite, Calculate,
      ExpTest, StartTimer, Chase, ChaseOverflows, StopTimer, Record,
      FreeChains, CallNull, setupVars
  <2>2. pc[u] \notin {"new", "failed", "alloc", "link"} \/ ops' = OpsPerChain
    BY <1>0, <1>3 DEF Step, Setup, Calibrate, Experiment, Alloc, LinkChains, Compile,
      CompileFails, SkipCalibration, BeginCalibration, CalCond, CalStart,
      CalChase, CalChaseOverflows, CalStop, ShiftRead, ShiftWrite, Calculate,
      ExpTest, StartTimer, Chase, ChaseOverflows, StopTimer, Record,
      FreeChains, CallNull, Goto, TypeOK
  <2> QED  BY <2>1, <2>2 DEF OpsInv
<1>4. CASE Terminated
  BY <1>4 DEF Terminated, vars, OpsInv
<1> QED  BY <1>1, <1>2, <1>3, <1>4 DEF Next

(* Once main() has returned nothing moves any more.                        *)
LEMMA ExitStays ==
  ASSUME TypeOK, JoinInv, main = "exit", [Next]_vars
  PROVE  UNCHANGED vars
<1>1. ~Main
  BY DEF Main, StartThread, StartFails, JoinThread, JoinCrashes, PrintResults, Advance
<1>2. ~OpenBarrier
  BY ConstantFacts DEF OpenBarrier, Barrier, BarrierLabels, JoinInv, Over
<1>3. ASSUME NEW t \in Threads, Step(t) PROVE FALSE
  BY <1>3, StepEffect DEF JoinInv
<1> QED  BY <1>1, <1>2, <1>3 DEF Next, Terminated

LEMMA JoinStep ==
  ASSUME TypeOK, JoinInv, PrintInv, Next PROVE JoinInv' /\ PrintInv'
<1>1. CASE main = "exit"
  BY <1>1, ExitStays DEF vars, JoinInv, PrintInv, Over
<1>2. CASE OpenBarrier
  <2>1. pc[0] \in BarrierLabels /\ UNCHANGED <<main, cur>>
        /\ \A t \in Threads : pc[t] \in BarrierLabels
    BY <1>2, ConstantFacts DEF OpenBarrier, Barrier, mainVars
  <2>2. main # "exit" /\ main # "print" /\ \A t \in Threads : ~Over(t)
    BY <2>1, ConstantFacts DEF JoinInv, Over, BarrierLabels
  <2> QED  BY <2>1, <2>2 DEF JoinInv, PrintInv
<1>3. CASE ~OpenBarrier /\ main # "exit" /\ \E t \in Threads : Step(t)
  <2>1. PICK t \in Threads : Step(t)
    BY <1>3
  <2>2. UNCHANGED <<main, cur>> /\ (\A u \in Threads : Over(u) => Over(u)')
    BY <2>1, StepEffect DEF Over
  <2> QED  BY <1>3, <2>2 DEF JoinInv, PrintInv
<1>4. CASE Main
  <2>1. CASE StartThread \/ StartFails
    BY <2>1, ConstantFacts DEF StartThread, StartFails, Advance, JoinInv, PrintInv, Threads
  <2>2. CASE JoinThread
    <3>1. /\ main = "join" /\ Over(cur) /\ UNCHANGED pc
          /\ IF cur + 1 = NumThreads THEN main' = "print"
             ELSE main' = "join" /\ cur' = cur + 1
      BY <2>2 DEF JoinThread, Advance, Over
    <3>2. cur \in Threads /\ NumThreads \in Nat
      BY ConstantFacts DEF TypeOK
    <3>3. \A t \in Threads : t < cur + 1 => Over(t)
      BY <3>1, <3>2 DEF JoinInv, Threads
    <3> QED  BY <3>1, <3>2, <3>3 DEF JoinInv, PrintInv, Over, Threads
  <2>3. CASE JoinCrashes
    BY <2>3 DEF JoinCrashes, mainVars, JoinInv, PrintInv, Over
  <2>4. CASE PrintResults
    BY <2>4 DEF PrintResults, setupVars, expVars, JoinInv, PrintInv, Over
  <2> QED  BY <1>4, <2>1, <2>2, <2>3, <2>4 DEF Main
<1>5. CASE Terminated
  BY <1>5 DEF Terminated, vars, JoinInv, PrintInv, Over
<1> QED  BY <1>1, <1>2, <1>3, <1>4, <1>5 DEF Next

-----------------------------------------------------------------------------
(* Rows are written when main() is about to return.                        *)
OutInv == IF mode = "unread" THEN rows = << >> ELSE main = "exit"

AllInv == IInv /\ WorkInv /\ OpsInv /\ JoinInv /\ PrintInv

LEMMA AllInvStep == AllInv /\ [Next]_vars => AllInv'
<1> SUFFICES ASSUME AllInv, [Next]_vars PROVE AllInv'
  OBVIOUS
<1>1. IInv'
  BY StepIInv DEF AllInv
<1>2. CASE Next
  BY <1>1, <1>2, WorkStep, OpsStep, JoinStep DEF AllInv, IInv
<1>3. CASE UNCHANGED vars
  BY <1>1, <1>3 DEF vars, AllInv, WorkInv, OpsInv, JoinInv, PrintInv, Over
<1> QED  BY <1>2, <1>3

(* If there is a sample, every thread has gone through to the end.         *)
LEMMA SampleWork ==
  ASSUME AllInv, main = "exit", printed.seconds # << >>, NEW t \in Threads
  PROVE  passes[t] = iterations /\ printed.ops = OpsPerChain
<1>1. printed = [ops |-> ops, seconds |-> seconds] /\ Over(t)
  BY DEF AllInv, PrintInv, JoinInv
<1>2. Measuring
  BY <1>1 DEF AllInv, IInv, SamplesInv
<1>3. pc[t] = "done"
  BY <1>1, <1>2 DEF Over, Measuring, InExpStart, InExpChase, InExpStop, InRecord, InEnd, Everyone
<1> QED  BY <1>1, <1>3 DEF AllInv, WorkInv, OpsInv

LEMMA PrintStep ==
  ASSUME AllInv, WriteRows PROVE RowsMatchWork'
<1>0. main = "exit" /\ UNCHANGED vars /\ printed.seconds \in Seq(Int)
  BY DEF WriteRows, AllInv, IInv, TypeOK
<1> SUFFICES ASSUME NEW i \in DOMAIN rows', NEW t \in Threads, rows'[i].secs[2] > 0
             PROVE  /\ rows'[i].iterations = passes[t]
                    /\ rows'[i].hops = OpsPerChain * passes[t]
                    /\ rows'[i].bytes = OpsPerChain * passes[t] * NumThreads * ChainsPerThread
                                          * BytesPerLine * LineNum
  BY <1>0 DEF RowsMatchWork, vars
<1>1. \E secs : rows'[i] = Row(secs) /\ printed.seconds # << >>
  <2>1. CASE rows' = Csv
    BY <1>0, <2>1 DEF Csv
  <2>2. CASE rows' = Table
    <3>1. i = 1 /\ rows'[i] = Row(Average)
      BY <2>2 DEF Table
    <3>2. Row(Average).secs = Average
      BY DEF Row, RowWith
    <3>3. Average[2] = Len(printed.seconds)
      BY DEF Average
    <3> QED  BY <1>0, <3>1, <3>2, <3>3
  <2>3. CASE rows' = << >>
    BY <2>3
  <2> QED  BY <2>1, <2>2, <2>3 DEF WriteRows
<1>2. PICK secs : rows'[i] = Row(secs)
  BY <1>1
<1>3. passes[t] = iterations /\ printed.ops = OpsPerChain
  BY <1>0, <1>1, SampleWork
<1>4. /\ OpsPerChain \in Nat /\ NumThreads \in Nat /\ ChainsPerThread \in Nat
      /\ BytesPerLine \in Nat /\ LineNum \in Nat /\ iterations \in Nat
  BY ConstantFacts, SizesAssumption DEF AllInv, IInv, TypeOK
<1>5. OpsPerChain * iterations * ChainsPerThread * NumThreads * BytesPerLine * LineNum
        = OpsPerChain * iterations * NumThreads * ChainsPerThread * BytesPerLine * LineNum
  BY <1>4
<1> QED  BY <1>2, <1>3, <1>5 DEF Row, RowWith

(* Every row that is printed is about work that was done: all threads made *)
(* the iterations it names, and latency and bandwidth are computed from    *)
(* the hops and bytes of these passes.                                     *)
THEOREM RowsAreTrue == ReportSpec => []RowsMatchWork
<1> DEFINE Inv == AllInv /\ OutInv /\ RowsMatchWork
<1>1. ReportInit => Inv
  <2> SUFFICES ASSUME ReportInit PROVE Inv
    OBVIOUS
  <2>1. AllInv
    BY InitIInv DEF ReportInit, Init, AllInv, WorkInv, OpsInv, JoinInv, PrintInv
  <2> QED  BY <2>1 DEF ReportInit, OutInv, RowsMatchWork
<1>2. ASSUME Inv, [ReportNext]_reportVars PROVE Inv'
  <2>1. AllInv'
    BY <1>2, RunStep, AllInvStep
  <2>2. CASE WriteRows
    <3>1. OutInv'
      BY <2>2 DEF WriteRows, OutInv, vars
    <3> QED  BY <1>2, <2>1, <2>2, <3>1, PrintStep
  <2>3. CASE UNCHANGED outVars
    <3>1. mode' = mode /\ rows' = rows
      BY <2>3 DEF outVars
    <3>2. CASE mode = "unread"
      BY <1>2, <2>1, <3>1, <3>2 DEF OutInv, RowsMatchWork
    <3>3. CASE mode # "unread"
      <4>1. UNCHANGED vars
        BY <1>2, <3>3, RunStep, ExitStays DEF OutInv, AllInv, IInv
      <4> QED  BY <1>2, <2>1, <3>1, <4>1 DEF OutInv, RowsMatchWork, vars
    <3> QED  BY <3>2, <3>3
  <2>4. WriteRows \/ UNCHANGED outVars
    BY <1>2, Zenon DEF ReportNext, MeasureResolution, RunThreads, reportVars
  <2> QED  BY <2>2, <2>3, <2>4
<1>3. Inv => RowsMatchWork
  OBVIOUS
<1> QED  BY <1>1, <1>2, <1>3, PTL DEF ReportSpec

-----------------------------------------------------------------------------
(* If one pass measures a positive time, any number of passes does.        *)
LEMMA MeasuredPositive ==
  ASSUME Measurable, NEW n \in Nat \ {0}, NEW d \in Jitter
  PROVE  PassTime * n + d > 0
<1>1. PassTime \in Nat /\ d \in Int /\ PassTime + d > 0
  BY ConstantFacts DEF Measurable
<1>2. \A a \in Nat : a * n >= a /\ a * n \in Nat
  OBVIOUS
<1> QED  BY <1>1, <1>2

(* Thread 0 has recorded every experiment it has ended.                    *)
CountInv ==
  /\ Len(seconds) = e[0]
  /\ pc[0] \in {"bar182", "record"} => delta > 0
  /\ pc[0] \in {"bar194", "free", "done"} => e[0] = Experiments

LEMMA CountStep ==
  ASSUME Measurable, IInv, CountInv, Next PROVE CountInv'
<1>0. /\ TypeOK /\ 0 \in Threads /\ Experiments \in Nat
      /\ seconds \in Seq(Int) /\ e[0] \in 0 .. Experiments /\ delta \in Int
  BY ConstantFacts DEF IInv, TypeOK
<1>1. CASE OpenBarrier
  <2>1. /\ pc[0] \in BarrierLabels /\ pc'[0] = AfterBarrier(pc[0])
        /\ UNCHANGED <<e, seconds, delta>>
    BY <1>0, <1>1 DEF OpenBarrier, Barrier, expVars
  <2> QED  BY <2>1, AfterBarrierValues DEF BarrierLabels, CountInv
<1>2. CASE Main
  <2>1. /\ pc'[0] = pc[0] \/ pc'[0] \in {"alloc", "failed"}
        /\ UNCHANGED <<e, seconds, delta>>
    BY <1>0, <1>2 DEF Main, StartThread, StartFails, JoinThread, JoinCrashes, PrintResults,
       expVars, Goto, TypeOK
  <2> QED  BY <2>1 DEF CountInv
<1>3. ASSUME NEW t \in Threads, Step(t) PROVE CountInv'
  <2>1. CASE Record(t)
    <3>1. CASE t = 0
      <4>1. pc[0] = "record" /\ pc'[0] = "expTest" /\ e'[0] = e[0] + 1 /\ delta > 0
        BY <1>0, <2>1, <3>1 DEF Record, Goto, TypeOK, CountInv
      <4>2. seconds' = Append(seconds, delta)
        BY <1>0, <2>1, <3>1, <4>1 DEF Record
      <4>3. Len(seconds') = Len(seconds) + 1
        BY <1>0, <4>2
      <4> QED  BY <4>1, <4>3 DEF CountInv
    <3>2. CASE t # 0
      <4>1. pc'[0] = pc[0] /\ e'[0] = e[0] /\ seconds' = seconds /\ delta' = delta
        BY <1>0, <2>1, <3>2 DEF Record, Goto, TypeOK
      <4> QED  BY <4>1 DEF CountInv
    <3> QED  BY <3>1, <3>2
  <2>2. CASE StopTimer(t)
    <3>1. e' = e /\ seconds' = seconds
      BY <2>2 DEF StopTimer
    <3>2. CASE t = 0
      <4>1. pc[0] = "stop" /\ pc'[0] = "bar182"
        BY <1>0, <2>2, <3>2 DEF StopTimer, Goto, TypeOK
      <4>2. InExpStop
        BY <1>0, <4>1 DEF IInv, LockStep, Measuring, InSetup, InCalStart, InCalChase,
           InCalStop, InShift, InExpFirst, InExpStart, InExpChase, InExpStop, InRecord, InEnd,
           Everyone
      <4>3. passes[0] \in Nat \ {0}
        BY <1>0, <4>2 DEF InExpStop, SameExperiment, TypeOK
      <4>4. PICK d \in Jitter : delta' = PassTime * passes[0] + d
        BY <2>2, <3>2 DEF StopTimer
      <4>5. delta' > 0
        BY <4>3, <4>4, MeasuredPositive
      <4> QED  BY <3>1, <4>1, <4>5 DEF CountInv
    <3>3. CASE t # 0
      <4>1. pc'[0] = pc[0] /\ delta' = delta
        BY <1>0, <2>2, <3>3 DEF StopTimer, Goto, TypeOK
      <4> QED  BY <3>1, <4>1 DEF CountInv
    <3> QED  BY <3>2, <3>3
  <2>3. CASE ExpTest(t)
    <3>1. /\ UNCHANGED <<e, seconds, delta>>
          /\ pc'[0] = pc[0] \/ pc'[0] = "bar163" \/ (pc'[0] = "bar194" /\ ~(e[0] < Experiments))
      BY <1>0, <2>3 DEF ExpTest, Goto, TypeOK, expVars
    <3> QED  BY <1>0, <3>1 DEF CountInv
  <2>4. CASE FreeChains(t)
    <3>1. /\ UNCHANGED <<e, seconds, delta>>
          /\ pc'[0] = pc[0] \/ (pc[0] = "free" /\ pc'[0] = "done")
      BY <1>0, <2>4 DEF FreeChains, Goto, TypeOK, expVars
    <3> QED  BY <3>1 DEF CountInv
  <2>5. CASE ~(Record(t) \/ StopTimer(t) \/ ExpTest(t) \/ FreeChains(t))
    <3>1. /\ UNCHANGED <<e, seconds, delta>>
          /\ \/ pc'[0] = pc[0]
             \/ pc'[0] \notin {"bar182", "record", "bar194", "free", "done"}
      BY <1>0, <1>3, <2>5 DEF Step, Setup, Calibrate, Experiment, Alloc, LinkChains, Compile,
         CompileFails, SkipCalibration, BeginCalibration, CalCond, CalStart,
         CalChase, CalChaseOverflows, CalStop, ShiftRead, ShiftWrite, Calculate,
         StartTimer, Chase, ChaseOverflows, CallNull, Goto, TypeOK, expVars
    <3> QED  BY <3>1 DEF CountInv
  <2> QED  BY <2>1, <2>2, <2>3, <2>4, <2>5
<1>4. CASE Terminated
  BY <1>4 DEF Terminated, vars, CountInv
<1> QED  BY <1>1, <1>2, <1>3, <1>4 DEF Next

(* If every chase measures a positive time, main() prints one sample for   *)
(* each experiment and the length of a chain, however the threads          *)
(* interleave.                                                             *)
THEOREM ResultsAreComplete ==
  ASSUME Measurable PROVE Spec => []ResultsComplete
<1> DEFINE Inv == AllInv /\ CountInv
<1>1. Init => Inv
  BY InitIInv, ConstantFacts
     DEF Init, AllInv, WorkInv, OpsInv, JoinInv, PrintInv, CountInv
<1>2. Inv /\ [Next]_vars => Inv'
  <2> SUFFICES ASSUME Inv, [Next]_vars PROVE Inv'
    OBVIOUS
  <2>1. CASE Next
    BY <2>1, AllInvStep, CountStep DEF AllInv
  <2>2. CASE UNCHANGED vars
    BY <2>2, AllInvStep DEF CountInv, vars
  <2> QED  BY <2>1, <2>2
<1>3. Inv => ResultsComplete
  <2> SUFFICES ASSUME Inv, main = "exit", \A t \in Threads : pc[t] # "failed"
               PROVE  /\ Len(printed.seconds) = Experiments
                      /\ printed.seconds = seconds
                      /\ printed.ops = OpsPerChain
    BY DEF ResultsComplete
  <2>1. 0 \in Threads /\ pc[0] = "done"
    BY ConstantFacts DEF AllInv, JoinInv, Over
  <2> QED  BY <2>1 DEF AllInv, PrintInv, OpsInv, CountInv
<1> QED  BY <1>1, <1>2, <1>3, PTL DEF Spec

-----------------------------------------------------------------------------
(* What is printed, sample by sample                                       *)

(* The loop of Output::print computes a sum, and the average that is made  *)
(* of it is neither below nor above all of the samples.                    *)
LEMMA TotalFacts ==
  ASSUME NEW samples \in Seq(Int), Len(samples) > 0
  PROVE  /\ Total(samples) \in Int
         /\ \E i \in 1 .. Len(samples) : samples[i] * Len(samples) <= Total(samples)
         /\ \E i \in 1 .. Len(samples) : samples[i] * Len(samples) >= Total(samples)
<1> DEFINE m == Len(samples)
           sum == CHOOSE sum : sum = [i \in 0 .. m |->
                                        IF i = 0 THEN 0 ELSE sum[i - 1] + samples[i]]
<1>1. m \in Nat \ {0} /\ samples \in [1 .. m -> Int]
  OBVIOUS
<1>2. Total(samples) = sum[m]
  BY Zenon DEF Total
<1> HIDE DEF m
<1>3. \E s : RunningSum(s, m, samples)
  BY <1>1, SumExists
<1>4. RunningSum(sum, m, samples)
  BY <1>3, Zenon DEF RunningSum
<1> HIDE DEF sum
<1>5. sum[m] \in Int
  BY <1>1, <1>4, SumTyped
<1>6. \E i \in 1 .. m : samples[i] * m <= sum[m]
  BY <1>1, <1>4, SomeNotAbove
<1>7. \E i \in 1 .. m : samples[i] * m >= sum[m]
  BY <1>1, <1>4, SomeNotBelow
<1> QED  BY <1>2, <1>5, <1>6, <1>7, Zenon DEF m

(* Only positive intervals are recorded, and only a thread that may fail   *)
(* to start has failed.                                                    *)
SampleInv ==
  /\ \A i \in 1 .. Len(seconds) : seconds[i] > 0
  /\ \A t \in Threads : pc[t] = "failed" => t \in MayNotStart

LEMMA SampleStep ==
  ASSUME IInv, SampleInv, Next PROVE SampleInv'
<1>0. TypeOK /\ seconds \in Seq(Int) /\ delta \in Int
  BY DEF IInv, TypeOK
<1>1. seconds' = seconds \/ (0 < delta /\ seconds' = Append(seconds, delta))
  BY DEF Next, Main, StartThread, StartFails, JoinThread, JoinCrashes,
      PrintResults, OpenBarrier, Barrier, Terminated, vars, Step, Setup, Calibrate,
      Experiment, Alloc, LinkChains, Compile,
      CompileFails, SkipCalibration, BeginCalibration, CalCond, CalStart,
      CalChase, CalChaseOverflows, CalStop, ShiftRead, ShiftWrite, Calculate,
      ExpTest, StartTimer, Chase, ChaseOverflows, StopTimer, Record,
      FreeChains, CallNull, expVars, Goto
<1>2. \A i \in 1 .. Len(seconds') : seconds'[i] > 0
  <2>1. CASE seconds' = seconds
    BY <2>1 DEF SampleInv
  <2>2. CASE 0 < delta /\ seconds' = Append(seconds, delta)
    BY <1>0, <2>2 DEF SampleInv
  <2> QED  BY <1>1, <2>1, <2>2
<1>3. ASSUME NEW u \in Threads, pc'[u] = "failed" PROVE u \in MayNotStart
  <2>1. CASE Main
    BY <1>0, <1>3, <2>1 DEF Main, StartThread, StartFails, JoinThread, JoinCrashes, PrintResults,
       Goto, TypeOK, SampleInv
  <2>2. CASE OpenBarrier
    <3>1. pc[u] \in BarrierLabels /\ pc'[u] = AfterBarrier(pc[u])
      BY <2>2 DEF OpenBarrier, Barrier
    <3> QED  BY <1>3, <3>1, AfterBarrierValues DEF BarrierLabels
  <2>3. ASSUME NEW t \in Threads, Step(t) PROVE pc[u] = "failed"
    BY <1>0, <1>3, <2>3 DEF Step, Setup, Calibrate, Experiment, Alloc, LinkChains, Compile,
      CompileFails, SkipCalibration, BeginCalibration, CalCond, CalStart,
      CalChase, CalChaseOverflows, CalStop, ShiftRead, ShiftWrite, Calculate,
      ExpTest, StartTimer, Chase, ChaseOverflows, StopTimer, Record,
      FreeChains, CallNull, Goto, TypeOK
  <2>4. CASE Terminated
    BY <1>3, <2>4 DEF Terminated, vars, SampleInv
  <2> QED  BY <2>1, <2>2, <2>3, <2>4 DEF Next, SampleInv
<1> QED  BY <1>2, <1>3 DEF SampleInv

(* If any thread is sure to start, all have ended their work when main()   *)
(* prints: the others could not have passed a barrier without them.        *)
LEMMA PrintedFacts ==
  ASSUME AllInv, CountInv, SampleInv, MayNotStart # Threads, main = "exit"
  PROVE  /\ printed.seconds = seconds /\ printed.ops = OpsPerChain
         /\ seconds \in Seq(Int) /\ Len(seconds) = Experiments
         /\ \A i \in 1 .. Experiments : seconds[i] \in Int /\ seconds[i] > 0
         /\ iterations \in Nat /\ iterations >= 1
<1>1. PICK u \in Threads : u \notin MayNotStart
  BY CountsAssumption
<1>2. pc[u] = "done"
  BY <1>1 DEF AllInv, JoinInv, Over, SampleInv
<1>3. InEnd
  BY <1>2 DEF AllInv, IInv, LockStep, Measuring, InSetup, InCalStart, InCalChase,
     InCalStop, InShift, InExpFirst, InExpStart, InExpChase, InExpStop, InRecord, InEnd,
     Everyone
<1>4. 0 \in Threads /\ pc[0] \in {"free", "done"} /\ iterations >= 1
  BY <1>3, ConstantFacts DEF InEnd, Everyone
<1>5. seconds \in Seq(Int) /\ iterations \in Nat
  BY DEF AllInv, IInv, TypeOK
<1>6. printed = [ops |-> ops, seconds |-> seconds] /\ ops = OpsPerChain
  BY <1>4 DEF AllInv, PrintInv, OpsInv
<1>7. Len(seconds) = Experiments
  BY <1>4 DEF CountInv
<1> QED  BY <1>4, <1>5, <1>6, <1>7 DEF SampleInv

-----------------------------------------------------------------------------
(* The clock and the report together                                       *)

(* No single wait for the clock to change takes 10^9 ticks.                *)
ClockIsRead == \A d \in ClockSteps : MaxSince + d <= Far

(* The resolution is measured before the threads start.                    *)
TimerInv ==
  /\ since \in Nat /\ since < Far
  /\ least \in Nat /\ 1 <= least /\ least <= Far
  /\ timing = "done" => least < Far
  /\ timing # "done" => main = "start"

LEMMA TimerStep ==
  ASSUME ClockIsRead, TimerInv, [ReportNext]_reportVars PROVE TimerInv'
<1>0. Far \in Int /\ 1 <= Far
  BY DEF Far, TimerInv
<1>1. CASE ClockAdvances /\ UNCHANGED <<vars, outVars>>
  <2>1. PICK d \in ClockSteps : since' = since + d
    BY <1>1 DEF ClockAdvances
  <2>2. d \in Nat /\ MaxSince \in Nat /\ MaxSince + d <= Far
    BY ClockAssumption DEF ClockIsRead
  <2>3. /\ timing # "done" /\ since < MaxSince /\ UNCHANGED <<timing, least, main>>
    BY <1>1 DEF ClockAdvances, vars
  <2> QED  BY <1>0, <2>1, <2>2, <2>3 DEF TimerInv
<1>2. CASE Read /\ UNCHANGED <<vars, outVars>>
  <2>1. CASE FirstChange
    BY <1>0, <1>2, <2>1 DEF FirstChange, vars, TimerInv
  <2>2. CASE SecondChange
    <3>1. /\ since # 0 /\ timing = "second" /\ since' = 0 /\ UNCHANGED main
          /\ least' = IF since < least THEN since ELSE least
      BY <1>2, <2>2 DEF SecondChange, Measure, vars
    <3> QED  BY <1>0, <3>1 DEF TimerInv
  <2> QED  BY <1>2, <2>1, <2>2 DEF Read
<1>3. CASE UNCHANGED timerVars /\ (timing = "done" \/ UNCHANGED vars)
  BY <1>3 DEF timerVars, vars, TimerInv
<1> QED
  BY <1>1, <1>2, <1>3, Zenon
     DEF ReportNext, MeasureResolution, TimerNext, RunThreads, WriteRows, reportVars

WholeInv == AllInv /\ CountInv /\ SampleInv /\ OutInv

LEMMA WholeInit == ReportInit => WholeInv
<1> SUFFICES ASSUME ReportInit PROVE WholeInv
  OBVIOUS
<1>1. AllInv
  BY InitIInv DEF ReportInit, Init, AllInv, WorkInv, OpsInv, JoinInv, PrintInv
<1>2. CountInv /\ SampleInv
  BY ConstantFacts DEF ReportInit, Init, CountInv, SampleInv
<1> QED  BY <1>1, <1>2 DEF ReportInit, WholeInv, OutInv

(* A step is the printing, or comes before it, or changes nothing.         *)
LEMMA WholeStep ==
  ASSUME Measurable, WholeInv, [ReportNext]_reportVars
  PROVE  /\ WholeInv'
         /\ \/ WriteRows
            \/ mode' = "unread" /\ rows' = << >>
            \/ UNCHANGED <<vars, outVars>>
<1>1. AllInv'
  BY RunStep, AllInvStep DEF WholeInv
<1>2. CountInv' /\ SampleInv'
  <2>1. CASE Next
    BY <2>1, CountStep, SampleStep DEF WholeInv, AllInv
  <2>2. CASE UNCHANGED vars
    BY <2>2 DEF WholeInv, CountInv, SampleInv, vars
  <2> QED  BY <2>1, <2>2, RunStep
<1>3. CASE WriteRows
  <2>1. OutInv'
    BY <1>3 DEF WriteRows, OutInv, vars
  <2> QED  BY <1>1, <1>2, <1>3, <2>1 DEF WholeInv
<1>4. CASE UNCHANGED outVars
  <2>1. mode' = mode /\ rows' = rows
    BY <1>4 DEF outVars
  <2>2. CASE mode = "unread"
    BY <1>1, <1>2, <2>1, <2>2 DEF WholeInv, OutInv
  <2>3. CASE mode # "unread"
    <3>1. UNCHANGED vars
      BY <2>3, RunStep, ExitStays DEF WholeInv, OutInv, AllInv, IInv
    <3>2. OutInv'
      BY <2>1, <3>1 DEF WholeInv, OutInv, vars
    <3> QED  BY <1>1, <1>2, <1>4, <3>1, <3>2 DEF WholeInv
  <2> QED  BY <2>2, <2>3
<1>5. WriteRows \/ UNCHANGED outVars
  BY Zenon DEF ReportNext, MeasureResolution, RunThreads, reportVars
<1> QED  BY <1>3, <1>4, <1>5

LEMMA RowValues ==
  ASSUME NEW secs
  PROVE  /\ Row(secs).secs = secs /\ Row(secs).resolution = least
         /\ Row(secs).hops = printed.ops * iterations
  BY DEF Row, RowWith

LEMMA WriteExactly ==
  ASSUME WholeInv, MayNotStart # Threads, WriteRows PROVE PrintedExactly'
<1>0. /\ main = "exit" /\ UNCHANGED vars /\ UNCHANGED <<seconds, printed>>
      /\ header' = (mode' \in {"hdr", "both"})
      /\ rows' = IF mode' \in {"csv", "both"} THEN Csv
                 ELSE IF mode' = "table" THEN Table ELSE << >>
  BY DEF WriteRows, vars
<1>1. /\ printed.seconds = seconds /\ seconds \in Seq(Int) /\ Len(seconds) = Experiments
      /\ Experiments \in Nat /\ Experiments >= 1
  BY <1>0, PrintedFacts, ConstantFacts DEF WholeInv
<1>2. header' <=> mode' \in {"hdr", "both"}
  BY <1>0
<1>3. mode' = "hdr" => rows' = << >>
  BY <1>0
<1>4. ASSUME mode' \in {"csv", "both"}
      PROVE  Len(rows') = Experiments
             /\ \A i \in 1 .. Experiments : rows'[i].secs = <<seconds[i], 1>>
  <2>1. rows' = [i \in 1 .. Experiments |-> Row(<<seconds[i], 1>>)]
    BY <1>0, <1>1, <1>4 DEF Csv
  <2>2. Len(rows') = Experiments
    BY <1>1, <2>1
  <2>3. \A i \in 1 .. Experiments : rows'[i] = Row(<<seconds[i], 1>>)
    BY <2>1
  <2> QED  BY <2>2, <2>3, RowValues
<1>5. ASSUME mode' = "table"
      PROVE  /\ Len(rows') = 1
             /\ LET avg == rows'[1].secs IN
                  /\ \E i \in 1 .. Experiments : seconds[i] * avg[2] <= avg[1]
                  /\ \E i \in 1 .. Experiments : seconds[i] * avg[2] >= avg[1]
  <2>1. rows' = <<Row(Average)>>
    BY <1>0, <1>5 DEF Table
  <2>2. Len(rows') = 1 /\ rows'[1].secs = Average
    BY <2>1, RowValues
  <2>3. Average[1] = Total(seconds) /\ Average[2] = Experiments
    BY <1>1 DEF Average
  <2>4. /\ \E i \in 1 .. Experiments : seconds[i] * Experiments <= Total(seconds)
        /\ \E i \in 1 .. Experiments : seconds[i] * Experiments >= Total(seconds)
    BY <1>1, TotalFacts
  <2> QED  BY <2>2, <2>3, <2>4
<1> QED  BY <1>0, <1>2, <1>3, <1>4, <1>5 DEF PrintedExactly

LEMMA WriteDefined ==
  ASSUME WholeInv, TimerInv, MayNotStart # Threads, OpsPerChain > 0, WriteRows
  PROVE  RowsDefined'
<1>0. /\ main = "exit" /\ UNCHANGED vars
      /\ rows' = IF mode' \in {"csv", "both"} THEN Csv
                 ELSE IF mode' = "table" THEN Table ELSE << >>
  BY DEF WriteRows
<1>1. /\ printed.seconds = seconds /\ printed.ops = OpsPerChain
      /\ seconds \in Seq(Int) /\ Len(seconds) = Experiments
      /\ \A i \in 1 .. Experiments : seconds[i] \in Int /\ seconds[i] > 0
      /\ iterations \in Nat /\ iterations >= 1 /\ Experiments \in Nat /\ Experiments >= 1
      /\ OpsPerChain \in Nat
  BY <1>0, PrintedFacts, ConstantFacts DEF WholeInv
<1>2. Far \in Int
  BY DEF Far
<1>3. least \in 1 .. Far - 1
  BY <1>0, <1>2 DEF TimerInv
<1>4. OpsPerChain * iterations > 0
  BY <1>1
<1>5. ASSUME NEW secs, secs[1] > 0, secs[2] > 0, NEW r, r = Row(secs)
      PROVE  r.secs[1] > 0 /\ r.secs[2] > 0 /\ r.resolution \in 1 .. Far - 1 /\ r.hops > 0
  BY <1>1, <1>3, <1>4, <1>5, RowValues
<1>6. ASSUME NEW i \in DOMAIN rows' PROVE \E secs : rows'[i] = Row(secs) /\ secs[1] > 0 /\ secs[2] > 0
  <2>1. CASE mode' \in {"csv", "both"}
    <3>1. rows' = [j \in 1 .. Experiments |-> Row(<<seconds[j], 1>>)]
      BY <1>0, <1>1, <2>1 DEF Csv
    <3>2. i \in 1 .. Experiments /\ rows'[i] = Row(<<seconds[i], 1>>)
      BY <3>1
    <3>3. <<seconds[i], 1>>[1] > 0 /\ <<seconds[i], 1>>[2] > 0
      BY <1>1, <3>2
    <3> QED  BY <3>2, <3>3
  <2>2. CASE mode' = "table"
    <3>1. rows' = <<Row(Average)>>
      BY <1>0, <2>2 DEF Table
    <3>2. i = 1 /\ rows'[i] = Row(Average)
      BY <3>1
    <3>3. Average[1] = Total(seconds) /\ Average[2] = Experiments
      BY <1>1 DEF Average
    <3>4. PICK j \in 1 .. Experiments : seconds[j] * Experiments <= Total(seconds)
      BY <1>1, TotalFacts
    <3>5. Total(seconds) \in Int /\ seconds[j] \in Int /\ seconds[j] > 0
      BY <1>1, TotalFacts
    <3>6. seconds[j] * Experiments > 0 /\ seconds[j] * Experiments \in Int
      BY <1>1, <3>5
    <3>7. Total(seconds) > 0
      BY <3>4, <3>5, <3>6
    <3> QED  BY <1>1, <3>2, <3>3, <3>7
  <2>3. CASE mode' \notin {"csv", "both", "table"}
    BY <1>0, <2>3
  <2> QED  BY <2>1, <2>2, <2>3
<1> QED  BY <1>5, <1>6 DEF RowsDefined

(* One line of csv for each experiment, in order, or one average between   *)
(* the shortest and the longest of them: for every number of threads and   *)
(* experiments, if every chase measures a positive time and one thread is  *)
(* sure to start.                                                          *)
THEOREM PrintingIsExact ==
  ASSUME Measurable, MayNotStart # Threads
  PROVE  ReportSpec => []PrintedExactly
<1>1. ReportInit => WholeInv /\ PrintedExactly
  BY WholeInit DEF ReportInit, PrintedExactly
<1>2. WholeInv /\ PrintedExactly /\ [ReportNext]_reportVars => (WholeInv /\ PrintedExactly)'
  <2> SUFFICES ASSUME WholeInv, PrintedExactly, [ReportNext]_reportVars
               PROVE  (WholeInv /\ PrintedExactly)'
    OBVIOUS
  <2>1. CASE mode' = "unread"
    BY <2>1, WholeStep DEF PrintedExactly
  <2>2. CASE UNCHANGED <<vars, outVars>>
    BY <2>2, WholeStep DEF PrintedExactly, vars, outVars
  <2> QED  BY <2>1, <2>2, WholeStep, WriteExactly
<1> QED  BY <1>1, <1>2, PTL DEF ReportSpec

(* Nothing that is printed was divided by zero: there is a sample, its     *)
(* time and the clock's resolution are positive, and there were            *)
(* operations.  Chains have links, every chase measures a positive time,   *)
(* the clock changes in less than 10^9 ticks, and one thread is sure to    *)
(* start.                                                                  *)
THEOREM RowsAreDefined ==
  ASSUME Measurable, ClockIsRead, MayNotStart # Threads, OpsPerChain > 0
  PROVE  ReportSpec => []RowsDefined
<1>1. ReportInit => WholeInv /\ TimerInv /\ RowsDefined
  <2> SUFFICES ASSUME ReportInit PROVE TimerInv /\ RowsDefined
    BY WholeInit
  <2>1. TimerInv
    <3>1. Far \in Nat /\ 0 < Far
      BY DEF Far
    <3> QED  BY <3>1 DEF ReportInit, TimerInit, Init, TimerInv
  <2> QED  BY <2>1 DEF ReportInit, RowsDefined
<1>2. WholeInv /\ TimerInv /\ RowsDefined /\ [ReportNext]_reportVars
        => (WholeInv /\ TimerInv /\ RowsDefined)'
  <2> SUFFICES ASSUME WholeInv, TimerInv, RowsDefined, [ReportNext]_reportVars
               PROVE  (WholeInv /\ TimerInv /\ RowsDefined)'
    OBVIOUS
  <2>1. CASE rows' = << >>
    BY <2>1, WholeStep, TimerStep DEF RowsDefined
  <2>2. CASE UNCHANGED <<vars, outVars>>
    BY <2>2, WholeStep, TimerStep DEF RowsDefined, vars, outVars
  <2> QED  BY <2>1, <2>2, WholeStep, TimerStep, WriteDefined
<1> QED  BY <1>1, <1>2, PTL DEF ReportSpec
=============================================================================
