-------------------------------- MODULE Run --------------------------------
(***************************************************************************)
(* The measuring threads of pChase: Run::run() executed by every thread,   *)
(* the SpinBarrier they share, and main(), which starts the threads, joins *)
(* them and prints what they measured.                                     *)
(*                                                                         *)
(* A thread's program counter is a label of Run::run().  The labels        *)
(* "bar124" .. "bar194" are the calls of bp->barrier() at those lines of   *)
(* run.cpp: a thread at such a label has entered the barrier and waits.    *)
(*                                                                         *)
(* Time is counted in clock ticks.  A timed interval is modelled by its    *)
(* length: the passes it covers take PassTime ticks each, and an element   *)
(* of Jitter is added for scheduling delay and for steps of the wall clock *)
(* that gettimeofday reads (a negative element is a clock set back, or the *)
(* part of a tick that it does not show).                                  *)
(***************************************************************************)
EXTENDS Integers, Sequences, FiniteSets

CONSTANTS
  NumThreads,      \* exp.num_threads
  Experiments,     \* exp.experiments
  Iterations,      \* exp.iterations after parse_args; 0 asks for calibration
  Seconds,         \* exp.seconds, in ticks
  TicksPerSecond,  \* ticks of the model in one second
  PassTime,        \* ticks taken by one call of bench(root)
  Jitter,          \* what may be added to a measured interval
  Resolutions,     \* what Timer::resolution() may return, in ticks
  OpsPerChain,     \* links in a chain, the value *_mem_init stores
  IntBits,         \* value bits of int: 31
  LongBits,        \* bits of int64: 64
  MayNotStart,     \* threads whose pthread_create may fail
  MayNotCompile    \* threads whose JIT compilation may fail

Threads == 0 .. NumThreads - 1

(* 0.2 seconds, the floor of the calibration bound.                        *)
MinBound == TicksPerSecond \div 5

ASSUME ThreadsAssumption == NumThreads \in Nat \ {0}
ASSUME CountsAssumption ==
  /\ Experiments \in Nat \ {0} /\ Iterations \in Nat /\ OpsPerChain \in Nat
  /\ MayNotStart \subseteq Threads /\ MayNotCompile \subseteq Threads
ASSUME TimeAssumption ==
  /\ Seconds \in Nat /\ TicksPerSecond \in Nat /\ PassTime \in Nat
  /\ MinBound > 0 /\ Jitter \subseteq Int /\ Resolutions \subseteq Int
  /\ IntBits \in Nat \ {0} /\ LongBits \in Nat \ {0}
(* The clock resolves 20 ms, so that run.cpp:121 gives every thread the    *)
(* same bound of 0.2 s.  Each thread measures its own resolution.          *)
ASSUME ResolutionAssumption == \A r \in Resolutions : 10 * r <= MinBound
(* parse_args leaves at most one of iterations and seconds zero.           *)
ASSUME OptionsAssumption == Iterations = 0 => Seconds > 0

(* The clock is fine enough, and is not set back so far, that any chase of *)
(* at least one pass measures a positive time.                             *)
Measurable == \A d \in Jitter : PassTime + d > 0

VARIABLES
  main,        \* main(): "start", "join", "print" or "exit"
  cur,         \* main()'s loop counter: the thread it starts or joins next
  alive,       \* FALSE once the process has been killed by a signal
  pc,          \* pc[t]: where thread t is in Run::run()
  bench,       \* bench[t]: chase_pointers gave t a function, not NULL
  ops,         \* Run::_ops_per_chain
  bound,       \* bound[t]: local bound of the calibration loop
  iters,       \* static iters, as its logarithm: iters = 2^n is kept as n
  shifted,     \* shifted[t]: the operand t has read for iters << 1
  elapsed,     \* static elapsed
  calPasses,   \* calPasses[t]: log2 of the passes of t's last calibration
               \* chase, -1 before it is made
  iterations,  \* exp->iterations
  e,           \* e[t]: experiment counter of thread t
  passes,      \* passes[t]: passes thread t made in the current experiment
  delta,       \* stop - start of thread 0
  seconds,     \* Run::_seconds
  printed      \* what Output::print was given

mainVars == <<main, cur, printed>>
setupVars == <<bench, ops, bound>>
calVars == <<iters, shifted, elapsed, calPasses, iterations>>
expVars == <<e, passes, delta, seconds>>
vars == <<main, cur, alive, pc, bench, ops, bound, iters, shifted, elapsed,
          calPasses, iterations, e, passes, delta, seconds, printed>>

BarrierLabels == {"bar124", "bar130", "bar137", "bar144", "bar157",
                  "bar163", "bar169", "bar176", "bar182", "bar194"}

Labels == BarrierLabels \cup
  {"new", "failed", "alloc", "link", "compile", "calTest", "calCond",
   "calStart", "calChase", "spin", "calStop", "shiftRead", "shiftWrite",
   "calc", "expTest", "start", "chase", "expSpin", "stop", "record", "free",
   "done"}

TypeOK ==
  /\ main \in {"start", "join", "print", "exit"}
  /\ cur \in Threads
  /\ alive \in BOOLEAN
  /\ pc \in [Threads -> Labels]
  /\ bench \in [Threads -> BOOLEAN]
  /\ ops \in {0, OpsPerChain}
  /\ bound \in [Threads -> Int]
  /\ iters \in 0 .. LongBits
  /\ shifted \in [Threads -> 0 .. LongBits]
  /\ elapsed \in Int
  /\ calPasses \in [Threads -> -1 .. LongBits]
  /\ iterations \in Nat
  /\ e \in [Threads -> 0 .. Experiments]
  /\ passes \in [Threads -> Nat]
  /\ delta \in Int
  /\ seconds \in Seq(Int)
  /\ printed \in [ops : {-1, 0, OpsPerChain}, seconds : Seq(Int)]

Init ==
  /\ main = "start" /\ cur = 0 /\ alive = TRUE
  /\ pc = [t \in Threads |-> "new"]
  /\ bench = [t \in Threads |-> FALSE]
  /\ ops = 0
  /\ bound = [t \in Threads |-> 0]
  /\ iters = 0 /\ elapsed = 0
  /\ shifted = [t \in Threads |-> 0]
  /\ calPasses = [t \in Threads |-> -1]
  /\ iterations = Iterations
  /\ e = [t \in Threads |-> 0]
  /\ passes = [t \in Threads |-> 0]
  /\ delta = 0 /\ seconds = << >>
  /\ printed = [ops |-> -1, seconds |-> << >>]

Goto(t, from, to) ==
  /\ pc[t] = from
  /\ pc' = [pc EXCEPT ![t] = to]

-----------------------------------------------------------------------------
(* main()                                                                  *)

(* One round of a loop of main() over the threads, `then` following it.    *)
Advance(loop, then) ==
  /\ main = loop
  /\ main' = IF cur + 1 = NumThreads THEN then ELSE loop
  /\ cur' = IF cur + 1 = NumThreads THEN 0 ELSE cur + 1

StartThread ==
  /\ Advance("start", "join")
  /\ Goto(cur, "new", "alloc")
  /\ UNCHANGED <<alive, setupVars, calVars, expVars, printed>>

(* pthread_create fails; main() ignores what start() returns.              *)
StartFails ==
  /\ cur \in MayNotStart
  /\ Advance("start", "join")
  /\ Goto(cur, "new", "failed")
  /\ UNCHANGED <<alive, setupVars, calVars, expVars, printed>>

(* Mutant: main() prints without waiting for the threads.                  *)
JoinReturnsAtOnce ==
  /\ Advance("join", "print")
  /\ UNCHANGED <<alive, pc, setupVars, calVars, expVars, printed>>

(* pthread_join of a thread that was never created reads a handle nobody   *)
(* has set: it may return at once (here) or crash (JoinCrashes).           *)
JoinThread ==
  /\ Advance("join", "print")
  /\ pc[cur] \in {"done", "failed"}
  /\ UNCHANGED <<alive, pc, setupVars, calVars, expVars, printed>>

JoinCrashes ==
  /\ main = "join" /\ pc[cur] = "failed"
  /\ alive' = FALSE
  /\ UNCHANGED <<mainVars, pc, setupVars, calVars, expVars>>

PrintResults ==
  /\ main = "print" /\ main' = "exit"
  /\ printed' = [ops |-> ops, seconds |-> seconds]
  /\ UNCHANGED <<cur, alive, pc, setupVars, calVars, expVars>>

-----------------------------------------------------------------------------
(* SpinBarrier::barrier(): everyone leaves when the last participant has   *)
(* entered.  Returning from the call changes nothing else, so the threads  *)
(* may as well all return in the step that opens the barrier.              *)

AfterBarrier(l) ==
  CASE l = "bar124" -> "calStart"
    [] l = "bar130" -> "calChase"
    [] l = "bar137" -> "calStop"
    [] l = "bar144" -> "shiftRead"
    [] l = "bar157" -> "expTest"
    [] l = "bar163" -> "start"
    [] l = "bar169" -> "chase"
    [] l = "bar176" -> "stop"
    [] l = "bar182" -> "record"
    [] l = "bar194" -> "free"

(* Mutant: the barrier waits only for the threads that were created.       *)
BarrierOfCreated ==
  /\ \A t \in Threads : pc[t] \in BarrierLabels \cup {"failed"}
  /\ pc' = [t \in Threads |->
              IF pc[t] = "failed" THEN pc[t] ELSE AfterBarrier(pc[t])]
  /\ UNCHANGED <<mainVars, alive, setupVars, calVars, expVars>>

Barrier ==
  /\ \A t \in Threads : pc[t] \in BarrierLabels
  /\ pc' = [t \in Threads |-> AfterBarrier(pc[t])]
  /\ UNCHANGED <<mainVars, alive, setupVars, calVars, expVars>>

-----------------------------------------------------------------------------
(* Run::run(), set-up                                                      *)

Alloc(t) ==
  /\ Goto(t, "alloc", "link")
  /\ UNCHANGED <<mainVars, alive, setupVars, calVars, expVars>>

(* random_mem_init, forward_mem_init or reverse_mem_init for every chain.  *)
LinkChains(t) ==
  /\ Goto(t, "link", "compile")
  /\ ops' = OpsPerChain
  /\ UNCHANGED <<mainVars, alive, bench, bound, calVars, expVars>>

Compile(t) ==
  /\ Goto(t, "compile", "calTest")
  /\ bench' = [bench EXCEPT ![t] = TRUE]
  /\ UNCHANGED <<mainVars, alive, ops, bound, calVars, expVars>>

(* rt.add fails: chase_pointers prints a message and returns 0.            *)
CompileFails(t) ==
  /\ t \in MayNotCompile
  /\ Goto(t, "compile", "calTest")
  /\ UNCHANGED <<mainVars, alive, setupVars, calVars, expVars>>

-----------------------------------------------------------------------------
(* Run::run(), calibration of the number of iterations                     *)

SkipCalibration(t) ==
  /\ iterations # 0
  /\ Goto(t, "calTest", "expTest")
  /\ UNCHANGED <<mainVars, alive, setupVars, calVars, expVars>>

BeginCalibration(t) ==
  /\ iterations = 0
  /\ Goto(t, "calTest", "calCond")
  /\ \E r \in Resolutions :
       bound' = [bound EXCEPT
                   ![t] = IF MinBound < 10 * r THEN 10 * r ELSE MinBound]
  /\ iters' = 0
  /\ UNCHANGED <<mainVars, alive, bench, ops, shifted, elapsed, calPasses,
                 iterations, expVars>>

CalCond(t) ==
  /\ Goto(t, "calCond", IF elapsed <= bound[t] THEN "bar124" ELSE "calc")
  /\ UNCHANGED <<mainVars, alive, setupVars, calVars, expVars>>

(* Thread 0 reads the clock into istart.                                   *)
CalStart(t) ==
  /\ Goto(t, "calStart", "bar130")
  /\ calPasses' = [calPasses EXCEPT ![t] = -1]
  /\ UNCHANGED <<mainVars, alive, setupVars, iters, shifted, elapsed,
                 iterations, expVars>>

(* The value of the int64 iters whose logarithm is n: bit 63 is the sign   *)
(* bit, and a bit shifted further is lost.                                 *)
ItersValue(n) ==
  IF n < LongBits - 1 THEN 2 ^ n
  ELSE IF n = LongBits - 1 THEN -(2 ^ n) ELSE 0

(* Calls of bench made by `for (int i = 0; i < iters; i++)`.               *)
CalLoopPasses(n) == IF ItersValue(n) > 0 THEN ItersValue(n) ELSE 0

(* Mutant: the barrier of line 137 is missing.                             *)
CalChaseNoBarrier(t) ==
  /\ bench[t]
  /\ Goto(t, "calChase", "calStop")
  /\ calPasses' = [calPasses EXCEPT ![t] = iters]
  /\ UNCHANGED <<mainVars, alive, setupVars, iters, shifted, elapsed,
                 iterations, expVars>>

CalChase(t) ==
  /\ bench[t]
  /\ Goto(t, "calChase", "bar137")
  /\ calPasses' = [calPasses EXCEPT ![t] = iters]
  /\ UNCHANGED <<mainVars, alive, setupVars, iters, shifted, elapsed,
                 iterations, expVars>>

(* iters exceeds every int: i overflows, which is undefined.  Either the   *)
(* build counts in 64 bits (CalChase) or i wraps and the loop never ends.  *)
CalChaseOverflows(t) ==
  /\ bench[t] /\ iters >= IntBits /\ iters < LongBits - 1
  /\ Goto(t, "calChase", "spin")
  /\ UNCHANGED <<mainVars, alive, setupVars, calVars, expVars>>

(* Calling the NULL function kills the process.                            *)
CallNull(t) ==
  /\ ~bench[t] /\ pc[t] \in {"calChase", "chase"}
  /\ alive' = FALSE
  /\ UNCHANGED <<mainVars, pc, setupVars, calVars, expVars>>

(* Mutant: the barrier of line 144 is missing.                             *)
CalStopNoBarrier(t) ==
  /\ Goto(t, "calStop", "shiftRead")
  /\ elapsed' \in IF t = 0
                  THEN {PassTime * CalLoopPasses(calPasses[0]) + j : j \in Jitter}
                  ELSE {elapsed}
  /\ UNCHANGED <<mainVars, alive, setupVars, iters, shifted, calPasses,
                 iterations, expVars>>

(* Mutant: elapsed is not assigned.                                        *)
CalStopStale(t) ==
  /\ Goto(t, "calStop", "bar144")
  /\ UNCHANGED <<mainVars, alive, setupVars, calVars, expVars>>

(* Thread 0 reads istop and sets elapsed = istop - istart.                 *)
CalStop(t) ==
  /\ Goto(t, "calStop", "bar144")
  /\ elapsed' \in IF t = 0
                  THEN {PassTime * CalLoopPasses(calPasses[0]) + j : j \in Jitter}
                  ELSE {elapsed}
  /\ UNCHANGED <<mainVars, alive, setupVars, iters, shifted, calPasses,
                 iterations, expVars>>

(* iters = iters << 1 by every thread, on one variable and without a lock: *)
(* a load and a store with the steps of other threads between them.        *)
ShiftRead(t) ==
  /\ Goto(t, "shiftRead", "shiftWrite")
  /\ shifted' = [shifted EXCEPT ![t] = iters]
  /\ UNCHANGED <<mainVars, alive, setupVars, iters, elapsed, calPasses,
                 iterations, expVars>>

(* Mutant: iters is quadrupled.                                            *)
ShiftWriteTwice(t) ==
  /\ Goto(t, "shiftWrite", "calCond")
  /\ iters' = IF shifted[t] + 1 < LongBits THEN shifted[t] + 2 ELSE LongBits
  /\ UNCHANGED <<mainVars, alive, setupVars, shifted, elapsed, calPasses,
                 iterations, expVars>>

ShiftWrite(t) ==
  /\ Goto(t, "shiftWrite", "calCond")
  /\ iters' = IF shifted[t] < LongBits THEN shifted[t] + 1 ELSE LongBits
  /\ UNCHANGED <<mainVars, alive, setupVars, shifted, elapsed, calPasses,
                 iterations, expVars>>

(* max(1.0, 0.9999 + x) converted to int64, for the quotient x of the      *)
(* source with elapsed > 0.                                                *)
Predicted(n) ==
  LET x == ItersValue(n)
      scaled == IF 0 < Seconds
                THEN (19998 * elapsed + 10000 * Seconds * x) \div (20000 * elapsed)
                ELSE (9999 * elapsed + 10000 * TicksPerSecond * x)
                       \div (10000 * elapsed)
  IN  IF scaled < 1 THEN 1 ELSE scaled

Calculate(t) ==
  /\ Goto(t, "calc", "bar157")
  /\ iterations' = IF t = 0 THEN Predicted(iters) ELSE iterations
  /\ UNCHANGED <<mainVars, alive, setupVars, iters, shifted, elapsed,
                 calPasses, expVars>>

-----------------------------------------------------------------------------
(* Run::run(), the experiments                                             *)

(* Mutant: the loop runs while e <= exp->experiments.                      *)
ExpTestOffByOne(t) ==
  /\ Goto(t, "expTest", IF e[t] <= Experiments THEN "bar163" ELSE "bar194")
  /\ UNCHANGED <<mainVars, alive, setupVars, calVars, expVars>>

ExpTest(t) ==
  /\ Goto(t, "expTest", IF e[t] < Experiments THEN "bar163" ELSE "bar194")
  /\ UNCHANGED <<mainVars, alive, setupVars, calVars, expVars>>

(* Mutant: the barrier of line 169 is missing.                             *)
StartTimerNoBarrier(t) ==
  /\ Goto(t, "start", "chase")
  /\ passes' = [passes EXCEPT ![t] = 0]
  /\ UNCHANGED <<mainVars, alive, setupVars, calVars, e, delta, seconds>>

StartTimer(t) ==
  /\ Goto(t, "start", "bar169")
  /\ passes' = [passes EXCEPT ![t] = 0]
  /\ UNCHANGED <<mainVars, alive, setupVars, calVars, e, delta, seconds>>

(* Mutant: the barrier of line 176 is missing.                             *)
ChaseNoBarrier(t) ==
  /\ bench[t]
  /\ Goto(t, "chase", "stop")
  /\ passes' = [passes EXCEPT ![t] = iterations]
  /\ UNCHANGED <<mainVars, alive, setupVars, calVars, e, delta, seconds>>

Chase(t) ==
  /\ bench[t]
  /\ Goto(t, "chase", "bar176")
  /\ passes' = [passes EXCEPT ![t] = iterations]
  /\ UNCHANGED <<mainVars, alive, setupVars, calVars, e, delta, seconds>>

(* exp->iterations, an int64, exceeds every int: see CalChaseOverflows.    *)
ChaseOverflows(t) ==
  /\ bench[t] /\ iterations \div 2 >= 2 ^ (IntBits - 1)
  /\ Goto(t, "chase", "expSpin")
  /\ UNCHANGED <<mainVars, alive, setupVars, calVars, expVars>>

StopTimer(t) ==
  /\ Goto(t, "stop", "bar182")
  /\ delta' \in IF t = 0 THEN {PassTime * passes[0] + j : j \in Jitter}
                ELSE {delta}
  /\ UNCHANGED <<mainVars, alive, setupVars, calVars, e, passes, seconds>>

Record(t) ==
  /\ Goto(t, "record", "expTest")
  /\ seconds' = IF 0 <= e[t] /\ t = 0 /\ 0 < delta
                THEN Append(seconds, delta) ELSE seconds
  /\ e' = [e EXCEPT ![t] = @ + 1]
  /\ UNCHANGED <<mainVars, alive, setupVars, calVars, passes, delta>>

(* The chains are freed and the thread returns.                            *)
FreeChains(t) ==
  /\ Goto(t, "free", "done")
  /\ UNCHANGED <<mainVars, alive, setupVars, calVars, expVars>>

-----------------------------------------------------------------------------
Main ==
  /\ alive
  /\ StartThread \/ StartFails \/ JoinThread \/ JoinCrashes \/ PrintResults

Setup(t) == Alloc(t) \/ LinkChains(t) \/ Compile(t) \/ CompileFails(t)

Calibrate(t) ==
  \/ SkipCalibration(t) \/ BeginCalibration(t) \/ CalCond(t) \/ CalStart(t)
  \/ CalChase(t) \/ CalChaseOverflows(t) \/ CalStop(t)
  \/ ShiftRead(t) \/ ShiftWrite(t) \/ Calculate(t)

Experiment(t) ==
  \/ ExpTest(t) \/ StartTimer(t) \/ Chase(t) \/ ChaseOverflows(t)
  \/ StopTimer(t) \/ Record(t) \/ FreeChains(t)

Step(t) == alive /\ (Setup(t) \/ Calibrate(t) \/ CallNull(t) \/ Experiment(t))

OpenBarrier == alive /\ Barrier

(* The process has ended: main() has returned or a signal has killed it.   *)
Ended == main = "exit" \/ ~alive

Terminated == Ended /\ UNCHANGED vars

Next == Main \/ OpenBarrier \/ (\E t \in Threads : Step(t)) \/ Terminated

(* Every thread has a processor to run on and the barrier wakes whoever    *)
(* waits in it.                                                            *)
Fairness ==
  /\ WF_vars(Main)
  /\ WF_vars(OpenBarrier)
  /\ \A t \in Threads : WF_vars(Step(t))

Spec == Init /\ [][Next]_vars
FairSpec == Spec /\ Fairness

-----------------------------------------------------------------------------
(* Properties                                                              *)

(* A thread chases pointers only between the two readings of the clock     *)
(* that thread 0 makes around that chase, and in the same experiment: the  *)
(* barriers of run.cpp:130 and 137, 169 and 176, enclose every chase.      *)
TimedChase ==
  \A t \in Threads :
    /\ pc[t] \in {"calChase", "spin"}
         => pc[0] \in {"calChase", "spin", "bar137"}
    /\ pc[t] \in {"chase", "expSpin"}
         => pc[0] \in {"chase", "expSpin", "bar176"} /\ e[t] = e[0]

(* When thread 0 is about to stop the clock, every thread has completed    *)
(* the whole chase being timed: in a calibration round all threads made    *)
(* the same number of passes although they race on iters, and in an        *)
(* experiment each made exactly exp->iterations, at least one.             *)
WholeWork ==
  /\ pc[0] = "calStop" =>
       \A t \in Threads : calPasses[t] = iters /\ calPasses[t] # -1
  /\ pc[0] = "stop" =>
       /\ iterations >= 1
       /\ \A t \in Threads : passes[t] = iterations

(* No step changes iters, elapsed or exp->iterations while a thread is at  *)
(* code that would read it with the old and the new value mixed: the bound *)
(* of the calibration chase, the loop test of the calibration, the test of *)
(* run.cpp:116 and the bound of the experiment's chase.                    *)
QuietShared ==
  [][ /\ iters' # iters => \A t \in Threads : pc[t] \notin {"calChase", "spin"}
      /\ elapsed' # elapsed => \A t \in Threads : pc[t] # "calCond"
      /\ iterations' # iterations =>
           \A t \in Threads : pc[t] \notin {"calTest", "chase", "expSpin"} ]_vars

(* What the prediction of run.cpp:150 is computed from: iters has been     *)
(* doubled at least once since the timed chase and at most once for every  *)
(* thread, so the number of iterations is between the intended one and     *)
(* 2^(NumThreads-1) times it.                                              *)
PredictionInput ==
  pc[0] = "calc" =>
    /\ iters <= calPasses[0] + NumThreads
    /\ iters >= calPasses[0] + 1 \/ iters = LongBits

(* The prediction is computed from twice the number of passes timed, which *)
(* the factor 0.5 of run.cpp:151 undoes: "run each experiment for <number> *)
(* seconds".                                                               *)
PredictionExact == pc[0] = "calc" => iters = calPasses[0] + 1

(* A recorded sample is a measurement of all the threads: none is recorded *)
(* when a thread was not created or has no compiled function.              *)
SamplesAreComplete ==
  seconds # << >> =>
    \A t \in Threads : bench[t] /\ pc[t] \notin {"new", "failed"}

(* main() prints after the last write to the results, and what it prints   *)
(* has one sample for each experiment ("number of seconds for each         *)
(* experiment", run.h:63) and the length of a chain.                       *)
ResultsComplete ==
  main = "exit" /\ (\A t \in Threads : pc[t] # "failed") =>
    /\ Len(printed.seconds) = Experiments
    /\ printed.seconds = seconds
    /\ printed.ops = OpsPerChain

(* The process ends: no thread waits for ever in a barrier, calibration    *)
(* finds a number of iterations and main() joins every thread.             *)
Termination == <>Ended

-----------------------------------------------------------------------------
(* The inductive invariant.  At any moment all threads are between the     *)
(* same two barriers of Run::run(); each disjunct describes one such       *)
(* stretch of the code and what its branches and counters depend on.       *)

Everyone(S) == \A t \in Threads : pc[t] \in S

(* Up to the first barrier: bar124 when calibrating, else bar163.          *)
InSetup ==
  /\ Everyone({"new", "failed", "alloc", "link", "compile", "calTest",
               "calCond", "bar124", "expTest", "bar163"})
  /\ elapsed = 0 /\ iterations = Iterations
  /\ \A t \in Threads :
       /\ e[t] = 0
       /\ pc[t] \in {"calCond", "bar124"} =>
            iterations = 0 /\ bound[t] = MinBound
       /\ pc[t] \in {"expTest", "bar163"} => iterations # 0

Calibrating == \A t \in Threads : bound[t] = MinBound /\ e[t] = 0

InCalStart ==
  Calibrating /\ iterations = 0 /\ Everyone({"calStart", "bar130"})

InCalChase ==
  /\ Calibrating /\ iterations = 0
  /\ Everyone({"calChase", "spin", "bar137"})
  /\ \A t \in Threads : pc[t] = "bar137" => calPasses[t] = iters

InCalStop ==
  /\ Calibrating /\ iterations = 0 /\ Everyone({"calStop", "bar144"})
  /\ \A t \in Threads : calPasses[t] = iters

(* The threads that have stored their iters << 1 in this round.            *)
HaveShifted == {t \in Threads : pc[t] \notin {"shiftRead", "shiftWrite"}}

InShift ==
  /\ Calibrating
  /\ Everyone({"shiftRead", "shiftWrite", "calCond", "bar124", "calc", "bar157"})
  /\ calPasses[0] >= 0
  /\ \A t \in Threads :
       /\ pc[t] = "bar124" => elapsed <= MinBound
       /\ pc[t] \in {"calc", "bar157"} => elapsed > MinBound
       /\ pc[t] = "shiftWrite" =>
            /\ shifted[t] >= calPasses[0]
            /\ shifted[t] <= calPasses[0] + Cardinality(HaveShifted)
  /\ iters >= calPasses[0]
  /\ iters <= calPasses[0] + Cardinality(HaveShifted)
  /\ HaveShifted # {} => iters >= calPasses[0] + 1 \/ iters = LongBits
  /\ IF pc[0] = "bar157" THEN iterations >= 1 ELSE iterations = 0

InExpFirst ==
  /\ Everyone({"expTest", "bar163"})
  /\ iterations >= 1
  /\ \A t \in Threads : e[t] = 0

SameExperiment ==
  iterations >= 1 /\ \A t \in Threads : e[t] = e[0] /\ e[t] < Experiments

InExpStart == SameExperiment /\ Everyone({"start", "bar169"})

InExpChase ==
  /\ SameExperiment /\ Everyone({"chase", "expSpin", "bar176"})
  /\ \A t \in Threads : pc[t] = "bar176" => passes[t] = iterations /\ bench[t]

InExpStop ==
  /\ SameExperiment /\ Everyone({"stop", "bar182"})
  /\ \A t \in Threads : passes[t] = iterations /\ bench[t]

InRecord ==
  /\ Everyone({"record", "expTest", "bar163", "bar194"})
  /\ iterations >= 1
  /\ \E k \in 0 .. Experiments - 1 : \A t \in Threads :
       /\ e[t] = IF pc[t] = "record" THEN k ELSE k + 1
       /\ pc[t] = "bar163" => e[t] < Experiments
       /\ pc[t] = "bar194" => e[t] = Experiments
  /\ \A t \in Threads : bench[t]

InEnd ==
  Everyone({"free", "done"}) /\ iterations >= 1 /\ \A t \in Threads : bench[t]

(* From the first reading of the clock in an experiment to the end.        *)
Measuring == InExpStart \/ InExpChase \/ InExpStop \/ InRecord \/ InEnd

LockStep ==
  \/ InSetup \/ InCalStart \/ InCalChase \/ InCalStop \/ InShift
  \/ InExpFirst \/ Measuring

(* No sample before the first experiment is over, and the compiled         *)
(* functions of all threads stay once there is one.                        *)
SamplesInv ==
  seconds # << >> => Measuring /\ \A t \in Threads : bench[t]

(* LockStep together with the types: the invariant the proofs are made     *)
(* from.                                                                   *)
IInv == TypeOK /\ LockStep /\ SamplesInv
=============================================================================
