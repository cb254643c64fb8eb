------------------------------- MODULE Report -------------------------------
(***************************************************************************)
(* The whole of main(): the clock's resolution is measured, the threads    *)
(* run, and Output::print writes what they measured.                       *)
(*                                                                         *)
(* A row is a line of csv or the table.  Times are fractions <<n, d>>, so  *)
(* that an average over no samples has the denominator 0; a row holds what *)
(* its quotients are computed from.                                        *)
(***************************************************************************)
EXTENDS Run, Timer

CONSTANTS
  ChainsPerThread,  \* exp.chains_per_thread
  BytesPerLine,     \* exp.bytes_per_line
  LineNum           \* line_num: the lines accessed at a position

ASSUME SizesAssumption ==
  {ChainsPerThread, BytesPerLine, LineNum} \subseteq Nat \ {0}

VARIABLES
  mode,    \* exp.output_mode, which only Output::print looks at: "unread"
           \* until then
  header,  \* the header has been written
  rows     \* the rows written

outVars == <<mode, header, rows>>
reportVars == <<vars, timerVars, outVars>>

ReportInit ==
  /\ Init /\ TimerInit
  /\ mode = "unread" /\ header = FALSE /\ rows = << >>

-----------------------------------------------------------------------------
(* Output                                                                  *)

(* Elapsed time; clock resolution, by which it is divided into ticks;      *)
(* iterations; total operations; the hops that the latency and the bytes   *)
(* that the bandwidth are computed from.                                   *)
RowWith(n, secs) ==
  [secs |-> secs, resolution |-> least, iterations |-> n,
   total |-> printed.ops * ChainsPerThread * NumThreads,
   hops |-> printed.ops * n,
   bytes |-> printed.ops * n * ChainsPerThread * NumThreads * BytesPerLine * LineNum]

(* Mutant: the iterations are those of the options.                        *)
RowOfOptions(secs) == RowWith(Iterations, secs)

Row(secs) == RowWith(iterations, secs)

(* Mutant: the last sample is left out.                                    *)
CsvShort == [i \in 1 .. Len(printed.seconds) - 1 |-> Row(<<printed.seconds[i], 1>>)]

Csv == [i \in 1 .. Len(printed.seconds) |-> Row(<<printed.seconds[i], 1>>)]

(* The loop that adds up the samples.                                      *)
Total(samples) ==
  LET sum[i \in 0 .. Len(samples)] == IF i = 0 THEN 0 ELSE sum[i - 1] + samples[i]
  IN  sum[Len(samples)]

Average == <<Total(printed.seconds), Len(printed.seconds)>>
Table == <<Row(Average)>>

WriteRows ==
  /\ main = "exit" /\ alive /\ mode = "unread"
  /\ mode' \in {"hdr", "csv", "both", "table"}
  /\ header' = (mode' \in {"hdr", "both"})
  /\ rows' = IF mode' \in {"csv", "both"} THEN Csv
             ELSE IF mode' = "table" THEN Table ELSE << >>
  /\ UNCHANGED <<vars, timerVars>>

-----------------------------------------------------------------------------
MeasureResolution == TimerNext /\ UNCHANGED <<vars, outVars>>

RunThreads == timing = "done" /\ Next /\ UNCHANGED <<timerVars, outVars>>

ReportNext == MeasureResolution \/ RunThreads \/ WriteRows

ReportSpec == ReportInit /\ [][ReportNext]_reportVars

(* As in Timer and Run; main() goes on to print.                           *)
FairReportSpec ==
  /\ ReportSpec /\ TimerFairness /\ WF_reportVars(WriteRows)
  /\ WF_reportVars(RunThreads /\ Main)
  /\ WF_reportVars(RunThreads /\ OpenBarrier)
  /\ \A t \in Threads : WF_reportVars(RunThreads /\ Step(t))

-----------------------------------------------------------------------------
(* Properties                                                              *)

(* What a row says was done was done, calibrated or not: every thread made *)
(* the row's iterations in the last experiment, and the hops and bytes of  *)
(* latency and bandwidth are those of these passes.  exp->iterations is    *)
(* read by main() after the threads have ended.                            *)
RowsMatchWork ==
  \A i \in DOMAIN rows : \A t \in Threads :
    rows[i].secs[2] > 0 =>
      /\ rows[i].iterations = passes[t]
      /\ rows[i].hops = OpsPerChain * passes[t]
      /\ rows[i].bytes = OpsPerChain * passes[t] * NumThreads * ChainsPerThread
                           * BytesPerLine * LineNum

(* If every chase takes long enough for the clock to measure a positive    *)
(* time, no quotient of output.cpp:44, 114-119 or 162-166 divides by zero: *)
(* there is a sample to average over, the time and the resolution are      *)
(* positive, and there were operations to divide them by.  That the clock  *)
(* only advances is not enough: one pass through a short chain may take    *)
(* less than the microsecond it counts in, measures 0 and is dropped.      *)
RowsDefined ==
  Measurable =>
    \A i \in DOMAIN rows :
      /\ rows[i].secs[1] > 0 /\ rows[i].secs[2] > 0
      /\ rows[i].resolution \in 1 .. Far - 1
      /\ rows[i].hops > 0

(* Under the same condition csv is one line for each experiment, in the    *)
(* order in which they were made; the table is one average of all, between *)
(* the shortest and the longest; the header is printed alone or before     *)
(* csv.                                                                    *)
PrintedExactly ==
  Measurable /\ mode # "unread" =>
    /\ header <=> mode \in {"hdr", "both"}
    /\ mode = "hdr" => rows = << >>
    /\ mode \in {"csv", "both"} =>
         /\ Len(rows) = Experiments
         /\ \A i \in 1 .. Experiments : rows[i].secs = <<seconds[i], 1>>
    /\ mode = "table" =>
         /\ Len(rows) = 1
         /\ LET avg == rows[1].secs IN
              /\ \E i \in 1 .. Experiments : seconds[i] * avg[2] <= avg[1]
              /\ \E i \in 1 .. Experiments : seconds[i] * avg[2] >= avg[1]

(* main() gets through: the resolution is found although the clock may     *)
(* jump, the threads end, and the results are printed, unless a signal has *)
(* killed the process.                                                     *)
Reported == <>(mode # "unread" \/ ~alive)
=============================================================================
