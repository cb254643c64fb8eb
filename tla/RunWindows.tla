----------------------------- MODULE RunWindows -----------------------------
(***************************************************************************)
(* Run::run() implements TimedWindows: the refinement mapping.             *)
(***************************************************************************)
EXTENDS Run

(* Thread 0 opens a window with the reading of the clock that takes it     *)
(* from "calStart" to "bar130" or from "start" to "bar169", and closes it  *)
(* with the reading at "calStop" or "stop".                                *)
Window ==
  IF pc[0] \in {"bar130", "calChase", "spin", "bar137", "calStop"} THEN "cal"
  ELSE IF pc[0] \in {"bar169", "chase", "expSpin", "bar176", "stop"} THEN "exp"
  ELSE "closed"

(* A thread is busy until it reaches the barrier that follows its chase.   *)
BeforeBar137 == {"calStart", "bar130", "calChase", "spin"}
BeforeBar176 == {"start", "bar169", "chase", "expSpin"}

Busy ==
  IF Window = "closed" THEN {}
  ELSE {t \in Threads : pc[t] \in BeforeBar137 \cup BeforeBar176}

(* The window of experiment e[0] is closed before e[0] is incremented.     *)
Taken == IF pc[0] \in {"bar182", "record"} THEN e[0] + 1 ELSE e[0]

Windows == INSTANCE TimedWindows WITH window <- Window, busy <- Busy, taken <- Taken

(* Whatever the interleaving, what the threads of run.cpp:116-192 do is a  *)
(* sequence of windows in which every thread chases exactly once: barriers,*)
(* clock readings and loop counters cooperate.                             *)
ImplementsWindows == Windows!Spec
=============================================================================
