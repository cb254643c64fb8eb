---------------------------- MODULE TimedWindows ----------------------------
(***************************************************************************)
(* What Run::run() promises of its measurements, without barriers, clocks  *)
(* or program counters.  A window is what lies between two readings of the *)
(* clock by thread 0.  In a window every thread chases once, from          *)
(* beginning to end, and outside windows nobody does.  Windows do not      *)
(* overlap; first there is some number of calibration windows, then one    *)
(* window for each experiment.                                             *)
(***************************************************************************)
EXTENDS Naturals

CONSTANTS Threads, Experiments

VARIABLES
  window,  \* "closed", or the kind of the open window: "cal" or "exp"
  busy,    \* the threads whose chase in the open window is not complete
  taken    \* the number of experiments whose window has been closed

wvars == <<window, busy, taken>>

Init == window = "closed" /\ busy = {} /\ taken = 0

(* Thread 0 reads the clock and everyone is about to chase.                *)
Open(kind) ==
  /\ window = "closed"
  /\ kind = "cal" => taken = 0
  /\ kind = "exp" => taken < Experiments
  /\ window' = kind /\ busy' = Threads
  /\ UNCHANGED taken

CompleteChase(t) ==
  /\ window # "closed" /\ t \in busy
  /\ busy' = busy \ {t}
  /\ UNCHANGED <<window, taken>>

(* Thread 0 reads the clock again, after the last thread has completed.    *)
Close ==
  /\ window # "closed" /\ busy = {}
  /\ window' = "closed"
  /\ taken' = IF window = "exp" THEN taken + 1 ELSE taken
  /\ UNCHANGED busy

Next ==
  \/ \E kind \in {"cal", "exp"} : Open(kind)
  \/ \E t \in Threads : CompleteChase(t)
  \/ Close

Spec == Init /\ [][Next]_wvars
=============================================================================
