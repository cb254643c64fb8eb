------------------------------- MODULE MCRun -------------------------------
(* Run and its refinement mapping with values for TLC.                     *)
EXTENDS RunWindows

(* Delays that overlap the length of a pass.                               *)
Delays == {0, 8}

(* The clock shows whole ticks only: a part of one is not measured.        *)
Truncated == {-1, 0}

(* gettimeofday is set back, so far that an interval may seem negative.    *)
SetBack == {-40, 0, 8}
=============================================================================
