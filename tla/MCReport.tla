------------------------------ MODULE MCReport ------------------------------
(* The whole program with values for TLC.                                  *)
EXTENDS Report

(* Delays that overlap the length of a pass.                               *)
Delays == {0, 8}

(* gettimeofday is set back, so far that an interval may seem negative.    *)
SetBack == {-40, 8}
=============================================================================
