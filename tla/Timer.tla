------------------------------- MODULE Timer -------------------------------
(***************************************************************************)
(* Timer::resolution with the clock of gettimeofday (the build defines     *)
(* GTOD, with which Timer::calibrate does nothing).                        *)
(*                                                                         *)
(* The clock advances while the program reads it, by one tick or by more   *)
(* if the thread was interrupted.  Only differences of readings matter:    *)
(* since is how far the clock has come from the reading kept in a.         *)
(***************************************************************************)
EXTENDS Integers

CONSTANTS
  ClockSteps,  \* by how many ticks the clock may advance at once
  MaxSince     \* bound on since beyond which the clock waits for a reading

ASSUME ClockAssumption == ClockSteps \subseteq Nat \ {0} /\ MaxSince \in Nat \ {0}

VARIABLES
  timing,  \* the waiting loop the function is in, "first" or "second", or
           \* "done" when it has returned
  round,   \* its loop counter i
  since,   \* the clock less a
  least    \* c

timerVars == <<timing, round, since, least>>

Rounds == 10
Far == 10 ^ 9

TimerInit == timing = "first" /\ round = 0 /\ since = 0 /\ least = Far

ClockAdvances ==
  /\ timing # "done" /\ since < MaxSince
  /\ \E d \in ClockSteps : since' = since + d
  /\ UNCHANGED <<timing, round, least>>

(* The first loop waits for the clock to change, so that the second        *)
(* interval begins with a tick; a is read again.                           *)
FirstChange ==
  /\ timing = "first" /\ since # 0
  /\ timing' = "second" /\ since' = 0
  /\ UNCHANGED <<round, least>>

(* c = min(b - a, c), and on to the next round.                            *)
Measure ==
  /\ timing = "second"
  /\ least' = IF since < least THEN since ELSE least
  /\ round' = round + 1 /\ since' = 0
  /\ timing' = IF round + 1 < Rounds THEN "first" ELSE "done"

(* Mutant: the second loop is left at once.                                *)
SecondAtOnce == Measure

(* The second loop has seen the clock change.                              *)
SecondChange == since # 0 /\ Measure

(* Mutant: the second loop does not read the clock again.                  *)
ReadOnce == FirstChange

Read == FirstChange \/ SecondChange

TimerNext == ClockAdvances \/ Read

(* The clock goes on, and so does the program.                             *)
TimerFairness == WF_timerVars(ClockAdvances) /\ WF_timerVars(Read)
=============================================================================
