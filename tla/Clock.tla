------------------------------- MODULE Clock --------------------------------
(***************************************************************************)
(* The time the tickers and the aggregators share, in units of which the   *)
(* durations of the configuration are multiples, and the arithmetic of     *)
(* internal/internal.go on it.                                             *)
(***************************************************************************)
EXTENDS Integers, Sequences, FiniteSets

VARIABLE now

(* Time.Truncate rounds down, Time.Round to the nearest, halves up; neither *)
(* changes anything for a duration of zero.                                *)
Truncate(t, d) == IF d = 0 THEN t ELSE t - (t % d)
Round(t, d) ==
  IF d = 0 THEN t
  ELSE IF 2 * (t % d) < d THEN t - (t % d) ELSE t - (t % d) + d

(* The next aligned time, t itself if it is aligned.                       *)
AlignTime(t, interval) ==
  IF Truncate(t, interval) = t THEN t ELSE Truncate(t, interval) + interval

RandomDuration(max) == IF max = 0 THEN {0} ELSE 0..(max - 1)
=============================================================================
