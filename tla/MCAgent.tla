------------------------------ MODULE MCAgent ------------------------------
(***************************************************************************)
(* Agent with how many metrics the inputs make: in the mode "run" the      *)
(* first one makes MaxMetrics and the others one each, with asynchronous   *)
(* processors every one makes one, and in the mode --once only the first   *)
(* one makes any.                                                          *)
(***************************************************************************)
EXTENDS Agent

MCLoad ==
  [m \in Modes |->
    [i \in 1..NumInputs |->
      IF i = 1 /\ m # "async" THEN MaxMetrics ELSE IF m = "once" THEN 0 ELSE 1]]
=============================================================================
