------------------------------- MODULE Reload -------------------------------
(***************************************************************************)
(* The life of the process: reloadLoop and runAgent of                     *)
(* cmd/circonus-unified-agent.  Each pass of the loop is a generation with *)
(* a context, a channel for signals and a goroutine that takes one signal. *)
(* The channels of earlier generations stay registered with the signal     *)
(* package and nobody reads them any more.                                 *)
(***************************************************************************)
EXTENDS Integers, Sequences

CONSTANT MaxReloads   \* bound on the SIGHUPs sent to the process

Gens == 1..(MaxReloads + 1)

VARIABLES
  pcM,           \* reloadLoop
  gen,           \* generations started
  reload,        \* channel of capacity one, holds the flag
  signals,       \* per generation, its channel of capacity one
  listener,      \* per generation, the goroutine that listens
  cancelled,     \* generations whose context is cancelled
  once,          \* the agent runs with --once
  hups           \* SIGHUPs sent so far

vars == <<pcM, gen, reload, signals, listener, cancelled, once, hups>>

Init ==
  /\ pcM = "loop" /\ gen = 0 /\ reload = <<TRUE>>
  /\ signals = [g \in Gens |-> <<>>] /\ listener = [g \in Gens |-> "none"]
  /\ cancelled = {} /\ once \in BOOLEAN /\ hups = 0

Alive == pcM \notin {"exited", "fatal"}

-----------------------------------------------------------------------------
(* reloadLoop: "for <-reload { reload <- false; ... }". *)
LoopTest ==
  /\ pcM = "loop" /\ reload # <<>> /\ reload' = <<>>
  /\ pcM' = IF reload[1] THEN "put" ELSE "exited"
  /\ UNCHANGED <<gen, signals, listener, cancelled, once, hups>>

PutFlag(flag) == reload = <<>> /\ reload' = <<flag>>

LoopPut ==
  /\ pcM = "put" /\ pcM' = "listen"
  /\ PutFlag(FALSE)
  /\ UNCHANGED <<gen, signals, listener, cancelled, once, hups>>

LoopListen ==
  /\ pcM = "listen" /\ pcM' = "load"
  /\ gen' = gen + 1
  /\ listener' = [listener EXCEPT ![gen'] = "select"]
  /\ UNCHANGED <<reload, signals, cancelled, once, hups>>

(* runAgent loads the configuration; then the agent starts its plugins.    *)
LoadConfig ==
  /\ pcM = "load" /\ pcM' = "start"
  /\ UNCHANGED <<gen, reload, signals, listener, cancelled, once, hups>>

AgentStarts ==
  /\ pcM = "start" /\ pcM' = "run"
  /\ UNCHANGED <<gen, reload, signals, listener, cancelled, once, hups>>

(* Run returns because it was cancelled, while it connected the outputs or *)
(* later, or Once is through.                                              *)
AgentReturns ==
  /\ \/ pcM \in {"start", "run"} /\ gen \in cancelled
     \/ pcM = "run" /\ once
  /\ pcM' = "loop"
  /\ UNCHANGED <<gen, reload, signals, listener, cancelled, once, hups>>

(* runAgent returns another error, and log.Fatalf ends the process.        *)
RunFails ==
  /\ pcM \in {"load", "start"} \/ (pcM = "run" /\ once)
  /\ pcM' = "fatal"
  /\ UNCHANGED <<gen, reload, signals, listener, cancelled, once, hups>>

-----------------------------------------------------------------------------
(* The operating system sends a signal: every registered channel that has  *)
(* room takes it.                                                          *)
Registered(g) == listener[g] # "none"

Signal(s) ==
  /\ Alive /\ gen > 0
  /\ s = "HUP" => hups < MaxReloads
  /\ hups' = IF s = "HUP" THEN hups + 1 ELSE hups
  /\ signals' = [g \in Gens |-> IF Registered(g) /\ signals[g] = <<>>
                                  THEN <<s>> ELSE signals[g]]
  /\ UNCHANGED <<pcM, gen, reload, listener, cancelled, once>>

(* The listener of generation g.                                           *)
ListenTake_Give(g) ==
  /\ Alive /\ listener[g] = "select" /\ signals[g] # <<>>
  /\ signals' = [signals EXCEPT ![g] = <<>>]
  /\ listener' = [listener EXCEPT ![g] = IF signals[g][1] = "HUP" THEN "give"
                                                                  ELSE "cancel"]
  /\ UNCHANGED <<pcM, gen, reload, cancelled, once, hups>>

ListenTake_Any(g) ==
  /\ Alive /\ listener[g] = "select" /\ signals[g] # <<>>
  /\ signals' = [signals EXCEPT ![g] = <<>>]
  /\ listener' = [listener EXCEPT ![g] = "take"]
  /\ UNCHANGED <<pcM, gen, reload, cancelled, once, hups>>

ListenTake(g) ==
  /\ Alive /\ listener[g] = "select" /\ signals[g] # <<>>
  /\ signals' = [signals EXCEPT ![g] = <<>>]
  /\ listener' = [listener EXCEPT ![g] = IF signals[g][1] = "HUP" THEN "take"
                                                                  ELSE "cancel"]
  /\ UNCHANGED <<pcM, gen, reload, cancelled, once, hups>>

ListenFlag(g) ==
  /\ Alive /\ listener[g] = "take" /\ reload # <<>>
  /\ reload' = <<>>
  /\ listener' = [listener EXCEPT ![g] = "give"]
  /\ UNCHANGED <<pcM, gen, signals, cancelled, once, hups>>

ListenSet_False(g) ==
  /\ Alive /\ listener[g] = "give"
  /\ PutFlag(FALSE)
  /\ listener' = [listener EXCEPT ![g] = "cancel"]
  /\ UNCHANGED <<pcM, gen, signals, cancelled, once, hups>>

ListenSet(g) ==
  /\ Alive /\ listener[g] = "give"
  /\ PutFlag(TRUE)
  /\ listener' = [listener EXCEPT ![g] = "cancel"]
  /\ UNCHANGED <<pcM, gen, signals, cancelled, once, hups>>

ListenCancel(g) ==
  /\ Alive /\ listener[g] = "cancel"
  /\ cancelled' = cancelled \cup {g}
  /\ listener' = [listener EXCEPT ![g] = "done"]
  /\ UNCHANGED <<pcM, gen, reload, signals, once, hups>>

Listen(g) == ListenTake(g) \/ ListenFlag(g) \/ ListenSet(g) \/ ListenCancel(g)
Loop == LoopTest \/ LoopPut \/ LoopListen \/ LoadConfig \/ AgentStarts

Next ==
  \/ Loop \/ AgentReturns \/ RunFails
  \/ \E s \in {"HUP", "TERM"} : Signal(s)
  \/ \E g \in Gens : Listen(g)

Spec == Init /\ [][Next]_vars

(* The scheduler runs every goroutine that can run.  Run returns after it  *)
(* is cancelled: property CancelReturns of Agent.                          *)
FairSpec ==
  /\ Spec /\ WF_vars(Loop \/ AgentReturns)
  /\ \A g \in Gens : WF_vars(Listen(g))

-----------------------------------------------------------------------------
(* The flag is in one place: in the channel, or in the hands of the loop   *)
(* or of one listener, and only the listener of the latest generation may  *)
(* still be after it.  So neither side blocks for ever on the channel, and *)
(* no late listener turns the end of the process into a reload.            *)
B2N(b) == IF b THEN 1 ELSE 0
AfterFlag(g) == listener[g] \in {"select", "take", "give"}
FlagInOnePlace ==
  Alive =>
    /\ Len(reload) + B2N(pcM = "put")
         + B2N(\E g \in Gens : listener[g] = "give") = 1
    /\ \A g \in Gens : AfterFlag(g) => g = gen

(* A signal to stop that the listener of the running agent gets to see     *)
(* ends the process.                                                       *)
Heard(g, s) == gen = g /\ listener[g] = "select" /\ signals[g] = <<s>>
StopHonoured == \A g \in Gens : Heard(g, "TERM") ~> ~Alive

(* A SIGHUP that it gets to see starts another generation, unless the      *)
(* agent fails before, or is through because it runs --once.               *)
ReloadHonoured ==
  \A g \in Gens : Heard(g, "HUP") /\ ~once ~> gen > g \/ pcM = "fatal"
=============================================================================
