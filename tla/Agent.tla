-------------------------------- MODULE Agent --------------------------------
(***************************************************************************)
(* The agent (agent/agent.go): start-up plugin by plugin, any of which may *)
(* fail; the pipeline of goroutines joined by bounded channels; shutdown,  *)
(* in which every stage closes the channel of the next one when it is      *)
(* through.  In the mode --once inputs gather once and a service input     *)
(* that does not start is only logged.                                     *)
(*                                                                         *)
(* A metric is <<source, n>>: the n-th of an input or of an aggregator.    *)
(* Channels are named after the unit that reads them.  Sending on a closed *)
(* channel and closing one twice panic, as in Go.                          *)
(***************************************************************************)
EXTENDS Integers, Sequences, Functions

CONSTANTS NumInputs, NumProcessors, NumAggregators, NumAggProcessors,
          NumOutputs,
          ServiceInputs,    \* inputs that are service inputs
          StopWaits,        \* those whose Stop waits for metrics in flight
          Modes,            \* how the agent may be run, see mode
          ChanCap,          \* capacity of a channel, 100 in the code
          MaxMetrics,       \* bound on the metrics of one input
          Load,             \* bound on those of each input in each mode
          MaxPushes         \* bound on the pushes of one aggregator

ASSUME AgentAssumption ==
  /\ {NumProcessors, NumAggregators, NumAggProcessors, MaxMetrics, MaxPushes}
       \subseteq Nat
  /\ {NumInputs, NumOutputs, ChanCap} \subseteq Nat \ {0}
  /\ ServiceInputs \subseteq 1..NumInputs /\ StopWaits \subseteq ServiceInputs
  /\ Modes \subseteq {"run", "async", "once"}
  /\ Load \in [Modes -> [1..NumInputs -> 0..MaxMetrics]]

Inputs      == 1..NumInputs
Aggregators == 1..NumAggregators
Outputs     == 1..NumOutputs

VARIABLES
  mode,                     \* "run", "async" (processors may emit from
                            \* goroutines of their own) or "once" (--once)
  step,                     \* index in Plan of the next plugin to start
  phase,                    \* "starting", "running", "returned"; "unwinding"
                            \* while a failed start stops inputs, "failed"
  ctxDone,                  \* the context of Run is cancelled
  connected, closedOutputs, \* outputs connected, and closed
  svc,                      \* service inputs: new, running, failed, stopped
  inflight,                 \* a service input is about to send a metric
  stopped,                  \* service inputs Stop was called on
  pcG,                      \* gatherLoop of each input
  pcI,                      \* input to stop next, or 0 when runInputs is over
  made,                     \* metrics made by each input
  chan, closed,             \* contents of the channels, those closed
  pcP, procHand, kept,      \* processor units; kept is in the background
  fwPc, fwHand, fwDrop,     \* forwarder of runAggregators
  pcA,                      \* push goroutine of each aggregator
  aggSum, pushes,           \* metrics aggregated, pushes done
  aggClosed,                \* runAggregators is over
  pcO, got,                 \* runOutputs, and what it received
  dropped,                  \* metrics dropped on purpose
  panicked

startVars == <<mode, step, phase, connected, closedOutputs>>
inputVars == <<svc, inflight, stopped, pcG, pcI, made>>
procVars  == <<pcP, procHand, kept>>
aggVars   == <<fwPc, fwHand, fwDrop, pcA, aggSum, pushes, aggClosed>>
outVars   == <<pcO, got>>
chanVars  == <<chan, closed, panicked>>
vars == <<startVars, ctxDone, inputVars, procVars, aggVars, outVars, chanVars,
          dropped>>

-----------------------------------------------------------------------------
(* The units and channels that Run builds, from the outputs backwards. *)

OutC == <<"out", 0>>
AggC == <<"agg", 0>>

Units == {<<"ap", i>> : i \in 1..(IF NumAggregators = 0 THEN 0 ELSE NumAggProcessors)}
         \cup {<<"p", i>> : i \in 1..NumProcessors}

(* startProcessors: unit i of a chain writes to what unit i - 1 reads. *)
Src(u) == u
Dst(u) == IF u[2] > 1 THEN <<u[1], u[2] - 1>>
          ELSE IF u[1] = "p" /\ NumAggregators > 0 THEN AggC ELSE OutC

Channels == {OutC} \cup Units \cup (IF NumAggregators > 0 THEN {AggC} ELSE {})

(* What the aggregators and the inputs write to. *)
PushC  == IF NumAggProcessors > 0 THEN <<"ap", NumAggProcessors>> ELSE OutC
InputC == IF NumProcessors > 0 THEN <<"p", NumProcessors>>
          ELSE IF NumAggregators > 0 THEN AggC ELSE OutC

(* The order in which Run starts the plugins, after initPlugins. *)
Plan ==
  LET Row(kind, n) == [i \in 1..n |-> <<kind, i>>]
  IN <<<<"init", 0>>>> \o Row("output", NumOutputs)
     \o Row("ap", IF NumAggregators = 0 THEN 0 ELSE NumAggProcessors)
     \o Row("p", NumProcessors) \o Row("input", NumInputs)

Async   == mode = "async"
OneShot == mode = "once"

Init ==
  /\ mode \in Modes
  /\ step = 1 /\ phase = "starting" /\ ctxDone = FALSE
  /\ connected = {} /\ closedOutputs = {}
  /\ svc = [i \in Inputs |-> "new"] /\ inflight = [i \in Inputs |-> FALSE]
  /\ stopped = {} /\ made = [i \in Inputs |-> 0]
  /\ pcG = [i \in Inputs |-> IF OneShot THEN "gather" ELSE "loop"] /\ pcI = 1
  /\ chan = [c \in Channels |-> <<>>] /\ closed = {} /\ panicked = FALSE
  /\ pcP = [u \in Units |-> "off"]
  /\ procHand = [u \in Units |-> <<>>] /\ kept = [u \in Units |-> {}]
  /\ fwPc = "recv" /\ fwHand = <<>> /\ fwDrop = FALSE
  /\ pcA = [a \in Aggregators |-> "wait"]
  /\ aggSum = [a \in Aggregators |-> 0] /\ pushes = [a \in Aggregators |-> 0]
  /\ aggClosed = (NumAggregators = 0)
  /\ pcO = "recv" /\ got = <<>> /\ dropped = {}

-----------------------------------------------------------------------------
(* Go channels. *)

CanSend(c) == c \in closed \/ Len(chan[c]) < ChanCap

Send(c, m) ==
  /\ CanSend(c)
  /\ IF c \in closed THEN panicked' = TRUE /\ UNCHANGED chan
     ELSE chan' = [chan EXCEPT ![c] = Append(@, m)] /\ UNCHANGED panicked
  /\ UNCHANGED closed

Recv(c) ==
  /\ chan[c] # <<>>
  /\ chan' = [chan EXCEPT ![c] = Tail(@)]
  /\ UNCHANGED <<closed, panicked>>

(* "range c" ends. *)
Ended(c) == c \in closed /\ chan[c] = <<>>

Close(cs) ==
  /\ closed' = closed \cup cs
  /\ panicked' = (panicked \/ cs \cap closed # {})
  /\ UNCHANGED chan

-----------------------------------------------------------------------------
(* Start-up. *)

Starting(kind) == phase = "starting" /\ Plan[step][1] \in kind

StartNext ==
  /\ step' = step + 1 /\ UNCHANGED mode
  /\ phase' = IF step = Len(Plan) THEN "running" ELSE "starting"

StartOk ==
  /\ Starting({"init", "output", "ap", "p", "input"})
  /\ StartNext
  /\ LET x == Plan[step] IN
       /\ connected' = IF x[1] = "output" THEN connected \cup {x[2]} ELSE connected
       /\ pcP' = IF x \in Units THEN [pcP EXCEPT ![x] = "recv"] ELSE pcP
       /\ svc' = IF x[1] = "input" /\ x[2] \in ServiceInputs
                   THEN [svc EXCEPT ![x[2]] = "running"] ELSE svc
  /\ UNCHANGED <<closedOutputs, ctxDone, inflight, stopped, pcG, pcI, made,
                 procHand, kept, aggVars, outVars, chanVars, dropped>>

(* An Init error: nothing was started yet. *)
InitFails ==
  /\ Starting({"init"}) /\ phase' = "failed"
  /\ UNCHANGED <<mode, step, connected, closedOutputs, ctxDone, inputVars, procVars,
                 aggVars, outVars, chanVars, dropped>>

(* Connect failed, and failed again 15 s later or was cancelled meanwhile. *)
ClosedOnFailure_All == Outputs
ClosedOnFailure == connected

ConnectFails ==
  /\ Starting({"output"}) /\ phase' = "failed"
  /\ closedOutputs' = ClosedOnFailure
  /\ UNCHANGED <<mode, step, connected, ctxDone, inputVars, procVars, aggVars,
                 outVars, chanVars, dropped>>

(* startProcessors stops the units of the chain it has started and closes  *)
(* what they write to.                                                     *)
ProcessorFails ==
  /\ Starting({"ap", "p"}) /\ phase' = "failed"
  /\ LET us == {u \in Units : u[1] = Plan[step][1] /\ pcP[u] = "recv"}
     IN /\ pcP' = [u \in Units |-> IF u \in us THEN "done" ELSE pcP[u]]
        /\ Close({Dst(u) : u \in us})
  /\ UNCHANGED <<mode, step, connected, closedOutputs, ctxDone, inputVars, procHand,
                 kept, aggVars, outVars, dropped>>

(* stopServiceInputs stops the next input; Stop of some waits for metrics  *)
(* in flight.                                                              *)
StopNext ==
  /\ pcI' = pcI + 1
  /\ pcI \in StopWaits => ~inflight[pcI]
  /\ svc' = [svc EXCEPT ![pcI] = IF @ = "running" THEN "stopped" ELSE @]
  /\ stopped' = stopped \cup ({pcI} \cap ServiceInputs)
  /\ UNCHANGED <<inflight, pcG, made>>

(* startInputs stops the inputs it went through before the one that did    *)
(* not start.  Nothing reads the channel of the inputs meanwhile.          *)
InputFails ==
  /\ Starting({"input"}) /\ Plan[step][2] \in ServiceInputs /\ ~OneShot
  /\ phase' = "unwinding"
  /\ svc' = [svc EXCEPT ![Plan[step][2]] = "failed"]
  /\ UNCHANGED <<mode, step, connected, closedOutputs, ctxDone, inflight, stopped,
                 pcG, pcI, made, procVars, aggVars, outVars, chanVars, dropped>>

UnwindTo_All == Plan[step][2] + 1
UnwindTo == Plan[step][2]

UnwindStop ==
  /\ phase = "unwinding" /\ pcI < UnwindTo /\ StopNext
  /\ UNCHANGED <<startVars, ctxDone, procVars, aggVars, outVars, chanVars, dropped>>

UnwindEnd ==
  /\ phase = "unwinding" /\ pcI = UnwindTo /\ phase' = "failed"
  /\ UNCHANGED <<mode, step, connected, closedOutputs, ctxDone, inputVars, procVars,
                 aggVars, outVars, chanVars, dropped>>

(* testStartInputs logs the error and keeps the input all the same. *)
InputFailsLogged ==
  /\ Starting({"input"}) /\ Plan[step][2] \in ServiceInputs /\ OneShot
  /\ StartNext
  /\ svc' = [svc EXCEPT ![Plan[step][2]] = "failed"]
  /\ UNCHANGED <<connected, closedOutputs, ctxDone, inflight, stopped, pcG,
                 pcI, made, procVars, aggVars, outVars, chanVars, dropped>>

Cancel ==
  /\ ~ctxDone /\ phase \in {"starting", "unwinding", "running"}
  /\ ctxDone' = TRUE
  /\ UNCHANGED <<startVars, inputVars, procVars, aggVars, outVars, chanVars,
                 dropped>>

-----------------------------------------------------------------------------
(* Inputs. *)

InputOnly == UNCHANGED <<startVars, ctxDone, procVars, aggVars, outVars, dropped>>

(* The bound on metrics, counting those about to be sent. *)
Room(i) ==
  made[i] + ((IF inflight[i] THEN 1 ELSE 0) + (IF pcG[i] = "send" THEN 1 ELSE 0))
    < Load[mode][i]

Make(i) ==
  /\ made' = [made EXCEPT ![i] = @ + 1]
  /\ Send(InputC, <<i, made'[i]>>)

(* A service input sends from goroutines of its own, from Start on. *)
ServiceTake(i) ==
  /\ svc[i] = "running" /\ ~inflight[i] /\ Room(i)
  /\ inflight' = [inflight EXCEPT ![i] = TRUE]
  /\ UNCHANGED <<svc, stopped, pcG, pcI, made, chanVars>>
  /\ InputOnly

ServiceSend(i) ==
  /\ inflight[i] /\ inflight' = [inflight EXCEPT ![i] = FALSE]
  /\ Make(i)
  /\ UNCHANGED <<svc, stopped, pcG, pcI>>
  /\ InputOnly

(* gatherLoop: a tick starts a Gather and gatherOnce waits for it. *)
GatherStart(i) ==
  /\ phase = "running" /\ pcG[i] = "loop"
  /\ pcG' = [pcG EXCEPT ![i] = "gather"]
  /\ UNCHANGED <<svc, inflight, stopped, pcI, made, chanVars>>
  /\ InputOnly

(* Gather adds a metric, which has to wait while the channel is full. *)
GatherTake(i) ==
  /\ phase = "running" /\ pcG[i] = "gather" /\ Room(i)
  /\ pcG' = [pcG EXCEPT ![i] = "send"]
  /\ UNCHANGED <<svc, inflight, stopped, pcI, made, chanVars>>
  /\ InputOnly

GatherSend(i) ==
  /\ phase = "running" /\ pcG[i] = "send"
  /\ pcG' = [pcG EXCEPT ![i] = "gather"]
  /\ Make(i)
  /\ UNCHANGED <<svc, inflight, stopped, pcI>>
  /\ InputOnly

GatherReturn(i) ==
  /\ phase = "running" /\ pcG[i] = "gather"
  /\ pcG' = [pcG EXCEPT ![i] = IF OneShot THEN "returned" ELSE "loop"]
  /\ UNCHANGED <<svc, inflight, stopped, pcI, made, chanVars>>
  /\ InputOnly

GatherStop_Break(i) ==
  /\ phase = "running" /\ pcG[i] = "loop" /\ ctxDone
  /\ UNCHANGED vars

GatherStop(i) ==
  /\ phase = "running" /\ pcG[i] = "loop" /\ ctxDone
  /\ pcG' = [pcG EXCEPT ![i] = "returned"]
  /\ UNCHANGED <<svc, inflight, stopped, pcI, made, chanVars>>
  /\ InputOnly

(* runInputs, testRunInputs: when all Gathers are over, stop the service   *)
(* inputs in order, then close the channel.                                *)
GathersOver == \A i \in Inputs : pcG[i] = "returned"

StopInput ==
  /\ phase = "running" /\ GathersOver
  /\ pcI \in Inputs /\ StopNext
  /\ UNCHANGED chanVars
  /\ InputOnly

CloseInputs ==
  /\ pcI = NumInputs + 1 /\ pcI' = 0
  /\ Close({InputC})
  /\ UNCHANGED <<svc, inflight, stopped, pcG, made>>
  /\ InputOnly

-----------------------------------------------------------------------------
(* Processors: runProcessors, one goroutine per unit. *)

ProcOnly == UNCHANGED <<startVars, ctxDone, inputVars, aggVars, outVars>>

(* The unit passes the metric on, drops it, or keeps it for the background. *)
ProcPass_Go(u) ==
  /\ phase = "running" /\ pcP[u] = "recv" /\ Recv(Src(u))
  /\ kept' = [kept EXCEPT ![u] = @ \cup {Head(chan[Src(u)])}]
  /\ UNCHANGED <<pcP, procHand, dropped>>
  /\ ProcOnly

ProcPass(u) ==
  /\ phase = "running" /\ pcP[u] = "recv" /\ Recv(Src(u))
  /\ pcP' = [pcP EXCEPT ![u] = "emit"]
  /\ procHand' = [procHand EXCEPT ![u] = Head(chan[Src(u)])]
  /\ UNCHANGED <<kept, dropped>>
  /\ ProcOnly

ProcDrop(u) ==
  /\ phase = "running" /\ pcP[u] = "recv" /\ Recv(Src(u))
  /\ dropped' = dropped \cup {Head(chan[Src(u)])}
  /\ UNCHANGED procVars
  /\ ProcOnly

ProcKeep(u) ==
  /\ Async
  /\ phase = "running" /\ pcP[u] = "recv" /\ Recv(Src(u))
  /\ kept' = [kept EXCEPT ![u] = @ \cup {Head(chan[Src(u)])}]
  /\ UNCHANGED <<pcP, procHand, dropped>>
  /\ ProcOnly

ProcEmit(u) ==
  /\ pcP[u] = "emit" /\ Send(Dst(u), procHand[u])
  /\ pcP' = [pcP EXCEPT ![u] = "recv"]
  /\ procHand' = [procHand EXCEPT ![u] = <<>>]
  /\ UNCHANGED <<kept, dropped>>
  /\ ProcOnly

ProcBackground(u) ==
  /\ \E m \in kept[u] : /\ Send(Dst(u), m)
                        /\ kept' = [kept EXCEPT ![u] = @ \ {m}]
  /\ UNCHANGED <<pcP, procHand, dropped>>
  /\ ProcOnly

(* The source is closed and read to its end: Stop, which waits for what is *)
(* in the background, and then close.                                      *)
StopWaitsFor(u) == kept[u] = {}

ProcStop(u) ==
  /\ phase = "running" /\ pcP[u] = "recv" /\ Ended(Src(u)) /\ StopWaitsFor(u)
  /\ pcP' = [pcP EXCEPT ![u] = "close"]
  /\ UNCHANGED <<procHand, kept, chanVars, dropped>>
  /\ ProcOnly

ClosedBy(u) == {Dst(u)}

ProcClose(u) ==
  /\ pcP[u] = "close" /\ Close(ClosedBy(u))
  /\ pcP' = [pcP EXCEPT ![u] = "done"]
  /\ UNCHANGED <<procHand, kept, dropped>>
  /\ ProcOnly

-----------------------------------------------------------------------------
(* Aggregators: the forwarder adds each metric to every aggregator and     *)
(* passes on the original.  Push holds the aggregator's lock while it      *)
(* sends, so Add has to wait for it.                                       *)

AggOnly == UNCHANGED <<startVars, ctxDone, inputVars, procVars, outVars>>

Unlocked(a) == pcA[a] \in {"wait", "done"}

FwRecv ==
  /\ phase = "running" /\ NumAggregators > 0
  /\ fwPc = "recv" /\ Recv(AggC)
  /\ fwPc' = "add" /\ fwHand' = <<Head(chan[AggC]), 1>> /\ fwDrop' = FALSE
  /\ UNCHANGED <<pcA, aggSum, pushes, aggClosed, dropped>>
  /\ AggOnly

(* RunningAggregator.Add: the metric is aggregated unless the filter or    *)
(* the window refuse it; with drop_original it is not passed on.           *)
FwAdd(taken, dropOriginal) ==
  /\ fwPc = "add"
  /\ LET a == fwHand[2] IN
       /\ Unlocked(a)
       /\ aggSum' = IF taken THEN [aggSum EXCEPT ![a] = @ + 1] ELSE aggSum
       /\ fwHand' = <<fwHand[1], a + 1>>
       /\ fwPc' = IF a = NumAggregators THEN "send" ELSE "add"
  /\ fwDrop' = (fwDrop \/ dropOriginal)
  /\ UNCHANGED <<pcA, pushes, aggClosed, chanVars, dropped>>
  /\ AggOnly

FwSend ==
  /\ fwPc = "send" /\ ~fwDrop /\ Send(OutC, fwHand[1])
  /\ fwPc' = "recv" /\ fwHand' = <<>>
  /\ UNCHANGED <<fwDrop, pcA, aggSum, pushes, aggClosed, dropped>>
  /\ AggOnly

FwDropped ==
  /\ fwPc = "send" /\ fwDrop
  /\ dropped' = dropped \cup {fwHand[1]}
  /\ fwPc' = "recv" /\ fwHand' = <<>> /\ fwDrop' = FALSE
  /\ UNCHANGED <<pcA, aggSum, pushes, aggClosed, chanVars>>
  /\ AggOnly

(* The source ended: cancel the context of the push goroutines. *)
FwCancel ==
  /\ phase = "running" /\ NumAggregators > 0 /\ fwPc = "recv" /\ Ended(AggC)
  /\ fwPc' = "done"
  /\ UNCHANGED <<fwHand, fwDrop, pcA, aggSum, pushes, aggClosed, chanVars, dropped>>
  /\ AggOnly

(* push: the period is over, or the context is done and this is the last.  *)
LastPush_Skipped == "done"
LastPush == "lastpush"

PushPeriod(a) ==
  /\ phase = "running" /\ pcA[a] = "wait" /\ pushes[a] < MaxPushes
  /\ pcA' = [pcA EXCEPT ![a] = "push"]
  /\ pushes' = [pushes EXCEPT ![a] = @ + 1]
  /\ UNCHANGED <<fwPc, fwHand, fwDrop, aggSum, aggClosed, chanVars, dropped>>
  /\ AggOnly

PushLast(a) ==
  /\ pcA[a] = "wait" /\ fwPc = "done"
  /\ pcA' = [pcA EXCEPT ![a] = LastPush]
  /\ pushes' = [pushes EXCEPT ![a] = @ + 1]
  /\ UNCHANGED <<fwPc, fwHand, fwDrop, aggSum, aggClosed, chanVars, dropped>>
  /\ AggOnly

PushSend(a) ==
  /\ pcA[a] \in {"push", "lastpush"} /\ aggSum[a] > 0
  /\ Send(PushC, <<NumInputs + a, pushes[a]>>)
  /\ aggSum' = [aggSum EXCEPT ![a] = 0]
  /\ UNCHANGED <<fwPc, fwHand, fwDrop, pcA, pushes, aggClosed, dropped>>
  /\ AggOnly

PushEnd(a) ==
  /\ pcA[a] \in {"push", "lastpush"} /\ aggSum[a] = 0
  /\ pcA' = [pcA EXCEPT ![a] = IF @ = "push" THEN "wait" ELSE "done"]
  /\ UNCHANGED <<fwPc, fwHand, fwDrop, aggSum, pushes, aggClosed, chanVars, dropped>>
  /\ AggOnly

(* runAggregators waits for the forwarder and all push goroutines. *)
AggregatorsOver_Forwarder == fwPc = "done"
AggregatorsOver == fwPc = "done" /\ \A a \in Aggregators : pcA[a] = "done"

CloseAggregators ==
  /\ ~aggClosed /\ aggClosed' = TRUE
  /\ AggregatorsOver
  /\ Close({PushC})
  /\ UNCHANGED <<fwPc, fwHand, fwDrop, pcA, aggSum, pushes, dropped>>
  /\ AggOnly

-----------------------------------------------------------------------------
(* runOutputs, whose flush loops are in module RunningOutput, and Run. *)

OutRecv ==
  /\ phase = "running" /\ pcO = "recv" /\ Recv(OutC)
  /\ got' = Append(got, Head(chan[OutC]))
  /\ UNCHANGED <<startVars, ctxDone, inputVars, procVars, aggVars, pcO, dropped>>

OutDone ==
  /\ phase = "running" /\ pcO = "recv" /\ Ended(OutC)
  /\ pcO' = "done"
  /\ UNCHANGED <<startVars, ctxDone, inputVars, procVars, aggVars, got,
                 chanVars, dropped>>

(* The wait group of Run: every stage is over. *)
OutputsOver == pcO = "done"

RunReturn ==
  /\ phase = "running" /\ phase' = "returned"
  /\ pcI = 0 /\ aggClosed /\ OutputsOver
  /\ \A u \in Units : pcP[u] = "done"
  /\ UNCHANGED <<mode, step, connected, closedOutputs, ctxDone, inputVars, procVars,
                 aggVars, outVars, chanVars, dropped>>

(* A failed start hangs: Stop waits for a metric in flight, which waits    *)
(* for room in a channel that nobody reads.                                *)
Wedged ==
  /\ phase = "unwinding" /\ pcI \in StopWaits
  /\ inflight[pcI] /\ ~CanSend(InputC)

Over == (phase \in {"returned", "failed"} \/ Wedged) /\ UNCHANGED vars

Startup == StartOk \/ InitFails \/ ConnectFails \/ ProcessorFails
           \/ InputFails \/ InputFailsLogged \/ UnwindStop \/ UnwindEnd

Sending(i)    == ServiceSend(i) \/ GatherSend(i)
Stopping      == StopInput \/ CloseInputs \/ RunReturn \/ OutDone
Processing(u) == ProcPass(u) \/ ProcDrop(u) \/ ProcKeep(u) \/ ProcEmit(u)
                 \/ ProcStop(u) \/ ProcClose(u)
Forwarding    == \/ FwRecv \/ FwSend \/ FwDropped \/ FwCancel \/ CloseAggregators
                 \/ \E taken, drop \in BOOLEAN : FwAdd(taken, drop)
Pushing(a)    == PushSend(a) \/ PushEnd(a)

Next ==
  \/ Startup \/ Cancel \/ Stopping \/ Forwarding \/ OutRecv \/ Over
  \/ \E i \in Inputs : \/ ServiceTake(i) \/ Sending(i) \/ GatherStart(i)
                       \/ GatherTake(i) \/ GatherReturn(i) \/ GatherStop(i)
  \/ \E u \in Units : Processing(u) \/ ProcBackground(u)
  \/ \E a \in Aggregators : PushPeriod(a) \/ PushLast(a) \/ Pushing(a)

Spec == Init /\ [][Next]_vars

(* Goroutines run; Gather, Add and Push return; a select that finds the    *)
(* context done again and again takes that case.                           *)
FairSpec ==
  /\ Spec
  /\ WF_vars(Startup) /\ WF_vars(Stopping) /\ WF_vars(Forwarding) /\ WF_vars(OutRecv)
  /\ \A i \in Inputs : /\ WF_vars(ServiceSend(i)) /\ WF_vars(GatherSend(i))
                       /\ WF_vars(GatherReturn(i)) /\ SF_vars(GatherStop(i))
  /\ \A u \in Units : WF_vars(Processing(u)) /\ WF_vars(ProcBackground(u))
  /\ \A a \in Aggregators : SF_vars(PushLast(a)) /\ WF_vars(Pushing(a))

-----------------------------------------------------------------------------
Metrics == (1..NumInputs + NumAggregators) \X (1..MaxMetrics + MaxPushes + 1)

(* Plugins and goroutines are in states the code has, Run closes only      *)
(* outputs it connected, no channel holds more than its capacity, and what *)
(* is received was made by somebody.                                       *)
TypeOK ==
  /\ mode \in Modes /\ step \in 1..Len(Plan) + 1
  /\ phase \in {"starting", "unwinding", "running", "returned", "failed"}
  /\ closedOutputs \subseteq connected /\ connected \subseteq Outputs
  /\ svc \in [Inputs -> {"new", "running", "failed", "stopped"}]
  /\ pcI \in 0..NumInputs + 1
  /\ \A c \in Channels : Len(chan[c]) <= ChanCap /\ Range(chan[c]) \subseteq Metrics
  /\ pcP \in [Units -> {"off", "recv", "emit", "close", "done"}]
  /\ pcA \in [Aggregators -> {"wait", "push", "lastpush", "done"}]
  /\ Range(got) \cup dropped \subseteq Metrics

(* No goroutine sends on a closed channel and none closes one twice: each  *)
(* stage is through before it closes, also when a start-up failure closes  *)
(* part of the chain, and also where the originals and the aggregates meet *)
(* in one channel.                                                         *)
NoPanic == ~panicked

(* When Run returns, every metric an input made was received by runOutputs *)
(* or dropped on purpose, every aggregate was pushed, and every service    *)
(* input and processor was stopped.                                        *)
DrainedOnReturn ==
  phase = "returned" =>
    /\ \A i \in Inputs, n \in 1..MaxMetrics :
         n <= made[i] => <<i, n>> \in Range(got) \cup dropped
    /\ \A a \in Aggregators : aggSum[a] = 0
    /\ \A c \in Channels : Ended(c)
    /\ stopped = ServiceInputs

(* With processors that work in step, the metrics of one input, and those  *)
(* of one aggregator, reach the outputs in the order they were made.       *)
SourceOrderKept ==
  ~Async => \A j, k \in DOMAIN got :
    j < k /\ got[j][1] = got[k][1] => got[j][2] < got[k][2]

(* When Run returns the error of a plugin that did not start, no service   *)
(* input is left running and none whose Stop waits is about to send; the   *)
(* one that did not start was not stopped (startInputs).                   *)
FailedStartQuiet ==
  phase = "failed" =>
    \A i \in ServiceInputs :
      /\ svc[i] # "running" /\ (i \in StopWaits => ~inflight[i])
      /\ svc[i] = "failed" => i \notin stopped

(* After cancellation Run returns, with a value or with the error of a     *)
(* plugin that did not start.  The one exception is a start-up failure     *)
(* that finds the channel of the inputs full: stopServiceInputs then waits *)
(* for an input that waits for room in it, for ever.                       *)
CancelReturns == ctxDone ~> phase \in {"returned", "failed"} \/ Wedged

(* What cua/input.go says of Stop: metrics are not written to the          *)
(* accumulator once Stop returns.                                          *)
SilentAfterStop == \A i \in ServiceInputs : svc[i] = "stopped" => ~inflight[i]
=============================================================================
