----------------------------- MODULE AgentProofs ----------------------------
(***************************************************************************)
(* The agent's pipeline with any number of inputs, processors, aggregators *)
(* and outputs and any channel capacity.                                   *)
(*                                                                         *)
(* The safety invariants of Agent rest on one another: the types of each   *)
(* part; what start-up leaves untouched until everything is started; the   *)
(* order in which the stages end and close their channels, from which no   *)
(* send meets a closed channel; and that every metric made is in some      *)
(* place, from which nothing is left when Run returns.                     *)
(***************************************************************************)
EXTENDS Agent, SequenceTheorems, TLAPS

-----------------------------------------------------------------------------
(* Start-up follows a plan. *)

(* The order in which plugins start, as a number for each. *)
AggUnits == IF NumAggregators = 0 THEN 0 ELSE NumAggProcessors

OutEnd  == 1 + NumOutputs
ApEnd   == OutEnd + AggUnits
ProcEnd == ApEnd + NumProcessors
PlanEnd == ProcEnd + NumInputs

(* The plugin that start-up step k starts. *)
PlanAt(k) ==
  IF k <= 1 THEN <<"init", 0>>
  ELSE IF k <= OutEnd THEN <<"output", k - 1>>
  ELSE IF k <= ApEnd THEN <<"ap", k - OutEnd>>
  ELSE IF k <= ProcEnd THEN <<"p", k - ApEnd>>
  ELSE <<"input", k - ProcEnd>>

(* The kinds of the plan's rows. *)
Kinds == {"init", "output", "ap", "p", "input"}

(* The n plugins of a kind, in their order. *)
PlanRow(kind, n) == [i \in 1..n |-> <<kind, i>>]

(* A row of the plan is the sequence of its plugins. *)
LEMMA RowSeq == ASSUME NEW kind \in Kinds, NEW n \in Nat
  PROVE  /\ PlanRow(kind, n) \in Seq(Kinds \X Nat)
         /\ Len(PlanRow(kind, n)) = n
         /\ \A i \in 1..n : PlanRow(kind, n)[i] = <<kind, i>>
<1>0. \A i \in 1..n : <<kind, i>> \in Kinds \X Nat
  OBVIOUS
<1>1. PlanRow(kind, n) \in [1..n -> Kinds \X Nat]
  BY <1>0 DEF PlanRow
<1>2. DOMAIN PlanRow(kind, n) = 1..n
  BY DEF PlanRow
<1>3. PlanRow(kind, n) \in Seq(Kinds \X Nat)
  BY <1>1, SeqDef
<1>4. Len(PlanRow(kind, n)) = n
  BY <1>2, <1>3, LenProperties
<1>5. \A i \in 1..n : PlanRow(kind, n)[i] = <<kind, i>>
  BY DEF PlanRow
<1> QED
  BY <1>3, <1>4, <1>5, Zenon

(* The plan begins with initPlugins. *)
LEMMA FirstRow ==
  LET s == <<<<"init", 0>>>>
  IN s \in Seq(Kinds \X Nat) /\ Len(s) = 1 /\ s[1] = <<"init", 0>>
<1> DEFINE s == <<<<"init", 0>>>>
<1>1. <<"init", 0>> \in Kinds \X Nat
  BY DEF Kinds
<1>2. s \in [1..1 -> Kinds \X Nat]
  BY <1>1
<1> QED BY <1>1, <1>2

(* Appending a row leaves what is before it alone. *)
LEMMA GrowPlan ==
  ASSUME NEW s \in Seq(Kinds \X Nat), NEW kind \in Kinds, NEW n \in Nat
  PROVE  \E p \in Seq(Kinds \X Nat) :
           /\ p = s \o PlanRow(kind, n)
           /\ Len(p) = Len(s) + n
           /\ \A k \in 1..Len(p) :
                p[k] = IF k <= Len(s) THEN s[k] ELSE <<kind, k - Len(s)>>
<1>1. PICK r \in Seq(Kinds \X Nat) :
        r = PlanRow(kind, n) /\ Len(r) = n /\ \A i \in 1..n : r[i] = <<kind, i>>
  BY RowSeq, Zenon
<1>2. /\ s \o r \in Seq(Kinds \X Nat)
      /\ Len(s \o r) = Len(s) + Len(r)
      /\ \A k \in 1..(Len(s) + Len(r)) :
           (s \o r)[k] = IF k <= Len(s) THEN s[k] ELSE r[k - Len(s)]
  BY ConcatProperties
<1>3. PICK l \in Nat : l = Len(s)
  BY LenProperties
<1>4. ASSUME NEW k \in 1..(l + n), ~(k <= l) PROVE k - l \in 1..n
  BY <1>4
<1>5. \A k \in 1..(l + n) : (s \o r)[k] = IF k <= l THEN s[k] ELSE <<kind, k - l>>
  BY <1>1, <1>2, <1>3, <1>4, Zenon
<1>6. s \o r = s \o PlanRow(kind, n)
  BY <1>1
<1>7. Len(s \o r) = l + n
  BY <1>1, <1>2, <1>3
<1> QED
  BY <1>2, <1>3, <1>5, <1>6, <1>7, Zenon

(* The kinds of plugins follow one another in the plan. *)
LEMMA PlanEnds ==
  /\ OutEnd \in Nat /\ ApEnd \in Nat /\ ProcEnd \in Nat /\ PlanEnd \in Nat
  /\ 1 <= OutEnd /\ OutEnd <= ApEnd /\ ApEnd <= ProcEnd /\ ProcEnd < PlanEnd
  /\ OutEnd = 1 + NumOutputs /\ ApEnd = OutEnd + AggUnits
  /\ ProcEnd = ApEnd + NumProcessors /\ PlanEnd = ProcEnd + NumInputs
  /\ NumOutputs \in Nat /\ AggUnits \in Nat /\ NumProcessors \in Nat
  /\ NumInputs \in Nat
<1>1. /\ NumOutputs \in Nat /\ AggUnits \in Nat /\ NumProcessors \in Nat
      /\ NumInputs \in Nat \ {0}
  BY AgentAssumption DEF AggUnits
<1> QED
  BY <1>1 DEF OutEnd, ApEnd, ProcEnd, PlanEnd

(* Row k of the plan is what PlanAt says. *)
LEMMA PlanRows ==
  Len(Plan) = PlanEnd /\ \A k \in 1..PlanEnd : Plan[k] = PlanAt(k)
<1> DEFINE T == Kinds \X Nat
<1>1. "output" \in Kinds /\ "ap" \in Kinds /\ "p" \in Kinds /\ "input" \in Kinds
  BY DEF Kinds
<1>2. PICK p1 \in Seq(T) :
        p1 = <<<<"init", 0>>>> /\ Len(p1) = 1 /\ p1[1] = <<"init", 0>>
  BY FirstRow, Zenon
<1>3. \A k \in 1..1 : p1[k] = PlanAt(k)
  <2>1. \A k \in 1..1 : k = 1
    OBVIOUS
  <2>2. p1[1] = PlanAt(1)
    BY <1>2 DEF PlanAt
  <2> QED
    BY <2>1, <2>2
<1>0. NumOutputs \in Nat /\ AggUnits \in Nat /\ NumProcessors \in Nat /\ NumInputs \in Nat
  BY PlanEnds
<1> HIDE DEF T
<1>4. PICK p2 \in Seq(T) :
        /\ p2 = p1 \o PlanRow("output", NumOutputs)
        /\ Len(p2) = OutEnd
        /\ \A k \in 1..OutEnd : p2[k] = PlanAt(k)
  <2>1. PICK p \in Seq(T) :
          /\ p = p1 \o PlanRow("output", NumOutputs)
          /\ Len(p) = Len(p1) + NumOutputs
          /\ \A k \in 1..Len(p) :
               p[k] = IF k <= Len(p1) THEN p1[k] ELSE <<"output", k - Len(p1)>>
    BY <1>0, <1>1, GrowPlan, Zenon DEF T
  <2>2. Len(p) = OutEnd
    BY PlanEnds, <1>2, <1>3, <2>1, Zenon
  <2>3. \A k \in 1..OutEnd :
          p[k] = IF k <= 1 THEN p1[k] ELSE <<"output", k - 1>>
    BY <1>2, <1>3, <2>1, <2>2, Zenon
  <2>4. ASSUME NEW k \in 1..OutEnd PROVE p[k] = PlanAt(k)
    <3>1. CASE k <= 1
      <4>1. k \in 1..1
        BY PlanEnds, <3>1
      <4> QED
        BY <1>2, <1>3, <2>3, <3>1, <4>1, Zenon
    <3>2. CASE ~(k <= 1)
      <4>1. k <= OutEnd
        BY PlanEnds
      <4> QED
        BY <2>3, <3>2, <4>1, Zenon DEF PlanAt
    <3> QED
      BY <3>1, <3>2
  <2> QED
    BY <2>1, <2>2, <2>4, Zenon
<1>5. PICK p3 \in Seq(T) :
        /\ p3 = p2 \o PlanRow("ap", AggUnits)
        /\ Len(p3) = ApEnd
        /\ \A k \in 1..ApEnd : p3[k] = PlanAt(k)
  <2>1. PICK p \in Seq(T) :
          /\ p = p2 \o PlanRow("ap", AggUnits)
          /\ Len(p) = Len(p2) + AggUnits
          /\ \A k \in 1..Len(p) :
               p[k] = IF k <= Len(p2) THEN p2[k] ELSE <<"ap", k - Len(p2)>>
    BY <1>0, <1>1, GrowPlan, Zenon DEF T
  <2>2. Len(p) = ApEnd
    BY PlanEnds, <1>4, <2>1, Zenon
  <2>3. \A k \in 1..ApEnd :
          p[k] = IF k <= OutEnd THEN p2[k] ELSE <<"ap", k - OutEnd>>
    BY <1>4, <2>1, <2>2, Zenon
  <2>4. ASSUME NEW k \in 1..ApEnd PROVE p[k] = PlanAt(k)
    <3>1. CASE k <= OutEnd
      <4>1. k \in 1..OutEnd
        BY PlanEnds, <3>1
      <4> QED
        BY <1>4, <2>3, <3>1, <4>1, Zenon
    <3>2. CASE ~(k <= OutEnd)
      <4>1. ~(k <= 1) /\ k <= ApEnd
        BY PlanEnds, <3>2
      <4> QED
        BY <2>3, <3>2, <4>1, Zenon DEF PlanAt
    <3> QED
      BY <3>1, <3>2
  <2> QED
    BY <2>1, <2>2, <2>4, Zenon
<1>6. PICK p4 \in Seq(T) :
        /\ p4 = p3 \o PlanRow("p", NumProcessors)
        /\ Len(p4) = ProcEnd
        /\ \A k \in 1..ProcEnd : p4[k] = PlanAt(k)
  <2>1. PICK p \in Seq(T) :
          /\ p = p3 \o PlanRow("p", NumProcessors)
          /\ Len(p) = Len(p3) + NumProcessors
          /\ \A k \in 1..Len(p) :
               p[k] = IF k <= Len(p3) THEN p3[k] ELSE <<"p", k - Len(p3)>>
    BY <1>0, <1>1, GrowPlan, Zenon DEF T
  <2>2. Len(p) = ProcEnd
    BY PlanEnds, <1>5, <2>1, Zenon
  <2>3. \A k \in 1..ProcEnd :
          p[k] = IF k <= ApEnd THEN p3[k] ELSE <<"p", k - ApEnd>>
    BY <1>5, <2>1, <2>2, Zenon
  <2>4. ASSUME NEW k \in 1..ProcEnd PROVE p[k] = PlanAt(k)
    <3>1. CASE k <= ApEnd
      <4>1. k \in 1..ApEnd
        BY PlanEnds, <3>1
      <4> QED
        BY <1>5, <2>3, <3>1, <4>1, Zenon
    <3>2. CASE ~(k <= ApEnd)
      <4>1. ~(k <= 1) /\ ~(k <= OutEnd) /\ k <= ProcEnd
        BY PlanEnds, <3>2
      <4> QED
        BY <2>3, <3>2, <4>1, Zenon DEF PlanAt
    <3> QED
      BY <3>1, <3>2
  <2> QED
    BY <2>1, <2>2, <2>4, Zenon
<1>7. PICK p5 \in Seq(T) :
        /\ p5 = p4 \o PlanRow("input", NumInputs)
        /\ Len(p5) = PlanEnd
        /\ \A k \in 1..PlanEnd : p5[k] = PlanAt(k)
  <2>1. PICK p \in Seq(T) :
          /\ p = p4 \o PlanRow("input", NumInputs)
          /\ Len(p) = Len(p4) + NumInputs
          /\ \A k \in 1..Len(p) :
               p[k] = IF k <= Len(p4) THEN p4[k] ELSE <<"input", k - Len(p4)>>
    BY <1>0, <1>1, GrowPlan, ZenonT(60) DEF T
  <2>2. Len(p) = PlanEnd
    BY PlanEnds, <1>6, <2>1, Zenon
  <2>3. \A k \in 1..PlanEnd :
          p[k] = IF k <= ProcEnd THEN p4[k] ELSE <<"input", k - ProcEnd>>
    BY <1>6, <2>1, <2>2, Zenon
  <2>4. ASSUME NEW k \in 1..PlanEnd PROVE p[k] = PlanAt(k)
    <3>1. CASE k <= ProcEnd
      <4>1. k \in 1..ProcEnd
        BY PlanEnds, <3>1
      <4> QED
        BY <1>6, <2>3, <3>1, <4>1, Zenon
    <3>2. CASE ~(k <= ProcEnd)
      <4>1. ~(k <= 1) /\ ~(k <= OutEnd) /\ ~(k <= ApEnd)
        BY PlanEnds, <3>2
      <4> QED
        BY <2>3, <3>2, <4>1, Zenon DEF PlanAt
    <3> QED
      BY <3>1, <3>2
  <2> QED
    BY <2>1, <2>2, <2>4, Zenon
<1>8. Plan = p5
  BY <1>2, <1>4, <1>5, <1>6, <1>7, Zenon DEF Plan, AggUnits, PlanRow
<1> QED
  BY <1>7, <1>8, Zenon

(* What the starting steps need of the plan: its rows name plugins there   *)
(* are, and once an input is reached only inputs follow.                   *)
LEMMA PlanFacts ==
  /\ Len(Plan) \in Nat \ {0}
  /\ \A k \in 1..Len(Plan) :
       /\ Plan[k][1] \in Kinds
       /\ Plan[k][1] = "output" => Plan[k][2] \in Outputs
       /\ Plan[k][1] = "input" => Plan[k][2] \in Inputs
       /\ Plan[k][1] = "input" /\ k < Len(Plan) =>
            Plan[k + 1][1] = "input" /\ Plan[k + 1][2] = Plan[k][2] + 1
  /\ Plan[1] = <<"init", 0>>
<1>1. ASSUME NEW k \in 1..PlanEnd
      PROVE  /\ PlanAt(k)[1] \in Kinds
             /\ PlanAt(k)[1] = "output" => PlanAt(k)[2] \in Outputs
             /\ PlanAt(k)[1] = "input" => PlanAt(k)[2] \in Inputs
             /\ PlanAt(k)[1] = "input" /\ k < PlanEnd =>
                  PlanAt(k + 1)[1] = "input" /\ PlanAt(k + 1)[2] = PlanAt(k)[2] + 1
  BY PlanEnds DEF PlanAt, Outputs, Inputs, Kinds
<1>2. PlanEnd \in Nat \ {0} /\ PlanAt(1) = <<"init", 0>>
  BY PlanEnds DEF PlanAt
<1>3. ASSUME NEW k \in 1..PlanEnd, k < PlanEnd PROVE k + 1 \in 1..PlanEnd
  BY <1>2, <1>3
<1> QED
  BY <1>1, <1>2, <1>3, PlanRows

-----------------------------------------------------------------------------

(* Every channel has one closer: the inputs, a unit or the aggregators.    *)
LEMMA ChannelFacts ==
  /\ OutC \in Channels /\ InputC \in Channels
  /\ NumAggregators > 0 => AggC \in Channels /\ PushC \in Channels
  /\ \A u \in Units : u \in Channels /\ Dst(u) \in Channels
<1>1. NumProcessors \in Nat /\ NumAggregators \in Nat /\ NumAggProcessors \in Nat
  BY AgentAssumption
<1> QED
  BY <1>1 DEF Channels, Units, Dst, InputC, PushC, OutC, AggC

(* No two stages write to the same channel, so none closes another's: the  *)
(* processors, the inputs and the aggregators each have their own          *)
(* destination.                                                            *)
LEMMA OneCloser ==
  /\ \A u, v \in Units : Dst(u) = Dst(v) => u = v
  /\ \A u \in Units : Dst(u) # InputC
  /\ NumAggregators > 0 => PushC # InputC /\ \A u \in Units : Dst(u) # PushC
<1>1. NumProcessors \in Nat /\ NumAggregators \in Nat /\ NumAggProcessors \in Nat
  BY AgentAssumption
<1> QED
  BY <1>1 DEF Units, Dst, InputC, PushC, OutC, AggC

-----------------------------------------------------------------------------
(* Types, part by part: start-up. *)

(* Start-up: the plan is being followed, and only an output that was       *)
(* connected is closed.                                                    *)
StartType ==
  /\ mode \in Modes /\ step \in 1..Len(Plan) + 1
  /\ phase \in {"starting", "unwinding", "running", "returned", "failed"}
  /\ phase \in {"starting", "unwinding"} => step <= Len(Plan)
  /\ phase = "unwinding" => Plan[step][1] = "input"
  /\ closedOutputs \subseteq connected /\ connected \subseteq Outputs

(* The input at which start-up is, or at which it failed. *)
LEMMA InputAt ==
  ASSUME StartType, phase \in {"starting", "unwinding"}, Plan[step][1] = "input"
  PROVE  Plan[step][2] \in Inputs
<1>1. step \in 1..Len(Plan)
  BY PlanFacts DEF StartType
<1> QED
  BY <1>1, PlanFacts, Zenon

(* Only the steps of start-up and the return of Run touch its variables. *)
LEMMA StartFrame ==
  ASSUME [Next]_vars, ~Startup, ~RunReturn PROVE UNCHANGED startVars
<1>1. CASE Cancel \/ Over \/ OutRecv \/ OutDone \/ UNCHANGED vars
  BY <1>1 DEF Cancel, Over, OutRecv, OutDone, vars
<1>2. CASE StopInput \/ CloseInputs
  BY <1>2, Zenon DEF StopInput, CloseInputs, InputOnly
<1>3. CASE Forwarding
  BY <1>3, Zenon DEF Forwarding, FwRecv, FwSend, FwDropped, FwCancel, CloseAggregators,
              FwAdd, AggOnly
<1>4. CASE \E i \in Inputs : \/ ServiceTake(i) \/ Sending(i) \/ GatherStart(i)
                             \/ GatherTake(i) \/ GatherReturn(i) \/ GatherStop(i)
  BY <1>4, Zenon DEF ServiceTake, Sending, ServiceSend, GatherTake, GatherSend, GatherStart,
              GatherReturn, GatherStop, InputOnly
<1>5. CASE \E u \in Units : Processing(u) \/ ProcBackground(u)
  BY <1>5, Zenon DEF Processing, ProcPass, ProcDrop, ProcKeep, ProcEmit, ProcStop,
              ProcClose, ProcBackground, ProcOnly
<1>6. CASE \E a \in Aggregators : PushPeriod(a) \/ PushLast(a) \/ Pushing(a)
  BY <1>6, Zenon DEF PushPeriod, PushLast, Pushing, PushSend, PushEnd, AggOnly
<1> QED
  BY <1>1, <1>2, <1>3, <1>4, <1>5, <1>6, Zenon DEF Next, Stopping

(* Each step of start-up, and of giving it up, keeps its types. *)
LEMMA StartStep == StartType /\ [Next]_vars => StartType'
<1> SUFFICES ASSUME StartType, [Next]_vars PROVE StartType'
  OBVIOUS
<1> USE PlanFacts DEF StartType, Starting, StartNext
<1>1. CASE StartOk
  BY <1>1 DEF StartOk
<1>2. CASE InitFails \/ ProcessorFails \/ InputFails \/ UnwindEnd
  BY <1>2, Zenon DEF InitFails, ProcessorFails, InputFails, UnwindEnd
<1>3. CASE ConnectFails
  BY <1>3, Zenon DEF ConnectFails, ClosedOnFailure
<1>4. CASE InputFailsLogged
  BY <1>4 DEF InputFailsLogged
<1>5. CASE RunReturn
  BY <1>5, Zenon DEF RunReturn
<1>6. CASE UNCHANGED startVars
  BY <1>6, Zenon DEF startVars
<1>7. CASE UnwindStop
  BY <1>6, <1>7, Zenon DEF UnwindStop
<1> QED
  BY <1>1, <1>2, <1>3, <1>4, <1>5, <1>6, <1>7, StartFrame, Zenon DEF Startup

(* The agent begins at the first step of its plan with no output           *)
(* connected.                                                              *)
LEMMA StartInit == Init => StartType
  BY PlanFacts DEF Init, StartType

-----------------------------------------------------------------------------
(* Types: the inputs. *)

(* The metrics input i holds and has not delivered. *)
Pending(i) == (IF inflight[i] THEN 1 ELSE 0) + (IF pcG[i] = "send" THEN 1 ELSE 0)

(* Inputs: what an input holds counts against its bound, only service      *)
(* inputs run or are stopped, and one that failed is met only where        *)
(* start-up goes on or is given up.                                        *)
InputType ==
  /\ svc \in [Inputs -> {"new", "running", "failed", "stopped"}]
  /\ inflight \in [Inputs -> BOOLEAN]
  /\ stopped \subseteq ServiceInputs
  /\ pcG \in [Inputs -> {"loop", "gather", "send", "returned"}]
  /\ pcI \in 0..NumInputs + 1
  /\ made \in [Inputs -> Nat]
  /\ \A i \in Inputs :
       /\ made[i] + Pending(i) <= MaxMetrics
       /\ svc[i] = "running" \/ inflight[i] => i \in ServiceInputs
       /\ inflight[i] => svc[i] # "new"
       /\ svc[i] = "failed" => OneShot \/ phase \in {"unwinding", "failed"}

(* The steps of the goroutines of input i. *)
InputActs(i) == \/ ServiceTake(i) \/ Sending(i) \/ GatherStart(i)
                 \/ GatherTake(i) \/ GatherReturn(i) \/ GatherStop(i)

(* The rest of the agent does not touch the inputs, nor the plan. *)
LEMMA InputFrame ==
  ASSUME [Next]_vars, ~Startup, ~RunReturn, ~StopInput, ~CloseInputs,
         ~ \E i \in Inputs : InputActs(i)
  PROVE  UNCHANGED <<startVars, inputVars>>
<1>1. CASE Cancel \/ Over \/ OutRecv \/ OutDone \/ UNCHANGED vars
  BY <1>1 DEF Cancel, Over, OutRecv, OutDone, vars
<1>3. CASE Forwarding
  BY <1>3, Zenon DEF Forwarding, FwRecv, FwSend, FwDropped, FwCancel, CloseAggregators,
              FwAdd, AggOnly
<1>5. CASE \E u \in Units : Processing(u) \/ ProcBackground(u)
  BY <1>5, Zenon DEF Processing, ProcPass, ProcDrop, ProcKeep, ProcEmit, ProcStop,
              ProcClose, ProcBackground, ProcOnly
<1>6. CASE \E a \in Aggregators : PushPeriod(a) \/ PushLast(a) \/ Pushing(a)
  BY <1>6, Zenon DEF PushPeriod, PushLast, Pushing, PushSend, PushEnd, AggOnly
<1> QED
  BY <1>1, <1>3, <1>5, <1>6, Zenon DEF Next, Stopping, InputActs

(* An input that has room may make a metric more. *)
LEMMA RoomFact ==
  ASSUME mode \in Modes, NEW i \in Inputs, made \in [Inputs -> Nat], Room(i)
  PROVE  made[i] + Pending(i) < MaxMetrics
<1>1. Load[mode][i] \in 0..MaxMetrics /\ MaxMetrics \in Nat
  BY AgentAssumption DEF Inputs
<1>2. made[i] + Pending(i) < Load[mode][i]
  BY Zenon DEF Room, Pending
<1>3. made[i] \in Nat /\ Pending(i) \in 0..2
  BY DEF Pending
<1> QED
  BY <1>1, <1>2, <1>3

(* An input that sends a metric is within the bound. *)
LEMMA SendRoom ==
  ASSUME InputType, NEW i \in Inputs, Sending(i)
  PROVE  made[i] < MaxMetrics /\ made[i] \in Nat
<1>1. inflight[i] = TRUE \/ pcG[i] = "send"
  BY Zenon DEF Sending, ServiceSend, GatherSend, InputType
<1>2. Pending(i) \in {1, 2}
  BY <1>1 DEF Pending
<1>3. made[i] \in Nat /\ made[i] + Pending(i) <= MaxMetrics /\ MaxMetrics \in Nat
  BY AgentAssumption, Zenon DEF InputType
<1> QED
  BY <1>2, <1>3

(* The inputs keep their types. *)
LEMMA InputStep == StartType /\ InputType /\ [Next]_vars => InputType'
<1> SUFFICES ASSUME StartType, InputType, [Next]_vars PROVE InputType'
  OBVIOUS
<1>0. /\ NumInputs \in Nat \ {0} /\ MaxMetrics \in Nat
      /\ ServiceInputs \subseteq Inputs /\ StopWaits \subseteq ServiceInputs
  BY AgentAssumption DEF Inputs
<1> USE <1>0 DEF InputType, OneShot, startVars, inputVars, Pending
<1>1. CASE StartOk
  <2>1. Plan[step][1] = "input" => Plan[step][2] \in Inputs
    BY <1>1, PlanFacts DEF StartOk, Starting, StartType
  <2> QED
    BY <1>1, <2>1, Zenon DEF StartOk, Starting, StartNext
<1>2. CASE InputFails
  <2>1. Plan[step][2] \in Inputs
    BY <1>2, PlanFacts, Zenon DEF InputFails, Starting, StartType
  <2> QED
    BY <1>2, <2>1, Zenon DEF InputFails, Starting
<1>3. CASE InputFailsLogged
  <2>1. Plan[step][2] \in Inputs
    BY <1>3, PlanFacts, Zenon DEF InputFailsLogged, Starting, StartType
  <2> QED
    BY <1>3, <2>1, Zenon DEF InputFailsLogged, Starting, StartNext
<1>4. CASE InitFails \/ ConnectFails \/ ProcessorFails \/ UnwindEnd \/ RunReturn
  BY <1>4, Zenon DEF InitFails, ConnectFails, ProcessorFails, UnwindEnd, RunReturn, Starting
<1>5. ASSUME StopNext, pcI \in Inputs, UNCHANGED startVars PROVE InputType'
  <2>1. pcI' \in 0..NumInputs + 1
    BY <1>5 DEF StopNext, Inputs
  <2> QED
    BY <1>5, <2>1, Zenon DEF StopNext
<1>6. CASE StopInput
  BY <1>5, <1>6, Zenon DEF StopInput, InputOnly
<1>7. CASE CloseInputs
  BY <1>7 DEF CloseInputs, InputOnly
<1>8. ASSUME NEW i \in Inputs, InputActs(i) PROVE InputType'
  <2> USE DEF InputOnly
  <2>1. CASE ServiceTake(i)
    <3>1. made[i] + Pending(i) < MaxMetrics
      BY <2>1, RoomFact, Zenon DEF ServiceTake, StartType
    <3> QED
      BY <2>1, <3>1 DEF ServiceTake
  <2>2. CASE ServiceSend(i)
    BY <2>2 DEF ServiceSend, Make
  <2>3. CASE GatherTake(i)
    <3>1. made[i] + Pending(i) < MaxMetrics
      BY <2>3, RoomFact, Zenon DEF GatherTake, StartType
    <3> QED
      BY <2>3, <3>1 DEF GatherTake
  <2>4. CASE GatherSend(i)
    BY <2>4 DEF GatherSend, Make
  <2>5. CASE GatherStart(i) \/ GatherReturn(i) \/ GatherStop(i)
    BY <2>5 DEF GatherStart, GatherReturn, GatherStop
  <2> QED
    BY <1>8, <2>1, <2>2, <2>3, <2>4, <2>5, Zenon DEF InputActs, Sending
<1>9. CASE UNCHANGED <<startVars, inputVars>>
  BY <1>9, Zenon
<1>10. CASE UnwindStop
  <2>1. Plan[step][2] \in Inputs
    BY <1>10, InputAt, Zenon DEF UnwindStop, StartType
  <2>2. pcI = 0 \/ pcI \in Inputs
    BY <1>10, <2>1 DEF UnwindStop, UnwindTo, Inputs
  <2>3. CASE pcI \in Inputs
    BY <1>5, <1>10, <2>3, Zenon DEF UnwindStop
  <2>4. CASE pcI = 0
    <3>1. 0 \notin Inputs /\ 0 \notin ServiceInputs
      BY DEF Inputs
    <3>2. svc' = svc /\ stopped' = stopped /\ pcI' = 1
      BY <1>10, <2>4, <3>1 DEF UnwindStop, StopNext
    <3>3. pcI' \in 0..NumInputs + 1
      BY <3>2
    <3> QED
      BY <1>10, <3>2, <3>3, Zenon DEF UnwindStop, StopNext
  <2> QED
    BY <2>2, <2>3, <2>4
<1> QED
  BY <1>1, <1>2, <1>3, <1>4, <1>6, <1>7, <1>8, <1>9, <1>10, InputFrame, Zenon DEF Startup

(* No input runs at first and none was stopped. *)
LEMMA InputInit == Init => InputType
<1>1. /\ NumInputs \in Nat \ {0} /\ MaxMetrics \in Nat
  BY AgentAssumption
<1> QED
  BY <1>1 DEF Init, InputType, Pending

-----------------------------------------------------------------------------
(* Types: the aggregators. *)

(* Aggregators: the forwarder adds to one that is there, and a push is     *)
(* numbered within the bound.                                              *)
AggType ==
  /\ fwPc \in {"recv", "add", "send", "done"}
  /\ fwPc = "add" => fwHand[2] \in Aggregators
  /\ pcA \in [Aggregators -> {"wait", "push", "lastpush", "done"}]
  /\ aggSum \in [Aggregators -> Nat] /\ pushes \in [Aggregators -> Nat]
  /\ \A a \in Aggregators :
       /\ pushes[a] <= MaxPushes + 1
       /\ pcA[a] \in {"wait", "push"} => pushes[a] <= MaxPushes
       /\ pcA[a] \in {"push", "lastpush"} => pushes[a] > 0
  /\ aggClosed \in BOOLEAN

(* The push goroutines end after the forwarder, runAggregators after both. *)
AggEnd ==
  /\ \A a \in Aggregators :
       /\ pcA[a] \in {"lastpush", "done"} => fwPc = "done"
       /\ pcA[a] = "done" => aggSum[a] = 0
  /\ aggClosed /\ NumAggregators > 0 => AggregatorsOver
  /\ NumAggregators = 0 => fwPc = "recv" /\ aggClosed

(* The steps of the push goroutine of aggregator a. *)
PushActs(a) == PushPeriod(a) \/ PushLast(a) \/ Pushing(a)

(* The rest of the agent does not touch the aggregators. *)
LEMMA AggFrame ==
  ASSUME [Next]_vars, ~Forwarding, ~ \E a \in Aggregators : PushActs(a)
  PROVE  UNCHANGED aggVars
<1>1. CASE Cancel \/ Over \/ OutRecv \/ OutDone \/ RunReturn \/ UNCHANGED vars
  BY <1>1, Zenon DEF Cancel, Over, OutRecv, OutDone, RunReturn, vars
<1>2. CASE StopInput \/ CloseInputs
  BY <1>2 DEF StopInput, CloseInputs, InputOnly
<1>3. CASE Startup
  BY <1>3, Zenon DEF Startup, StartOk, InitFails, ConnectFails, ProcessorFails,
              InputFails, InputFailsLogged, UnwindStop, UnwindEnd
<1>4. CASE \E i \in Inputs : InputActs(i)
  BY <1>4, Zenon DEF InputActs, ServiceTake, Sending, ServiceSend, GatherTake, GatherSend,
              GatherStart, GatherReturn, GatherStop, InputOnly
<1>5. CASE \E u \in Units : Processing(u) \/ ProcBackground(u)
  BY <1>5, Zenon DEF Processing, ProcPass, ProcDrop, ProcKeep, ProcEmit, ProcStop,
              ProcClose, ProcBackground, ProcOnly
<1> QED
  BY <1>1, <1>2, <1>3, <1>4, <1>5, Zenon DEF Next, Stopping, InputActs, PushActs

(* The forwarder and the push goroutines keep the types. *)
LEMMA AggStep == AggType /\ [Next]_vars => AggType'
<1> SUFFICES ASSUME AggType, [Next]_vars PROVE AggType'
  OBVIOUS
<1>0. NumAggregators \in Nat /\ MaxPushes \in Nat
  BY AgentAssumption
<1> USE <1>0 DEF AggType, aggVars, Aggregators
<1>1. CASE FwRecv
  BY <1>1 DEF FwRecv
<1>2. ASSUME NEW taken \in BOOLEAN, NEW drop \in BOOLEAN, FwAdd(taken, drop)
      PROVE  AggType'
  <2>1. PICK b \in Aggregators : b = fwHand[2]
    BY <1>2 DEF FwAdd
  <2>2. /\ fwPc = "add" /\ UNCHANGED <<pcA, pushes, aggClosed>>
        /\ fwPc' = IF b = NumAggregators THEN "send" ELSE "add"
        /\ fwHand'[2] = b + 1
        /\ aggSum' = aggSum \/ aggSum' = [aggSum EXCEPT ![b] = @ + 1]
    BY <1>2, <2>1, Zenon DEF FwAdd
  <2>3. fwPc' = "add" => fwHand'[2] \in Aggregators
    BY <2>2
  <2>4. aggSum' \in [Aggregators -> Nat]
    <3>1. aggSum \in [Aggregators -> Nat] /\ aggSum[b] + 1 \in Nat
      OBVIOUS
    <3> QED
      BY <2>2, <3>1, Zenon
  <2> QED
    BY <2>2, <2>3, <2>4, Zenon
<1>3. CASE FwSend \/ FwDropped \/ FwCancel
  BY <1>3, Zenon DEF FwSend, FwDropped, FwCancel
<1>4. CASE CloseAggregators
  BY <1>4, Zenon DEF CloseAggregators
<1>5. ASSUME NEW a \in Aggregators, PushActs(a) PROVE AggType'
  <2>1. CASE PushPeriod(a)
    BY <2>1 DEF PushPeriod
  <2>2. CASE PushLast(a)
    BY <2>2 DEF PushLast, LastPush
  <2>3. CASE PushSend(a)
    BY <2>3, Zenon DEF PushSend
  <2>4. CASE PushEnd(a)
    BY <2>4, Zenon DEF PushEnd
  <2> QED
    BY <1>5, <2>1, <2>2, <2>3, <2>4, Zenon DEF PushActs, Pushing
<1>6. CASE UNCHANGED aggVars
  BY <1>6, Zenon
<1> QED
  BY <1>1, <1>2, <1>3, <1>4, <1>5, <1>6, AggFrame, Zenon DEF Forwarding

(* The last push of an aggregator waits for the forwarder, and closing the *)
(* aggregators' channel waits for every last push.                         *)
LEMMA AggEndStep == AggType /\ AggEnd /\ [Next]_vars => AggEnd'
<1> SUFFICES ASSUME AggType, AggEnd, [Next]_vars PROVE AggEnd'
  OBVIOUS
<1>0. NumAggregators \in Nat /\ \A a \in Aggregators : NumAggregators > 0
  BY AgentAssumption DEF Aggregators
<1> USE <1>0 DEF AggType, AggEnd, aggVars, AggregatorsOver
<1>1. CASE FwRecv
  BY <1>1 DEF FwRecv
<1>2. ASSUME NEW taken \in BOOLEAN, NEW drop \in BOOLEAN, FwAdd(taken, drop)
      PROVE  AggEnd'
  <2>1. /\ fwPc = "add" /\ fwPc' \in {"add", "send"}
        /\ UNCHANGED <<pcA, aggClosed>> /\ fwHand[2] \in Aggregators
    BY <1>2, Zenon DEF FwAdd
  <2> QED
    BY <2>1
<1>3. CASE FwSend \/ FwDropped \/ FwCancel
  BY <1>3 DEF FwSend, FwDropped, FwCancel
<1>4. CASE CloseAggregators
  BY <1>4 DEF CloseAggregators
<1>5. ASSUME NEW a \in Aggregators, PushActs(a) PROVE AggEnd'
  <2>1. CASE PushPeriod(a)
    BY <2>1, Zenon DEF PushPeriod
  <2>2. CASE PushLast(a)
    BY <2>2, Zenon DEF PushLast, LastPush
  <2>3. CASE PushSend(a)
    BY <2>3, Zenon DEF PushSend
  <2>4. CASE PushEnd(a)
    BY <2>4, Zenon DEF PushEnd
  <2> QED
    BY <1>5, <2>1, <2>2, <2>3, <2>4, Zenon DEF PushActs, Pushing
<1>6. CASE UNCHANGED aggVars
  BY <1>6
<1> QED
  BY <1>1, <1>2, <1>3, <1>4, <1>5, <1>6, AggFrame, Zenon DEF Forwarding

(* The aggregators wait at first; without aggregators nothing is left to   *)
(* close.                                                                  *)
LEMMA AggInit == Init => AggType /\ AggEnd
<1>0. NumAggregators \in Nat /\ MaxPushes \in Nat
  BY AgentAssumption
<1> SUFFICES ASSUME Init PROVE AggType /\ AggEnd
  OBVIOUS
<1>1. aggClosed \in BOOLEAN /\ (aggClosed <=> NumAggregators = 0)
  BY Zenon DEF Init
<1> QED
  BY <1>0, <1>1 DEF Init, AggType, AggEnd, Aggregators

-----------------------------------------------------------------------------
(* Types: processors and channels. *)

(* Processors: where each one is, and which channels were closed. *)
UnitType ==
  /\ pcP \in [Units -> {"off", "recv", "emit", "close", "done"}]
  /\ closed \subseteq Channels
  /\ pcO \in {"recv", "done"}

(* What flows: channels within their capacity, and metrics in the hands of *)
(* the processors and the forwarder.                                       *)
FlowType ==
  /\ chan \in [Channels -> Seq(Metrics)]
  /\ \A c \in Channels : Len(chan[c]) <= ChanCap
  /\ procHand \in [Units -> Metrics \cup {<<>>}]
  /\ \A u \in Units : pcP[u] = "emit" => procHand[u] \in Metrics
  /\ kept \in [Units -> SUBSET Metrics]
  /\ fwPc \in {"add", "send"} => fwHand[1] \in Metrics
  /\ got \in Seq(Metrics) /\ dropped \subseteq Metrics

(* The steps of processor u. *)
UnitActs(u) == Processing(u) \/ ProcBackground(u)

(* Where a unit sends, what a processor, the aggregators or the inputs     *)
(* close: steps outside of these leave the units and the closed channels.  *)
LEMMA UnitFrame ==
  ASSUME [Next]_vars, ~StartOk, ~ProcessorFails, ~CloseInputs, ~CloseAggregators,
         ~OutDone, ~ \E u \in Units : UnitActs(u)
  PROVE  UNCHANGED <<pcP, closed, pcO>>
<1>1. CASE Cancel \/ Over \/ RunReturn \/ UNCHANGED vars
  BY <1>1, Zenon DEF Cancel, Over, RunReturn, vars, procVars, chanVars, outVars
<1>2. CASE StopInput \/ InitFails \/ ConnectFails \/ InputFails \/ InputFailsLogged
           \/ UnwindStop \/ UnwindEnd
  BY <1>2, Zenon DEF StopInput, InitFails, ConnectFails, InputFails, InputFailsLogged,
              UnwindStop, UnwindEnd, InputOnly, procVars, chanVars, outVars
<1>3. CASE OutRecv
  BY <1>3 DEF OutRecv, Recv, procVars, chanVars, outVars
<1>4. CASE \E i \in Inputs : InputActs(i)
  BY <1>4, Zenon DEF InputActs, ServiceTake, Sending, ServiceSend, GatherTake, GatherSend, Make,
              Send, GatherStart, GatherReturn, GatherStop, InputOnly,
              procVars, chanVars, outVars
<1>5. CASE FwRecv \/ FwSend \/ FwDropped \/ FwCancel
           \/ \E taken, drop \in BOOLEAN : FwAdd(taken, drop)
  BY <1>5, Zenon DEF FwRecv, FwSend, FwDropped, FwCancel, FwAdd, Recv, Send, AggOnly,
              procVars, chanVars, outVars
<1>6. CASE \E a \in Aggregators : PushActs(a)
  BY <1>6, Zenon DEF PushActs, Pushing, PushPeriod, PushLast, PushSend, PushEnd, Send,
              AggOnly, procVars, chanVars, outVars
<1> QED
  BY <1>1, <1>2, <1>3, <1>4, <1>5, <1>6, Zenon
     DEF Next, Startup, Stopping, Forwarding, InputActs, PushActs, UnitActs

(* The steps that close a channel or end a processor keep the types. *)
LEMMA UnitStep == AggEnd /\ UnitType /\ [Next]_vars => UnitType'
<1> SUFFICES ASSUME AggEnd, UnitType, [Next]_vars PROVE UnitType'
  OBVIOUS
<1>0. NumAggregators \in Nat
  BY AgentAssumption
<1> USE <1>0, ChannelFacts DEF UnitType, procVars, chanVars, outVars
<1>1. CASE StartOk
  BY <1>1, Zenon DEF StartOk
<1>2. CASE ProcessorFails
  BY <1>2, Zenon DEF ProcessorFails, Close
<1>3. CASE CloseInputs
  BY <1>3 DEF CloseInputs, Close, InputOnly
<1>4. CASE CloseAggregators
  <2>1. NumAggregators > 0
    BY <1>4 DEF AggEnd, CloseAggregators
  <2> QED
    BY <1>4, <2>1 DEF CloseAggregators, Close, AggOnly
<1>5. CASE OutDone
  BY <1>5 DEF OutDone
<1>6. ASSUME NEW u \in Units, UnitActs(u) PROVE UnitType'
  BY <1>6, Zenon DEF UnitActs, Processing, ProcPass, ProcDrop, ProcKeep, ProcEmit,
              ProcStop, ProcClose, ClosedBy, ProcBackground, Recv, Send, Close,
              ProcOnly
<1>7. CASE UNCHANGED <<pcP, closed, pcO>>
  BY <1>7
<1> QED
  BY <1>1, <1>2, <1>3, <1>4, <1>5, <1>6, <1>7, UnitFrame, Zenon

(* No processor runs at first and no channel is closed. *)
LEMMA UnitInit == Init => UnitType
  BY DEF Init, UnitType

(* Sending and receiving keep a channel's contents metrics and within its  *)
(* capacity.                                                               *)
LEMMA SendType ==
  ASSUME FlowType, NEW c \in Channels, NEW m \in Metrics, Send(c, m)
  PROVE  /\ chan' \in [Channels -> Seq(Metrics)]
         /\ \A d \in Channels : Len(chan'[d]) <= ChanCap
<1>1. CASE c \in closed
  BY <1>1, Zenon DEF Send, FlowType
<1>2. CASE c \notin closed
  <2>1. chan[c] \in Seq(Metrics) /\ Len(chan[c]) < ChanCap
    BY <1>2, Zenon DEF Send, CanSend, FlowType
  <2>2. PICK s \in Seq(Metrics) :
          s = Append(chan[c], m) /\ Len(s) = Len(chan[c]) + 1
    <3>1. /\ Append(chan[c], m) \in Seq(Metrics)
          /\ Len(Append(chan[c], m)) = Len(chan[c]) + 1
      BY <2>1, AppendProperties, ZenonT(60)
    <3> QED
      BY <3>1, Zenon
  <2>3. chan' = [chan EXCEPT ![c] = s]
    BY <1>2, <2>2, Zenon DEF Send
  <2>4. Len(s) <= ChanCap
    <3>1. Len(chan[c]) \in Nat /\ ChanCap \in Nat
      BY <2>1, LenProperties, AgentAssumption, Zenon
    <3> QED
      BY <2>1, <2>2, <3>1
  <2> QED
    BY <2>3, <2>4, Zenon DEF FlowType
<1> QED
  BY <1>1, <1>2

(* Receiving gives a metric and leaves the other channels alone. *)
LEMMA RecvType ==
  ASSUME FlowType, NEW c \in Channels, Recv(c)
  PROVE  /\ chan' \in [Channels -> Seq(Metrics)]
         /\ \A d \in Channels : Len(chan'[d]) <= ChanCap
         /\ Head(chan[c]) \in Metrics
<1>1. chan[c] \in Seq(Metrics) /\ chan[c] # <<>> /\ Len(chan[c]) <= ChanCap
  BY DEF Recv, FlowType
<1>2. Head(chan[c]) \in Metrics
  BY <1>1, HeadTailProperties
<1>3. PICK s \in Seq(Metrics) :
        s = Tail(chan[c]) /\ Len(s) = Len(chan[c]) - 1
  BY <1>1, HeadTailProperties, Zenon
<1>4. chan' = [chan EXCEPT ![c] = s]
  BY <1>3 DEF Recv
<1>5. Len(s) <= ChanCap
  BY <1>1, <1>3, LenProperties, AgentAssumption
<1> QED
  BY <1>2, <1>4, <1>5, Zenon DEF FlowType

(* The metrics made by inputs and aggregators are metrics of the model. *)
LEMMA NewMetrics ==
  /\ \A i \in Inputs, n \in Nat : n < MaxMetrics => <<i, n + 1>> \in Metrics
  /\ \A a \in Aggregators, n \in Nat :
       0 < n /\ n <= MaxPushes + 1 => <<NumInputs + a, n>> \in Metrics
<1>1. /\ NumInputs \in Nat /\ NumAggregators \in Nat /\ MaxMetrics \in Nat
      /\ MaxPushes \in Nat
  BY AgentAssumption
<1> QED
  BY <1>1 DEF Metrics, Inputs, Aggregators

(* The other steps move no metric. *)
LEMMA FlowFrame ==
  ASSUME [Next]_vars, ~ProcessorFails, ~StartOk, ~OutRecv, ~Forwarding,
         ~ \E i \in Inputs : Sending(i),
         ~ \E u \in Units : UnitActs(u),
         ~ \E a \in Aggregators : PushSend(a)
  PROVE  UNCHANGED <<chan, procVars, fwPc, fwHand, got, dropped>>
<1>1. CASE Cancel \/ Over \/ RunReturn \/ OutDone \/ UNCHANGED vars
  BY <1>1, Zenon DEF Cancel, Over, RunReturn, OutDone, vars, aggVars, chanVars, outVars
<1>2. CASE StopInput \/ InitFails \/ ConnectFails \/ InputFails \/ InputFailsLogged
           \/ UnwindStop \/ UnwindEnd
  BY <1>2, Zenon DEF StopInput, InitFails, ConnectFails, InputFails, InputFailsLogged,
              UnwindStop, UnwindEnd, InputOnly, aggVars, chanVars, outVars
<1>3. CASE CloseInputs
  BY <1>3, Zenon DEF CloseInputs, Close, InputOnly, aggVars, outVars
<1>4. CASE \E i \in Inputs : ServiceTake(i) \/ GatherStart(i) \/ GatherTake(i)
                             \/ GatherReturn(i) \/ GatherStop(i)
  BY <1>4, Zenon DEF ServiceTake, GatherStart, GatherTake, GatherReturn, GatherStop, InputOnly,
              aggVars, chanVars, outVars
<1>5. CASE \E a \in Aggregators : PushPeriod(a) \/ PushLast(a) \/ PushEnd(a)
  BY <1>5, Zenon DEF PushPeriod, PushLast, PushEnd, AggOnly, chanVars, outVars
<1> QED
  BY <1>1, <1>2, <1>3, <1>4, <1>5, Zenon
     DEF Next, Startup, Stopping, Pushing, UnitActs

(* Every step hands on metrics and overfills no channel. *)
LEMMA FlowStep ==
  InputType /\ AggType /\ AggEnd /\ UnitType /\ FlowType /\ [Next]_vars => FlowType'
<1> SUFFICES ASSUME InputType, AggType, AggEnd, UnitType, FlowType, [Next]_vars
             PROVE  FlowType'
  OBVIOUS
<1>0. NumAggregators \in Nat /\ \A a \in Aggregators : NumAggregators > 0
  BY AgentAssumption DEF Aggregators
<1> USE <1>0, ChannelFacts
<1> USE DEF procVars, outVars, aggVars, chanVars
<1> DEFINE ChanOk == /\ chan' \in [Channels -> Seq(Metrics)]
                     /\ \A c \in Channels : Len(chan'[c]) <= ChanCap
<1>1. CASE StartOk
  BY <1>1, Zenon DEF StartOk, FlowType, UnitType
<1>2. CASE ProcessorFails
  BY <1>2, Zenon DEF ProcessorFails, Close, FlowType, UnitType
<1>3. CASE OutRecv
  <2>1. ChanOk /\ Head(chan[OutC]) \in Metrics
    BY <1>3, RecvType, Zenon DEF OutRecv
  <2>2. got' \in Seq(Metrics)
    BY <1>3, <2>1, AppendProperties, Zenon DEF OutRecv, FlowType
  <2> QED
    BY <1>3, <2>1, <2>2, Zenon DEF OutRecv, FlowType
<1>4. CASE FwRecv
  <2>1. ChanOk /\ Head(chan[AggC]) \in Metrics
    BY <1>4, RecvType, Zenon DEF FwRecv
  <2> QED
    BY <1>4, <2>1, Zenon DEF FwRecv, FlowType, AggOnly
<1>5. ASSUME NEW taken \in BOOLEAN, NEW drop \in BOOLEAN, FwAdd(taken, drop)
      PROVE  FlowType'
  BY <1>5, Zenon DEF FwAdd, FlowType, AggOnly
<1>6. CASE FwSend
  <2>1. ChanOk
    BY <1>6, SendType, Zenon DEF FwSend, FlowType
  <2> QED
    BY <1>6, <2>1, Zenon DEF FwSend, FlowType, AggOnly
<1>7. CASE FwDropped \/ FwCancel \/ CloseAggregators
  BY <1>7, Zenon DEF FwDropped, FwCancel, CloseAggregators, Close, FlowType, AggOnly
<1>8. ASSUME NEW i \in Inputs, Sending(i) PROVE FlowType'
  <2>1. made[i] < MaxMetrics /\ made[i] \in Nat
    BY <1>8, SendRoom, Zenon
  <2>2. made'[i] = made[i] + 1 /\ Send(InputC, <<i, made'[i]>>)
    BY <1>8, Zenon DEF Sending, ServiceSend, GatherSend, Make, InputType
  <2>3. <<i, made'[i]>> \in Metrics
    BY <2>1, <2>2, NewMetrics, Zenon
  <2>4. ChanOk
    BY <2>2, <2>3, SendType, Zenon
  <2> QED
    BY <1>8, <2>4, Zenon DEF Sending, ServiceSend, GatherSend, InputOnly, FlowType
<1>9. ASSUME NEW a \in Aggregators, PushSend(a) PROVE FlowType'
  <2>1. pushes[a] \in Nat /\ 0 < pushes[a] /\ pushes[a] <= MaxPushes + 1
    BY <1>9, Zenon DEF PushSend, AggType
  <2>2. <<NumInputs + a, pushes[a]>> \in Metrics
    BY <2>1, NewMetrics, Zenon
  <2>3. ChanOk
    BY <1>9, <2>2, SendType, Zenon DEF PushSend
  <2> QED
    BY <1>9, <2>3, Zenon DEF PushSend, AggOnly, FlowType
<1>10. ASSUME NEW u \in Units, UnitActs(u) PROVE FlowType'
  <2> USE DEF Src, ProcOnly
  <2>1. CASE ProcPass(u)
    <3>1. ChanOk /\ Head(chan[u]) \in Metrics
      BY <2>1, RecvType, Zenon DEF ProcPass
    <3> QED
      BY <2>1, <3>1, Zenon DEF ProcPass, FlowType, UnitType
  <2>2. CASE ProcDrop(u)
    <3>1. ChanOk /\ Head(chan[u]) \in Metrics
      BY <2>2, RecvType, Zenon DEF ProcDrop
    <3> QED
      BY <2>2, <3>1, Zenon DEF ProcDrop, FlowType
  <2>3. CASE ProcKeep(u)
    <3>1. ChanOk /\ Head(chan[u]) \in Metrics
      BY <2>3, RecvType, Zenon DEF ProcKeep
    <3> QED
      BY <2>3, <3>1, Zenon DEF ProcKeep, FlowType
  <2>4. CASE ProcEmit(u)
    <3>1. ChanOk
      BY <2>4, SendType, Zenon DEF ProcEmit, FlowType
    <3> QED
      BY <2>4, <3>1, Zenon DEF ProcEmit, FlowType, UnitType
  <2>5. CASE ProcBackground(u)
    <3>1. PICK m \in kept[u] : /\ Send(Dst(u), m)
                               /\ kept' = [kept EXCEPT ![u] = @ \ {m}]
      BY <2>5, Zenon DEF ProcBackground
    <3>2. m \in Metrics
      BY <3>1, Zenon DEF FlowType
    <3>3. ChanOk
      BY <3>1, <3>2, SendType, Zenon
    <3> QED
      BY <2>5, <3>1, <3>3, Zenon DEF ProcBackground, FlowType
  <2>6. CASE ProcStop(u) \/ ProcClose(u)
    BY <2>6, Zenon DEF ProcStop, ProcClose, Close, FlowType, UnitType
  <2> QED
    BY <1>10, <2>1, <2>2, <2>3, <2>4, <2>5, <2>6, Zenon DEF UnitActs, Processing
<1>11. CASE UNCHANGED <<chan, procVars, fwPc, fwHand, got, dropped>>
  BY <1>11, Zenon DEF FlowType
<1> QED
  BY <1>1, <1>2, <1>3, <1>4, <1>5, <1>6, <1>7, <1>8, <1>9, <1>10, <1>11,
     FlowFrame, Zenon DEF Forwarding

(* The channels are empty at first. *)
LEMMA FlowInit == Init => FlowType
<1>1. <<>> \in Seq(Metrics) /\ Len(<<>>) = 0
  BY EmptySeq, Zenon
<1>2. ChanCap \in Nat
  BY AgentAssumption, Zenon
<1> QED
  BY <1>1, <1>2 DEF Init, FlowType

-----------------------------------------------------------------------------
(* Types of the whole agent. *)

(* The types of all parts, with what their steps need of each other. *)
Types == /\ StartType /\ InputType
         /\ AggType /\ AggEnd /\ UnitType /\ FlowType

(* The types hold in every behaviour of the agent. *)
LEMMA TypesHold == Spec => []Types
<1>1. Init => Types
  BY StartInit, InputInit, AggInit, UnitInit, FlowInit, Zenon DEF Types
<1>2. Types /\ [Next]_vars => Types'
  BY StartStep, InputStep, AggStep, AggEndStep, UnitStep, FlowStep, Zenon DEF Types
<1> QED
  BY <1>1, <1>2, PTL DEF Spec

(* They include the type invariant that is model-checked. *)
LEMMA TypesGiveTypeOK == Types => TypeOK
<1> SUFFICES ASSUME Types PROVE TypeOK
  OBVIOUS
<1>1. \A c \in Channels : Range(chan[c]) \subseteq Metrics
  BY RangeOfSeq DEF Types, FlowType
<1>2. Range(got) \cup dropped \subseteq Metrics
  BY RangeOfSeq DEF Types, FlowType
<1> QED
  BY <1>1, <1>2, Zenon DEF Types, TypeOK, StartType, InputType, AggType, UnitType, FlowType

(* Types and ranges of the agent's state, for every configuration: no      *)
(* channel ever holds more than its capacity.                              *)
THEOREM TypeCorrect == Spec => []TypeOK
  BY TypesHold, TypesGiveTypeOK, PTL

-----------------------------------------------------------------------------

(* Run has not started everything or gives up, or everything was started. *)
Early == phase \in {"starting", "unwinding", "failed"}
Live  == phase \in {"running", "returned"}

(* Until Run has started everything nothing is closed, pushed, forwarded   *)
(* or emitted, and the inputs are started in their order; a start-up that  *)
(* failed has closed a channel only if it came to no input.                *)
StartInv ==
  /\ phase = "starting" =>
       /\ closed = {} /\ stopped = {} /\ pcI = 1
       /\ \A i \in Inputs :
            svc[i] # "new" => Plan[step][1] = "input" /\ i < Plan[step][2]
       /\ \A u \in Units : pcP[u] # "done"
  /\ Early =>
       /\ pcI \in Inputs /\ fwPc = "recv" /\ pcO = "recv"
       /\ aggClosed => NumAggregators = 0
       /\ \A a \in Aggregators : pcA[a] = "wait"
       /\ \A u \in Units : pcP[u] \in {"off", "recv", "done"} /\ kept[u] = {}
  /\ phase \in {"unwinding", "failed"} => closed = {} \/ \A i \in Inputs : svc[i] = "new"

(* Before Run has started everything, and after it failed to, nothing      *)
(* moves but start-up, cancellation and the service inputs' goroutines.    *)
LEMMA EarlySteps ==
  ASSUME Types, StartInv, Early, [Next]_vars
  PROVE  \/ Startup \/ UNCHANGED <<startVars, inputVars, procVars, aggVars, outVars, chanVars, dropped>>
         \/ \E i \in Inputs : ServiceTake(i) \/ ServiceSend(i)
<1>0. NumInputs \in Nat /\ Inputs = 1..NumInputs
  BY AgentAssumption DEF Inputs
<1>1. CASE Stopping
  BY <1>0, <1>1 DEF Stopping, StopInput, CloseInputs, RunReturn, OutDone, Early, StartInv
<1>2. CASE Forwarding
  BY <1>2, Zenon DEF Forwarding, FwRecv, FwSend, FwDropped, FwCancel, CloseAggregators,
              AggregatorsOver, FwAdd, Early, StartInv
<1>3. CASE OutRecv
  BY <1>3 DEF OutRecv, Early
<1>4. CASE Cancel \/ Over \/ UNCHANGED vars
  BY <1>4, Zenon DEF Cancel, Over, vars
<1>5. ASSUME NEW i \in Inputs,
             GatherSend(i) \/ GatherStart(i) \/ GatherTake(i) \/ GatherReturn(i) \/ GatherStop(i)
      PROVE FALSE
  BY <1>5, Zenon DEF GatherSend, GatherStart, GatherTake, GatherReturn, GatherStop, Early
<1>6. ASSUME NEW u \in Units, Processing(u) \/ ProcBackground(u) PROVE FALSE
  BY <1>6, Zenon DEF Processing, ProcPass, ProcDrop, ProcKeep, ProcEmit, ProcStop,
              ProcClose, ProcBackground, Early, StartInv
<1>7. ASSUME NEW a \in Aggregators, PushActs(a) PROVE FALSE
  BY <1>7, Zenon DEF PushActs, Pushing, PushPeriod, PushLast, PushSend, PushEnd, Early,
              StartInv
<1> QED
  BY <1>1, <1>2, <1>3, <1>4, <1>5, <1>6, <1>7, Zenon DEF Next, Sending, PushActs

(* There is an input behind one that is not the last. *)
LEMMA NextInput ==
  ASSUME NEW i \in Inputs, NEW n \in Inputs, i < n PROVE i + 1 \in Inputs
<1>1. NumInputs \in Nat
  BY AgentAssumption
<1> QED
  BY <1>1 DEF Inputs

(* Giving up start-up, stopServiceInputs comes to a next input. *)
LEMMA UnwindsOne ==
  ASSUME Types, StartInv, UnwindStop PROVE phase = "unwinding" /\ pcI' \in Inputs
<1>1. /\ phase = "unwinding" /\ pcI \in Inputs /\ pcI < Plan[step][2] /\ pcI' = pcI + 1
  BY Zenon DEF UnwindStop, UnwindTo, StopNext, StartInv, Early
<1>2. Plan[step][2] \in Inputs
  BY <1>1, InputAt, Zenon DEF Types, StartType
<1> QED
  BY <1>1, <1>2, NextInput, Zenon

(* Start-up and what may run beside it keep this. *)
LEMMA StartInvStep == Types /\ StartInv /\ [Next]_vars => StartInv'
<1> SUFFICES ASSUME Types, StartInv, [Next]_vars PROVE StartInv'
  OBVIOUS
<1>1. CASE ~Early
  <2>1. ~Startup
    BY <1>1, Zenon DEF Early, Startup, StartOk, InitFails, ConnectFails, ProcessorFails,
                InputFails, InputFailsLogged, UnwindStop, UnwindEnd, Starting
  <2>2. ~Early'
    <3>1. CASE RunReturn
      BY <3>1 DEF RunReturn, Early
    <3>2. CASE ~RunReturn
      BY <1>1, <2>1, <3>2, StartFrame, Zenon DEF startVars, Early
    <3> QED
      BY <3>1, <3>2
  <2> QED
    BY <2>2, Zenon DEF StartInv, Early
<1>2. CASE Early
  <2> USE DEF StartInv, Early, startVars, inputVars, procVars, aggVars, outVars, chanVars
  <2>1. CASE UNCHANGED <<startVars, inputVars, procVars, aggVars, outVars, chanVars, dropped>>
    BY <2>1, Zenon
  <2>2. ASSUME NEW i \in Inputs, ServiceTake(i) PROVE StartInv'
    BY <2>2, Zenon DEF ServiceTake, InputOnly
  <2>3. ASSUME NEW i \in Inputs, ServiceSend(i) PROVE StartInv'
    BY <2>3, Zenon DEF ServiceSend, Make, Send, InputOnly
  <2>4. CASE StartOk
    <3>0. phase = "starting" /\ step \in 1..Len(Plan)
      BY <2>4, PlanFacts DEF StartOk, Starting, Types, StartType
    <3>1. CASE step = Len(Plan)
      BY <2>4, <3>1, Zenon DEF StartOk, StartNext
    <3>2. CASE step # Len(Plan)
      <4>1. phase' = "starting" /\ step' = step + 1 /\ step < Len(Plan)
        BY <2>4, <3>0, <3>2, PlanFacts DEF StartOk, StartNext
      <4>2. ASSUME NEW i \in Inputs, svc'[i] # "new"
            PROVE  Plan[step'][1] = "input" /\ i < Plan[step'][2]
        <5>1. Plan[step][1] = "input" /\ (i < Plan[step][2] \/ i = Plan[step][2])
          BY <2>4, <3>0, <4>2, Zenon DEF StartOk, Types, InputType
        <5>2. /\ Plan[step'][1] = "input" /\ Plan[step'][2] = Plan[step][2] + 1
              /\ Plan[step][2] \in Inputs
          BY <3>0, <4>1, <5>1, PlanFacts, Zenon
        <5> QED
          BY <5>1, <5>2 DEF Inputs
      <4>3. \A u \in Units : pcP'[u] \in {"off", "recv"}
        BY <2>4, <3>0, Zenon DEF StartOk, Types, UnitType
      <4> QED
        BY <2>4, <3>0, <4>1, <4>2, <4>3, Zenon DEF StartOk
    <3> QED
      BY <3>1, <3>2, Zenon
  <2>5. CASE InputFailsLogged
    <3>0. phase = "starting" /\ step \in 1..Len(Plan) /\ Plan[step][1] = "input"
      BY <2>5, PlanFacts DEF InputFailsLogged, Starting, Types, StartType
    <3>1. CASE step = Len(Plan)
      BY <2>5, <3>1, Zenon DEF InputFailsLogged, StartNext
    <3>2. CASE step # Len(Plan)
      <4>1. phase' = "starting" /\ step' = step + 1 /\ step < Len(Plan)
        BY <2>5, <3>0, <3>2, PlanFacts DEF InputFailsLogged, StartNext
      <4>2. ASSUME NEW i \in Inputs, svc'[i] # "new"
            PROVE  Plan[step'][1] = "input" /\ i < Plan[step'][2]
        <5>1. i < Plan[step][2] \/ i = Plan[step][2]
          BY <2>5, <3>0, <4>2, Zenon DEF InputFailsLogged, Types, InputType
        <5>2. /\ Plan[step'][1] = "input" /\ Plan[step'][2] = Plan[step][2] + 1
              /\ Plan[step][2] \in Inputs
          BY <3>0, <4>1, PlanFacts, Zenon
        <5> QED
          BY <5>1, <5>2 DEF Inputs
      <4> QED
        BY <2>5, <3>0, <4>1, <4>2, Zenon DEF InputFailsLogged
    <3> QED
      BY <3>1, <3>2
  <2>6. CASE InitFails \/ ConnectFails \/ InputFails \/ UnwindEnd
    <3>1. /\ phase' \in {"unwinding", "failed"}
          /\ UNCHANGED <<pcI, fwPc, pcO, aggClosed, closed, kept, pcP, pcA>>
          /\ closed = {} \/ \A i \in Inputs : svc'[i] = "new"
      BY <2>6, Zenon DEF InitFails, ConnectFails, InputFails, UnwindEnd, Starting
    <3> QED
      BY <1>2, <3>1, Zenon
  <2>7. CASE ProcessorFails
    <3>1. phase = "starting" /\ phase' = "failed" /\ Plan[step][1] # "input"
      BY <2>7, Zenon DEF ProcessorFails, Starting
    <3>2. \A u \in Units : pcP'[u] \in {"off", "recv", "done"}
      BY <2>7, <3>1, Zenon DEF ProcessorFails, Types, UnitType
    <3>3. UNCHANGED <<svc, pcI, fwPc, pcO, aggClosed, pcA, kept>>
      BY <2>7, Zenon DEF ProcessorFails
    <3> QED
      BY <3>1, <3>2, <3>3, Zenon
  <2>8. CASE UnwindStop
    <3>1. phase = "unwinding" /\ pcI' \in Inputs
      BY <2>8, UnwindsOne, Zenon
    <3>3. \A i \in Inputs : svc[i] = "new" => svc'[i] = "new"
      BY <2>8, Zenon DEF UnwindStop, StopNext, Types, InputType
    <3> QED
      BY <2>8, <3>1, <3>3, Zenon DEF UnwindStop
  <2> QED
    BY <1>2, <2>1, <2>2, <2>3, <2>4, <2>5, <2>6, <2>7, <2>8, EarlySteps, Zenon DEF Startup
<1> QED
  BY <1>1, <1>2

(* It holds before the first plugin is started. *)
LEMMA StartInvInit == Init => StartInv
<1> SUFFICES ASSUME Init PROVE StartInv
  OBVIOUS
<1>1. aggClosed => NumAggregators = 0
  BY Zenon DEF Init
<1>2. 1 \in Inputs
  BY AgentAssumption DEF Inputs
<1> QED
  BY <1>1, <1>2, Zenon DEF Init, StartInv, Early
-----------------------------------------------------------------------------

(* startInputs gives up at an input that fails: those before it are        *)
(* stopped in their order, so none before the one to stop next runs, and a *)
(* Stop that returned left nothing in flight.                              *)
UnwindInv ==
  /\ \A i \in StopWaits : inflight[i] => svc[i] = "running"
  /\ phase = "unwinding" =>
       /\ pcI <= Plan[step][2]
       /\ \A i \in Inputs : svc[i] = "running" => pcI <= i /\ i < Plan[step][2]
       /\ \A i \in Inputs : svc[i] = "failed" => i = Plan[step][2]
       /\ \A i \in stopped : i < pcI
  /\ FailedStartQuiet

(* A step that changes none of this keeps it. *)
LEMMA UnwindFrame ==
  ASSUME UnwindInv, UNCHANGED <<phase, step, svc, inflight, stopped, pcI>>
  PROVE  UnwindInv'
  BY Zenon DEF UnwindInv, FailedStartQuiet

(* stopServiceInputs stops the next input. *)
LEMMA UnwindStops ==
  ASSUME Types, UnwindInv, StopNext, pcI \in Inputs
  PROVE  /\ pcI' = pcI + 1 /\ UNCHANGED inflight
         /\ \A i \in Inputs : svc'[i] = "running" => svc[i] = "running" /\ i # pcI
         /\ \A i \in Inputs : svc'[i] = "failed" => svc[i] = "failed"
         /\ \A i \in stopped' : i \in stopped \/ i = pcI
         /\ \A i \in StopWaits : inflight'[i] => svc'[i] = "running"
<1>1. svc \in [Inputs -> {"new", "running", "failed", "stopped"}] /\ StopWaits \subseteq Inputs
  BY AgentAssumption DEF Types, InputType, Inputs
<1> QED
  BY <1>1, Zenon DEF StopNext, UnwindInv

(* Every step, of start-up, of giving it up and of the inputs beside them, *)
(* keeps this.                                                             *)
LEMMA UnwindStep == Types /\ StartInv /\ UnwindInv /\ [Next]_vars => UnwindInv'
<1> SUFFICES ASSUME Types, StartInv, UnwindInv, [Next]_vars PROVE UnwindInv'
  OBVIOUS
<1>0. /\ ServiceInputs \subseteq Inputs /\ StopWaits \subseteq ServiceInputs
      /\ svc \in [Inputs -> {"new", "running", "failed", "stopped"}]
      /\ inflight \in [Inputs -> BOOLEAN]
      /\ \A i \in Inputs : inflight[i] => svc[i] # "new"
      /\ \A i \in Inputs : svc[i] = "running" => i \in ServiceInputs
  BY AgentAssumption, Zenon DEF Types, InputType, Inputs
<1>1. CASE StartOk
  <2>1. phase' \in {"starting", "running"} /\ UNCHANGED inflight
    BY <1>1, Zenon DEF StartOk, StartNext
  <2>2. \A i \in Inputs : svc[i] = "running" => svc'[i] = "running"
    BY <1>0, <1>1, Zenon DEF StartOk
  <2> QED
    BY <1>0, <2>1, <2>2, Zenon DEF UnwindInv, FailedStartQuiet
<1>2. CASE InitFails \/ ConnectFails \/ ProcessorFails
  <2>1. phase = "starting" /\ phase' = "failed" /\ Plan[step][1] # "input"
        /\ UNCHANGED <<svc, inflight>>
    BY <1>2, Zenon DEF InitFails, ConnectFails, ProcessorFails, Starting, inputVars
  <2>2. \A i \in Inputs : svc[i] = "new"
    BY <2>1, Zenon DEF StartInv
  <2> QED
    BY <1>0, <2>1, <2>2, Zenon DEF UnwindInv, FailedStartQuiet
<1>3. ASSUME InputFails \/ InputFailsLogged
      PROVE  /\ Plan[step][2] \in Inputs /\ pcI = 1 /\ stopped = {} /\ phase = "starting"
             /\ svc' = [svc EXCEPT ![Plan[step][2]] = "failed"]
             /\ UNCHANGED <<step, inflight, pcI, stopped>> \/ InputFailsLogged
             /\ UNCHANGED inflight
             /\ \A i \in StopWaits : inflight'[i] => svc'[i] = "running"
  <2>1. /\ Plan[step][2] \in Inputs /\ phase = "starting"
        /\ svc' = [svc EXCEPT ![Plan[step][2]] = "failed"] /\ UNCHANGED inflight
    BY <1>3, InputAt, Zenon DEF InputFails, InputFailsLogged, Starting, Types
  <2>2. svc[Plan[step][2]] = "new"
    <3>1. ~(Plan[step][2] < Plan[step][2])
      BY <2>1 DEF Inputs
    <3> QED
      BY <2>1, <3>1, Zenon DEF StartInv
  <2>3. \A i \in StopWaits : inflight'[i] => svc'[i] = "running"
    BY <1>0, <2>1, <2>2, Zenon DEF UnwindInv
  <2> QED
    BY <1>3, <2>1, <2>3, Zenon DEF StartInv, InputFails
<1>4. CASE InputFails
  <2>1. /\ phase' = "unwinding" /\ UNCHANGED <<step, pcI, stopped>> /\ ~OneShot
    BY <1>4, Zenon DEF InputFails
  <2>2. \A i \in Inputs : svc[i] # "failed"
    BY <1>3, <1>4, <2>1, Zenon DEF Types, InputType
  <2>3. \A i \in Inputs : svc'[i] = "failed" => i = Plan[step][2]
    BY <1>0, <1>3, <1>4, <2>2, Zenon
  <2>4. \A i \in Inputs : svc'[i] = "running" => i < Plan[step][2]
    BY <1>0, <1>3, <1>4, Zenon DEF StartInv
  <2>5. \A i \in Inputs : 1 <= i
    BY DEF Inputs
  <2> QED
    BY <1>3, <1>4, <2>1, <2>3, <2>4, <2>5, Zenon DEF UnwindInv, FailedStartQuiet
<1>5. CASE InputFailsLogged
  <2>1. phase' \in {"starting", "running"}
    BY <1>5, Zenon DEF InputFailsLogged, StartNext
  <2> QED
    BY <1>3, <1>5, <2>1, Zenon DEF UnwindInv, FailedStartQuiet
<1>6. CASE UnwindStop
  <2>0. pcI \in Inputs /\ Plan[step][2] \in Inputs
    BY <1>6, InputAt, Zenon DEF UnwindStop, StartInv, Early, Types, StartType
  <2>1. /\ phase = "unwinding" /\ pcI < Plan[step][2] /\ StopNext
        /\ UNCHANGED <<phase, step>>
    BY <1>6, Zenon DEF UnwindStop, UnwindTo, startVars
  <2>2. /\ pcI' = pcI + 1 /\ UNCHANGED inflight
        /\ \A i \in Inputs : svc'[i] = "running" => svc[i] = "running" /\ i # pcI
        /\ \A i \in Inputs : svc'[i] = "failed" => svc[i] = "failed"
        /\ \A i \in stopped' : i \in stopped \/ i = pcI
        /\ \A i \in StopWaits : inflight'[i] => svc'[i] = "running"
    BY <2>0, <2>1, UnwindStops, Zenon
  <2>3. stopped \subseteq Inputs
    BY <1>0, Zenon DEF Types, InputType
  <2>4. pcI' <= Plan[step][2]
    BY <2>0, <2>1, <2>2 DEF Inputs
  <2>5. \A i \in Inputs : svc'[i] = "running" => pcI' <= i /\ i < Plan[step][2]
    BY <2>0, <2>1, <2>2 DEF Inputs, UnwindInv
  <2>6. \A i \in stopped' : i < pcI'
    <3>1. \A i \in stopped : i < pcI
      BY <2>1, Zenon DEF UnwindInv
    <3>2. \A i \in Inputs : i < pcI \/ i = pcI => i < pcI'
      BY <2>0, <2>2 DEF Inputs
    <3> QED
      BY <2>0, <2>2, <2>3, <3>1, <3>2, Zenon
  <2> QED
    BY <2>1, <2>2, <2>4, <2>5, <2>6, Zenon DEF UnwindInv, FailedStartQuiet
<1>7. CASE UnwindEnd
  <2>1. /\ phase = "unwinding" /\ phase' = "failed" /\ pcI = Plan[step][2]
        /\ UNCHANGED <<svc, inflight, stopped>>
    BY <1>7, Zenon DEF UnwindEnd, UnwindTo, inputVars
  <2>2. Plan[step][2] \in Inputs
    BY <2>1, InputAt, Zenon DEF Types, StartType
  <2>3. \A i \in Inputs : svc[i] # "running"
    BY <2>1, <2>2 DEF UnwindInv, Inputs
  <2>4. \A i \in Inputs : svc[i] = "failed" => i \notin stopped
    BY <2>1, <2>2 DEF UnwindInv, Inputs
  <2> QED
    BY <1>0, <2>1, <2>3, <2>4, Zenon DEF UnwindInv, FailedStartQuiet
<1>8. CASE StopInput
  <2>1. /\ StopNext /\ pcI \in Inputs /\ phase' = "running"
    BY <1>8, Zenon DEF StopInput, InputOnly, startVars
  <2>2. \A i \in StopWaits : inflight'[i] => svc'[i] = "running"
    BY <2>1, UnwindStops, Zenon
  <2> QED
    BY <2>1, <2>2, Zenon DEF UnwindInv, FailedStartQuiet
<1>9. CASE CloseInputs \/ RunReturn
  <2>1. phase' \in {"running", "returned"} /\ UNCHANGED <<svc, inflight>>
    <3>1. CASE RunReturn
      BY <3>1, Zenon DEF RunReturn, inputVars
    <3>2. CASE CloseInputs
      <4>1. UNCHANGED phase /\ pcI \notin Inputs /\ UNCHANGED <<svc, inflight>>
        BY <3>2, AgentAssumption DEF CloseInputs, InputOnly, startVars, Inputs
      <4> QED
        BY <4>1, Zenon DEF StartInv, Early, Types, StartType
    <3> QED
      BY <1>9, <3>1, <3>2
  <2> QED
    BY <2>1, Zenon DEF UnwindInv, FailedStartQuiet
<1>10. ASSUME NEW i \in Inputs, ServiceTake(i) PROVE UnwindInv'
  <2>1. /\ svc[i] = "running" /\ inflight' = [inflight EXCEPT ![i] = TRUE]
        /\ UNCHANGED <<phase, step, svc, stopped, pcI>>
    BY <1>10, Zenon DEF ServiceTake, InputOnly, startVars
  <2>2. phase # "failed"
    BY <1>0, <2>1, Zenon DEF UnwindInv, FailedStartQuiet
  <2>3. \A j \in StopWaits : inflight'[j] => svc[j] = "running"
    BY <1>0, <2>1, Zenon DEF UnwindInv
  <2> QED
    BY <2>1, <2>2, <2>3, Zenon DEF UnwindInv, FailedStartQuiet
<1>11. ASSUME NEW i \in Inputs, ServiceSend(i) PROVE UnwindInv'
  <2>1. /\ inflight' = [inflight EXCEPT ![i] = FALSE]
        /\ UNCHANGED <<phase, step, svc, stopped, pcI>>
    BY <1>11, Zenon DEF ServiceSend, InputOnly, startVars
  <2>2. \A j \in Inputs : inflight'[j] => inflight[j]
    BY <1>0, <2>1, Zenon
  <2> QED
    BY <1>0, <2>1, <2>2, Zenon DEF UnwindInv, FailedStartQuiet
<1>12. ASSUME NEW i \in Inputs,
              GatherSend(i) \/ GatherStart(i) \/ GatherTake(i) \/ GatherReturn(i) \/ GatherStop(i)
       PROVE  UnwindInv'
  BY <1>12, UnwindFrame, Zenon
     DEF GatherSend, GatherStart, GatherTake, GatherReturn, GatherStop, InputOnly, startVars
<1>13. CASE UNCHANGED <<startVars, inputVars>>
  BY <1>13, UnwindFrame, Zenon DEF startVars, inputVars
<1> QED
  BY <1>1, <1>2, <1>4, <1>5, <1>6, <1>7, <1>8, <1>9, <1>10, <1>11, <1>12, <1>13, InputFrame,
     Zenon DEF Startup, InputActs, Sending

(* Nothing runs at first. *)
LEMMA UnwindInit == Init => UnwindInv
<1>1. StopWaits \subseteq Inputs
  BY AgentAssumption DEF Inputs
<1> QED
  BY <1>1, Zenon DEF Init, UnwindInv, FailedStartQuiet

(* A start-up that failed has left no service input running and no metric  *)
(* in flight of those whose Stop waits, and has called Stop on none whose  *)
(* Start failed, for every configuration.                                  *)
THEOREM FailedStartCorrect == Spec => []FailedStartQuiet
<1>1. Init => StartInv /\ UnwindInv
  BY StartInvInit, UnwindInit
<1>2. Types /\ StartInv /\ UnwindInv /\ [Next]_vars => (StartInv /\ UnwindInv)'
  BY StartInvStep, UnwindStep, Zenon
<1>3. UnwindInv => FailedStartQuiet
  BY DEF UnwindInv
<1> QED
  BY <1>1, <1>2, <1>3, TypesHold, PTL DEF Spec

-----------------------------------------------------------------------------
(* The order in which the stages end and close their channels. *)

(* The contract of ServiceInput.Stop in cua/input.go: it returns after the *)
(* goroutines of the input have delivered.                                 *)
StopsWait == StopWaits = ServiceInputs

(* The channels behind the aggregators: the outputs' and those of the      *)
(* aggregator processors.                                                  *)
Late(c) == NumAggregators > 0 /\ (c = OutC \/ c[1] = "ap")

(* stopServiceInputs has passed input i. *)
Through(i) == i < pcI \/ pcI = 0

(* A processor that writes to a late channel reads from one, and the       *)
(* inputs' channel is not late.                                            *)
LEMMA LateFacts ==
  /\ ~Late(InputC)
  /\ \A u \in Units : Late(Dst(u)) => Late(u)
  /\ NumAggregators > 0 => Late(OutC) /\ Late(PushC)
<1>1. NumProcessors \in Nat /\ NumAggregators \in Nat /\ NumAggProcessors \in Nat
  BY AgentAssumption
<1> QED
  BY <1>1 DEF Late, Units, Dst, InputC, PushC, OutC, AggC

(* A stage has closed what it writes to exactly when it is over. *)
Closers ==
  /\ InputC \in closed <=> pcI = 0
  /\ \A u \in Units : Dst(u) \in closed <=> pcP[u] = "done"
  /\ NumAggregators > 0 => (PushC \in closed <=> aggClosed)
  /\ \A c \in Channels : c \in closed /\ Late(c) => aggClosed

(* A stage is over only when what it reads is, and nothing is in its hands. *)
Enders ==
  /\ \A u \in Units : pcP[u] \in {"close", "done"} => Ended(u) /\ kept[u] = {}
  /\ fwPc = "done" => Ended(AggC)
  /\ pcO = "done" => Ended(OutC)

(* runInputs stops the service inputs only when no gathering is left, and  *)
(* one that was stopped runs no more.                                      *)
InputEnd ==
  /\ pcI # 1 => GathersOver
  /\ \A i \in Inputs : Through(i) => svc[i] # "running" /\ (StopsWait => ~inflight[i])
  /\ stopped = {i \in ServiceInputs : Through(i)}

(* Once everything runs, the stages end one after the other. *)
CloseInv == Live => Closers /\ Enders /\ InputEnd

(* A channel that is closed and empty stays so. *)
LEMMA EndedStays ==
  ASSUME Types, [Next]_vars
  PROVE  \A c \in Channels : Ended(c) => Ended(c)'
<1> SUFFICES ASSUME NEW c \in Channels, Ended(c) PROVE Ended(c)'
  OBVIOUS
<1>0. NumAggregators \in Nat /\ \A a \in Aggregators : NumAggregators > 0
  BY AgentAssumption DEF Aggregators
<1>s. ASSUME NEW d \in Channels, NEW m, Send(d, m) PROVE Ended(c)'
  BY <1>s, Zenon DEF Send, Ended, Types, FlowType
<1>r. ASSUME NEW d \in Channels, Recv(d) PROVE Ended(c)'
  BY <1>r DEF Recv, Ended, Types, FlowType
<1>c. ASSUME NEW cs, Close(cs) PROVE Ended(c)'
  BY <1>c DEF Close, Ended
<1>u. CASE UNCHANGED <<chan, closed>>
  BY <1>u DEF Ended
<1>1. CASE Startup
  BY <1>1, <1>c, <1>u, Zenon DEF Startup, StartOk, InitFails, ConnectFails, ProcessorFails,
                    InputFails, InputFailsLogged, UnwindStop, UnwindEnd, chanVars
<1>2. CASE Cancel \/ Over \/ UNCHANGED vars \/ RunReturn \/ OutDone
  BY <1>2, <1>u, Zenon DEF Cancel, Over, vars, RunReturn, OutDone, chanVars
<1>3. CASE StopInput \/ CloseInputs
  BY <1>3, <1>c, <1>u, Zenon DEF StopInput, CloseInputs, chanVars
<1>4. CASE OutRecv
  BY <1>4, <1>r, ChannelFacts, Zenon DEF OutRecv
<1>5. CASE Forwarding
  BY <1>5, <1>s, <1>r, <1>c, <1>u, <1>0, ChannelFacts, Zenon
     DEF Forwarding, FwRecv, FwSend, FwDropped, FwCancel, CloseAggregators, FwAdd,
         chanVars
<1>6. ASSUME NEW i \in Inputs, InputActs(i) PROVE Ended(c)'
  BY <1>6, <1>s, <1>u, ChannelFacts, Zenon
     DEF InputActs, ServiceTake, Sending, ServiceSend, GatherTake, GatherSend, Make,
         GatherStart, GatherReturn, GatherStop, chanVars
<1>7. ASSUME NEW u \in Units, UnitActs(u) PROVE Ended(c)'
  BY <1>7, <1>s, <1>r, <1>c, <1>u, ChannelFacts, Zenon
     DEF UnitActs, Processing, ProcPass, ProcDrop, ProcKeep, ProcEmit, ProcStop,
         ProcClose, ProcBackground, Src, chanVars
<1>8. ASSUME NEW a \in Aggregators, PushActs(a) PROVE Ended(c)'
  BY <1>8, <1>s, <1>u, <1>0, ChannelFacts, Zenon
     DEF PushActs, Pushing, PushPeriod, PushLast, PushSend, PushEnd, chanVars
<1> QED
  BY <1>1, <1>2, <1>3, <1>4, <1>5, <1>6, <1>7, <1>8, Zenon
     DEF Next, Stopping, InputActs, UnitActs, PushActs

(* Start-up is over once Run is running. *)
LEMMA LiveNoStartup == Live => ~Startup
  BY Zenon DEF Live, Startup, StartOk, InitFails, ConnectFails, ProcessorFails,
         InputFails, InputFailsLogged, UnwindStop, UnwindEnd, Starting

(* Only start-up and the units themselves touch the units. *)
LEMMA ProcFrame ==
  ASSUME [Next]_vars, ~Startup, ~ \E u \in Units : UnitActs(u)
  PROVE  UNCHANGED procVars
<1>1. CASE Cancel \/ Over \/ RunReturn \/ OutRecv \/ OutDone \/ UNCHANGED vars
  BY <1>1, Zenon DEF Cancel, Over, RunReturn, OutRecv, OutDone, vars
<1>2. CASE StopInput \/ CloseInputs
  BY <1>2, Zenon DEF StopInput, CloseInputs, InputOnly
<1>3. CASE \E i \in Inputs : InputActs(i)
  BY <1>3, Zenon DEF InputActs, ServiceTake, Sending, ServiceSend, GatherTake, GatherSend,
              GatherStart, GatherReturn, GatherStop, InputOnly
<1>4. CASE Forwarding
  BY <1>4, Zenon DEF Forwarding, FwRecv, FwSend, FwDropped, FwCancel, CloseAggregators,
              FwAdd, AggOnly
<1>5. CASE \E a \in Aggregators : PushActs(a)
  BY <1>5, Zenon DEF PushActs, Pushing, PushPeriod, PushLast, PushSend, PushEnd, AggOnly
<1> QED
  BY <1>1, <1>2, <1>3, <1>4, <1>5, Zenon
     DEF Next, Stopping, InputActs, PushActs, UnitActs

(* Only runOutputs touches what it has received. *)
LEMMA OutFrame ==
  ASSUME [Next]_vars, ~OutRecv, ~OutDone PROVE UNCHANGED outVars
<1>1. CASE Cancel \/ Over \/ RunReturn \/ Startup \/ UNCHANGED vars
  BY <1>1, Zenon DEF Cancel, Over, RunReturn, vars, Startup, StartOk, InitFails,
              ConnectFails, ProcessorFails, InputFails, InputFailsLogged, UnwindStop, UnwindEnd
<1>2. CASE StopInput \/ CloseInputs
  BY <1>2, Zenon DEF StopInput, CloseInputs, InputOnly
<1>3. CASE \E i \in Inputs : InputActs(i)
  BY <1>3, Zenon DEF InputActs, ServiceTake, Sending, ServiceSend, GatherTake, GatherSend,
              GatherStart, GatherReturn, GatherStop, InputOnly
<1>4. CASE Forwarding
  BY <1>4, Zenon DEF Forwarding, FwRecv, FwSend, FwDropped, FwCancel, CloseAggregators,
              FwAdd, AggOnly
<1>5. CASE \E a \in Aggregators : PushActs(a)
  BY <1>5, Zenon DEF PushActs, Pushing, PushPeriod, PushLast, PushSend, PushEnd, AggOnly
<1>6. CASE \E u \in Units : UnitActs(u)
  BY <1>6, Zenon DEF UnitActs, Processing, ProcPass, ProcDrop, ProcKeep, ProcEmit,
              ProcStop, ProcClose, ProcBackground, ProcOnly
<1> QED
  BY <1>1, <1>2, <1>3, <1>4, <1>5, <1>6, Zenon
     DEF Next, Stopping, InputActs, PushActs, UnitActs

(* A stage that comes to its end found what it reads at its end. *)
LEMMA EndersStep ==
  ASSUME Types, Enders, [Next]_vars, Live PROVE Enders'
<1>0. ~Startup
  BY LiveNoStartup
<1>1. \A c \in Channels : Ended(c) => Ended(c)'
  BY EndedStays
<1>2. /\ OutC \in Channels /\ \A u \in Units : u \in Channels
      /\ fwPc' = "done" => AggC \in Channels
  <2>1. NumAggregators \in Nat
    BY AgentAssumption
  <2>2. AggEnd'
    BY AggEndStep DEF Types
  <2> QED
    BY <2>1, <2>2, ChannelFacts DEF AggEnd
<1>3. ASSUME NEW u \in Units, pcP'[u] \in {"close", "done"}
      PROVE  Ended(u) /\ kept'[u] = {}
  <2>1. ASSUME NEW v \in Units, UnitActs(v) PROVE Ended(u) /\ kept'[u] = {}
    <3> USE DEF Enders, Types, UnitType, FlowType, Src
    <3>1. CASE ProcPass(v) \/ ProcKeep(v) \/ ProcEmit(v)
      BY <1>3, <3>1, Zenon DEF ProcPass, ProcKeep, ProcEmit
    <3>2. CASE ProcDrop(v)
      BY <1>3, <3>2, Zenon DEF ProcDrop, procVars
    <3>3. CASE ProcBackground(v)
      BY <1>3, <3>3, Zenon DEF ProcBackground
    <3>4. CASE ProcStop(v)
      BY <1>3, <3>4, Zenon DEF ProcStop, StopWaitsFor
    <3>5. CASE ProcClose(v)
      BY <1>3, <3>5, Zenon DEF ProcClose
    <3> QED
      BY <2>1, <3>1, <3>2, <3>3, <3>4, <3>5, Zenon DEF UnitActs, Processing
  <2>2. CASE UNCHANGED procVars
    BY <1>3, <2>2, Zenon DEF Enders, procVars
  <2> QED
    BY <1>0, <2>1, <2>2, ProcFrame, Zenon
<1>4. fwPc' = "done" => Ended(AggC)
  <2>1. CASE Forwarding
    BY <2>1, Zenon DEF Forwarding, FwRecv, FwSend, FwDropped, FwCancel, CloseAggregators,
                FwAdd, Enders
  <2>2. ASSUME NEW a \in Aggregators, PushActs(a) PROVE fwPc' = fwPc
    BY <2>2, Zenon DEF PushActs, Pushing, PushPeriod, PushLast, PushSend, PushEnd
  <2>3. CASE UNCHANGED aggVars
    BY <2>3, Zenon DEF aggVars, Enders
  <2> QED
    BY <2>1, <2>2, <2>3, AggFrame, Zenon DEF Enders
<1>5. pcO' = "done" => Ended(OutC)
  <2>1. CASE OutRecv \/ OutDone
    BY <2>1, Zenon DEF OutRecv, OutDone, Enders
  <2>2. CASE UNCHANGED outVars
    BY <2>2, Zenon DEF outVars, Enders
  <2> QED
    BY <2>1, <2>2, OutFrame, Zenon
<1> QED
  BY <1>1, <1>2, <1>3, <1>4, <1>5, Zenon DEF Enders

(* Stopping the inputs one by one keeps track of the ones that were        *)
(* stopped.                                                                *)
LEMMA InputEndStep ==
  ASSUME Types, InputEnd, [Next]_vars, Live PROVE InputEnd'
<1>0. /\ NumInputs \in Nat \ {0} /\ ServiceInputs \subseteq Inputs
      /\ StopWaits \subseteq ServiceInputs
  BY AgentAssumption DEF Inputs
<1> USE <1>0 DEF InputEnd, Types, InputType, GathersOver, Through, Inputs
<1>1. CASE StopInput
  <2>1. /\ pcI \in Inputs /\ pcI' = pcI + 1 /\ pcI' # 0 /\ pcI # 0
        /\ UNCHANGED <<inflight, pcG>> /\ GathersOver
        /\ pcI \in StopWaits => ~inflight[pcI]
        /\ svc' = [svc EXCEPT ![pcI] = IF @ = "running" THEN "stopped" ELSE @]
        /\ stopped' = stopped \cup ({pcI} \cap ServiceInputs)
    BY <1>1 DEF StopInput, StopNext
  <2>2. ASSUME NEW i \in Inputs, Through(i)'
        PROVE  svc'[i] # "running" /\ (StopsWait => ~inflight'[i])
    <3>1. CASE i = pcI
      BY <2>1, <3>1, Zenon DEF StopsWait
    <3>2. CASE i # pcI
      <4>1. Through(i)
        BY <2>1, <2>2, <3>2
      <4> QED
        BY <2>1, <3>2, <4>1, Zenon
    <3> QED
      BY <3>1, <3>2, Zenon
  <2>3. \A i \in ServiceInputs : Through(i)' <=> Through(i) \/ i = pcI
    BY <2>1
  <2> QED
    BY <2>1, <2>2, <2>3, Zenon
<1>2. CASE CloseInputs
  <2>1. /\ pcI = NumInputs + 1 /\ pcI' = 0 /\ UNCHANGED <<svc, inflight, stopped, pcG>>
    BY <1>2, Zenon DEF CloseInputs
  <2>2. \A i \in Inputs : Through(i) /\ Through(i)'
    BY <2>1
  <2>3. pcI # 1
    BY <2>1
  <2> QED
    BY <2>1, <2>2, <2>3, Zenon
<1>3. ASSUME NEW i \in Inputs, InputActs(i) PROVE InputEnd'
  <2>1. CASE ServiceTake(i)
    BY <2>1, Zenon DEF ServiceTake
  <2>2. CASE ServiceSend(i)
    BY <2>2, Zenon DEF ServiceSend
  <2>3. CASE GatherSend(i)
    BY <2>3, Zenon DEF GatherSend
  <2>4. CASE GatherStart(i)
    BY <2>4, Zenon DEF GatherStart
  <2>5. CASE GatherReturn(i)
    BY <2>5, Zenon DEF GatherReturn
  <2>6. CASE GatherStop(i)
    BY <2>6, Zenon DEF GatherStop
  <2>7. CASE GatherTake(i)
    BY <2>7, Zenon DEF GatherTake
  <2> QED
    BY <1>3, <2>1, <2>2, <2>3, <2>4, <2>5, <2>6, <2>7, Zenon DEF InputActs, Sending
<1>4. CASE UNCHANGED inputVars
  BY <1>4, Zenon DEF inputVars
<1> QED
  BY <1>1, <1>2, <1>3, <1>4, InputFrame, LiveNoStartup, Zenon DEF RunReturn

(* Only the ends of stages touch what the closing order is about. *)
LEMMA CloseFrame ==
  ASSUME [Next]_vars, ~Startup, ~StopInput, ~CloseInputs, ~CloseAggregators,
         ~ \E u \in Units : UnitActs(u)
  PROVE  UNCHANGED <<closed, pcP, aggClosed, pcI>>
<1> USE DEF procVars, chanVars, aggVars, inputVars
<1>1. CASE Cancel \/ Over \/ RunReturn \/ OutDone \/ UNCHANGED vars
  BY <1>1, Zenon DEF Cancel, Over, RunReturn, OutDone, vars
<1>2. CASE OutRecv
  BY <1>2, Zenon DEF OutRecv, Recv
<1>3. CASE \E i \in Inputs : InputActs(i)
  BY <1>3, Zenon DEF InputActs, ServiceTake, Sending, ServiceSend, GatherTake, GatherSend, Make,
              Send, GatherStart, GatherReturn, GatherStop, InputOnly
<1>4. CASE FwRecv \/ FwSend \/ FwDropped \/ FwCancel
           \/ \E taken, drop \in BOOLEAN : FwAdd(taken, drop)
  BY <1>4, Zenon DEF FwRecv, FwSend, FwDropped, FwCancel, FwAdd, Recv, Send, AggOnly
<1>5. CASE \E a \in Aggregators : PushActs(a)
  BY <1>5, Zenon DEF PushActs, Pushing, PushPeriod, PushLast, PushSend, PushEnd, Send,
              AggOnly
<1> QED
  BY <1>1, <1>2, <1>3, <1>4, <1>5, Zenon
     DEF Next, Stopping, Forwarding, InputActs, PushActs, UnitActs

(* Each stage closes its own channel, and closing cascades. *)
LEMMA ClosersStep ==
  ASSUME Types, Closers, Enders, [Next]_vars, Live PROVE Closers'
<1>0. NumInputs \in Nat \ {0} /\ NumAggregators \in Nat
  BY AgentAssumption
<1> USE <1>0, ChannelFacts, OneCloser, LateFacts
<1> USE DEF Closers, procVars, chanVars, aggVars, inputVars
<1>1. CASE StopInput
  <2>1. /\ UNCHANGED <<closed, pcP, aggClosed>> /\ pcI # 0 /\ pcI' # 0
    BY <1>1 DEF StopInput, StopNext, InputOnly, Inputs
  <2> QED
    BY <2>1, Zenon DEF Late
<1>2. CASE CloseInputs
  <2>1. /\ closed' = closed \cup {InputC} /\ pcI' = 0 /\ UNCHANGED <<pcP, aggClosed>>
    BY <1>2, Zenon DEF CloseInputs, Close, InputOnly
  <2> QED
    BY <2>1, Zenon DEF Late
<1>3. CASE CloseAggregators
  <2>1. /\ closed' = closed \cup {PushC} /\ aggClosed' = TRUE /\ UNCHANGED <<pcP, pcI>>
        /\ NumAggregators > 0
    BY <1>3 DEF CloseAggregators, Close, AggOnly, Types, AggEnd
  <2> QED
    BY <2>1, Zenon DEF Late
<1>4. ASSUME NEW u \in Units, UnitActs(u) PROVE Closers'
  <2> USE DEF ProcOnly
  <2>1. CASE ProcClose(u)
    <3>1. /\ closed' = closed \cup {Dst(u)} /\ pcP' = [pcP EXCEPT ![u] = "done"]
          /\ UNCHANGED <<aggClosed, pcI>> /\ pcP[u] = "close"
      BY <2>1, Zenon DEF ProcClose, Close, ClosedBy
    <3>2. u \in closed
      BY <3>1, Zenon DEF Enders, Ended
    <3>3. Late(Dst(u)) => aggClosed
      BY <3>2, Zenon
    <3>4. pcP \in [Units -> {"off", "recv", "emit", "close", "done"}]
      BY Zenon DEF Types, UnitType
    <3>5. \A v \in Units : Dst(v) \in closed' <=> pcP'[v] = "done"
      BY <3>1, <3>4
    <3>6. \A c \in Channels : c \in closed' /\ Late(c) => aggClosed
      BY <3>1, <3>3, Zenon
    <3>7. /\ InputC \in closed' <=> pcI' = 0
          /\ NumAggregators > 0 => (PushC \in closed' <=> aggClosed')
      BY <3>1, Zenon
    <3> QED
      BY <3>1, <3>5, <3>6, <3>7, Zenon DEF Late
  <2>2. CASE ~ProcClose(u)
    <3>1. UNCHANGED <<closed, aggClosed, pcI>>
      BY <1>4, <2>2, Zenon DEF UnitActs, Processing, ProcPass, ProcDrop, ProcKeep, ProcEmit,
                   ProcStop, ProcBackground, Recv, Send
    <3>2. \A v \in Units : pcP'[v] = "done" <=> pcP[v] = "done"
      <4>1. CASE UNCHANGED pcP
        BY <4>1, Zenon
      <4>2. CASE ProcPass(u) \/ ProcEmit(u) \/ ProcStop(u)
        <5>1. PICK s \in {"emit", "recv", "close"} : pcP' = [pcP EXCEPT ![u] = s]
          BY <4>2, Zenon DEF ProcPass, ProcEmit, ProcStop
        <5>2. pcP[u] # "done"
          BY <4>2, Zenon DEF ProcPass, ProcEmit, ProcStop
        <5>3. pcP \in [Units -> {"off", "recv", "emit", "close", "done"}]
          BY Zenon DEF Types, UnitType
        <5> QED
          BY <5>1, <5>2, <5>3
      <4>3. CASE ProcDrop(u) \/ ProcKeep(u) \/ ProcBackground(u)
        BY <4>1, <4>3, Zenon DEF ProcDrop, ProcKeep, ProcBackground
      <4> QED
        BY <1>4, <2>2, <4>2, <4>3, Zenon DEF UnitActs, Processing
    <3> QED
      BY <3>1, <3>2, Zenon DEF Late
  <2> QED
    BY <2>1, <2>2, Zenon
<1>5. CASE UNCHANGED <<closed, pcP, aggClosed, pcI>>
  BY <1>5, Zenon DEF Late
<1> QED
  BY <1>1, <1>2, <1>3, <1>4, <1>5, CloseFrame, LiveNoStartup, Zenon

(* Every step, the last step of start-up included, keeps the closing       *)
(* order.                                                                  *)
LEMMA CloseInvStep ==
  Types /\ StartInv /\ CloseInv /\ [Next]_vars => CloseInv'
<1> SUFFICES ASSUME Types, StartInv, CloseInv, [Next]_vars, Live'
             PROVE  (Closers /\ Enders /\ InputEnd)'
  BY DEF CloseInv
<1>1. CASE Live
  BY <1>1, ClosersStep, EndersStep, InputEndStep, Zenon DEF CloseInv
<1>2. CASE ~Live
  <2>1. Early
    BY <1>2 DEF Types, StartType, Live, Early
  <2>2. StartOk \/ InputFailsLogged
    <3>1. CASE UNCHANGED <<startVars, inputVars, procVars, aggVars, outVars, chanVars, dropped>>
      BY <1>2, <3>1, Zenon DEF Live, startVars
    <3>2. CASE \E i \in Inputs : ServiceTake(i) \/ ServiceSend(i)
      BY <1>2, <3>2, Zenon DEF Live, startVars, ServiceTake, ServiceSend, InputOnly
    <3>3. CASE InitFails \/ ConnectFails \/ ProcessorFails \/ InputFails \/ UnwindStop \/ UnwindEnd
      BY <1>2, <3>3, Zenon DEF Live, InitFails, ConnectFails, ProcessorFails, InputFails,
                  UnwindStop, UnwindEnd, startVars
    <3> QED
      BY <2>1, <3>1, <3>2, <3>3, EarlySteps, Zenon DEF Startup
  <2>3. phase = "starting"
    BY <2>2, Zenon DEF StartOk, InputFailsLogged, Starting
  <2>4. /\ UNCHANGED <<closed, stopped, pcI, fwPc, pcO, aggClosed>>
        /\ \A u \in Units : pcP'[u] \in {"off", "recv"}
    BY <2>1, <2>2, <2>3, Zenon DEF StartOk, InputFailsLogged, procVars, aggVars, outVars,
                     chanVars, StartInv, Types, UnitType
  <2>5. /\ closed = {} /\ stopped = {} /\ pcI = 1 /\ fwPc = "recv" /\ pcO = "recv"
        /\ aggClosed => NumAggregators = 0
    BY <2>1, <2>3, Zenon DEF StartInv
  <2>6. ServiceInputs \subseteq Inputs /\ NumInputs \in Nat /\ NumAggregators \in Nat
    BY AgentAssumption DEF Inputs
  <2>7. \A i \in Inputs : ~Through(i)'
    BY <2>4, <2>5, <2>6 DEF Through, Inputs
  <2>8. Closers'
    BY <2>4, <2>5, <2>6 DEF Closers
  <2>9. Enders'
    BY <2>4, <2>5, Zenon DEF Enders
  <2>10. InputEnd'
    BY <2>4, <2>5, <2>6, <2>7, Zenon DEF InputEnd
  <2> QED
    BY <2>8, <2>9, <2>10, Zenon
<1> QED
  BY <1>1, <1>2, Zenon

(* No step sends on a closed channel or closes one twice: a sender's own   *)
(* stage has not ended, and the channel it sends on is closed by that      *)
(* stage alone.                                                            *)
LEMMA NoPanicStep ==
  ASSUME Types, StartInv, CloseInv, StopsWait, NoPanic, [Next]_vars
  PROVE  NoPanic'
<1>0. NumInputs \in Nat \ {0} /\ NumAggregators \in Nat
      /\ \A a \in Aggregators : NumAggregators > 0
  BY AgentAssumption DEF Aggregators
<1>s. ASSUME NEW c, NEW m, Send(c, m), c \notin closed PROVE NoPanic'
  BY <1>s, Zenon DEF Send, NoPanic
<1>c. ASSUME NEW cs, Close(cs), cs \cap closed = {} PROVE NoPanic'
  BY <1>c, Zenon DEF Close, NoPanic
<1>u. CASE UNCHANGED panicked
  BY <1>u DEF NoPanic
<1>1. CASE Early
  <2>1. CASE UNCHANGED <<startVars, inputVars, procVars, aggVars, outVars, chanVars, dropped>>
    BY <2>1, <1>u, Zenon DEF chanVars
  <2>2. ASSUME NEW i \in Inputs, ServiceTake(i) PROVE NoPanic'
    BY <2>2, <1>u, Zenon DEF ServiceTake, chanVars
  <2>3. ASSUME NEW i \in Inputs, ServiceSend(i) PROVE NoPanic'
    <3>1. closed = {}
      BY <1>1, <2>3, Zenon DEF ServiceSend, StartInv, Early, Types, InputType
    <3> QED
      BY <2>3, <3>1, <1>s, Zenon DEF ServiceSend, Make
  <2>4. CASE StartOk \/ InitFails \/ ConnectFails \/ InputFails \/ InputFailsLogged
             \/ UnwindStop \/ UnwindEnd
    BY <2>4, <1>u, Zenon DEF StartOk, InitFails, ConnectFails, InputFails, InputFailsLogged,
                UnwindStop, UnwindEnd, chanVars
  <2>5. CASE ProcessorFails
    <3>1. closed = {}
      BY <2>5, Zenon DEF ProcessorFails, Starting, StartInv
    <3> QED
      BY <2>5, <3>1, <1>c, Zenon DEF ProcessorFails
  <2> QED
    BY <1>1, <2>1, <2>2, <2>3, <2>4, <2>5, EarlySteps, Zenon DEF Startup
<1>2. CASE Live
  <2>0. Closers /\ Enders /\ InputEnd
    BY <1>2 DEF CloseInv
  <2>1. CASE Cancel \/ Over \/ RunReturn \/ OutDone \/ StopInput \/ UNCHANGED vars
    BY <2>1, <1>u, Zenon DEF Cancel, Over, RunReturn, OutDone, StopInput, vars, chanVars
  <2>2. CASE OutRecv
    BY <2>2, <1>u, Zenon DEF OutRecv, Recv
  <2>3. CASE CloseInputs
    <3>1. InputC \notin closed
      BY <2>0, <2>3, <1>0 DEF CloseInputs, Closers
    <3> QED
      BY <2>3, <3>1, <1>c, Zenon DEF CloseInputs
  <2>4. CASE CloseAggregators
    <3>1. PushC \notin closed
      BY <2>0, <2>4, <1>0 DEF CloseAggregators, Closers, Types, AggEnd
    <3> QED
      BY <2>4, <3>1, <1>c, Zenon DEF CloseAggregators
  <2>5. CASE FwSend
    <3>1. ~aggClosed /\ NumAggregators > 0
      BY <2>5, <1>0 DEF FwSend, Types, AggEnd, AggregatorsOver
    <3>2. OutC \notin closed
      BY <2>0, <3>1, ChannelFacts, LateFacts, Zenon DEF Closers
    <3> QED
      BY <2>5, <3>2, <1>s, Zenon DEF FwSend
  <2>6. CASE FwRecv \/ FwDropped \/ FwCancel
             \/ \E taken, drop \in BOOLEAN : FwAdd(taken, drop)
    BY <2>6, <1>u, Zenon DEF FwRecv, FwDropped, FwCancel, FwAdd, Recv, chanVars
  <2>7. ASSUME NEW i \in Inputs, ServiceSend(i) PROVE NoPanic'
    <3>1. ~Through(i)
      BY <2>0, <2>7, Zenon DEF ServiceSend, InputEnd
    <3>2. InputC \notin closed
      BY <2>0, <3>1, Zenon DEF Closers, Through
    <3> QED
      BY <2>7, <3>2, <1>s, Zenon DEF ServiceSend, Make
  <2>8. ASSUME NEW i \in Inputs, GatherSend(i) PROVE NoPanic'
    <3>1. pcI = 1
      BY <2>0, <2>8, Zenon DEF GatherSend, InputEnd, GathersOver
    <3>2. InputC \notin closed
      BY <2>0, <3>1 DEF Closers
    <3> QED
      BY <2>8, <3>2, <1>s, Zenon DEF GatherSend, Make
  <2>9. ASSUME NEW i \in Inputs,
               \/ ServiceTake(i) \/ GatherStart(i) \/ GatherTake(i)
               \/ GatherReturn(i) \/ GatherStop(i)
        PROVE  NoPanic'
    BY <2>9, <1>u, Zenon DEF ServiceTake, GatherStart, GatherTake, GatherReturn, GatherStop,
                chanVars
  <2>10. ASSUME NEW u \in Units, UnitActs(u) PROVE NoPanic'
    <3>1. CASE ProcPass(u) \/ ProcDrop(u) \/ ProcKeep(u) \/ ProcStop(u)
      BY <3>1, <1>u, Zenon DEF ProcPass, ProcDrop, ProcKeep, ProcStop, Recv, chanVars
    <3>2. CASE ProcEmit(u)
      <4>1. Dst(u) \notin closed
        BY <2>0, <3>2, Zenon DEF ProcEmit, Closers
      <4> QED
        BY <3>2, <4>1, <1>s, Zenon DEF ProcEmit
    <3>3. CASE ProcBackground(u)
      <4>1. Dst(u) \notin closed
        BY <2>0, <3>3, Zenon DEF ProcBackground, Closers, Enders
      <4> QED
        BY <3>3, <4>1, <1>s, Zenon DEF ProcBackground
    <3>4. CASE ProcClose(u)
      <4>1. Dst(u) \notin closed
        BY <2>0, <3>4, Zenon DEF ProcClose, Closers
      <4> QED
        BY <3>4, <4>1, <1>c, Zenon DEF ProcClose, ClosedBy
    <3> QED
      BY <2>10, <3>1, <3>2, <3>3, <3>4, Zenon DEF UnitActs, Processing
  <2>11. ASSUME NEW a \in Aggregators, PushSend(a) PROVE NoPanic'
    <3>1. ~aggClosed /\ NumAggregators > 0
      BY <2>11, <1>0, Zenon DEF PushSend, Types, AggEnd, AggregatorsOver
    <3>2. PushC \notin closed
      BY <2>0, <3>1, Zenon DEF Closers
    <3> QED
      BY <2>11, <3>2, <1>s, Zenon DEF PushSend
  <2>12. ASSUME NEW a \in Aggregators, PushPeriod(a) \/ PushLast(a) \/ PushEnd(a)
         PROVE  NoPanic'
    BY <2>12, <1>u, Zenon DEF PushPeriod, PushLast, PushEnd, chanVars
  <2> QED
    BY <1>2, <2>1, <2>2, <2>3, <2>4, <2>5, <2>6, <2>7, <2>8, <2>9, <2>10, <2>11,
       <2>12, LiveNoStartup, Zenon
       DEF Next, Stopping, Forwarding, Sending, Pushing, UnitActs
<1> QED
  BY <1>1, <1>2, Zenon DEF Types, StartType, Early, Live

(* The closing order holds in every behaviour of the agent. *)
LEMMA CloseInvHolds == Spec => [](Types /\ StartInv /\ CloseInv)
<1>1. Init => CloseInv
  BY Zenon DEF Init, CloseInv, Live
<1> QED
  BY <1>1, StartInvInit, StartInvStep, CloseInvStep, TypesHold, PTL DEF Spec

(* No goroutine ever sends on a closed channel or closes one twice, for    *)
(* every number of plugins and channel capacity, if every service input    *)
(* keeps the contract of Stop.                                             *)
THEOREM NoPanicCorrect == ASSUME StopsWait PROVE Spec => []NoPanic
<1>1. Init => NoPanic
  BY Zenon DEF Init, NoPanic
<1>2. NoPanic /\ Types /\ StartInv /\ CloseInv /\ [Next]_vars => NoPanic'
  BY NoPanicStep
<1> QED
  BY <1>1, <1>2, CloseInvHolds, PTL DEF Spec

-----------------------------------------------------------------------------
(* No metric is lost on the way. *)

(* A metric is in the pipeline, was received by the outputs or was dropped *)
(* by a plugin.                                                            *)
Held(m) ==
  \/ \E c \in Channels : m \in Range(chan[c])
  \/ \E u \in Units : m \in kept[u] \/ (pcP[u] = "emit" /\ procHand[u] = m)
  \/ fwPc \in {"add", "send"} /\ fwHand[1] = m
  \/ m \in Range(got) \/ m \in dropped

(* Every metric an input made is held. *)
HeldInv == \A i \in Inputs : \A n \in 1..made[i] : Held(<<i, n>>)

(* Run returns when every stage is over. *)
ReturnInv ==
  phase = "returned" =>
    pcI = 0 /\ aggClosed /\ pcO = "done" /\ \A u \in Units : pcP[u] = "done"

(* Appending adds one element. *)
LEMMA RangeAppend ==
  ASSUME NEW S, NEW s \in Seq(S), NEW e \in S
  PROVE  Range(Append(s, e)) = Range(s) \cup {e}
<1>1. PICK t : /\ t = Append(s, e) /\ Len(t) = Len(s) + 1 /\ t \in Seq(S)
               /\ \A i \in 1..Len(s) : t[i] = s[i]
               /\ t[Len(s) + 1] = e
  BY AppendProperties, Zenon
<1>2. PICK l \in Nat : l = Len(s)
  BY LenProperties, Zenon
<1>3. DOMAIN s = 1..l /\ DOMAIN t = 1..(l + 1)
  BY <1>1, <1>2, LenProperties, Zenon
<1>4. \A x : x \in Range(t) <=> x \in Range(s) \/ x = e
  BY <1>1, <1>2, <1>3 DEF Range
<1> QED
  BY <1>1, <1>4, Zenon

(* Taking the head removes at most one element. *)
LEMMA RangeHeadTail ==
  ASSUME NEW S, NEW s \in Seq(S), s # <<>>
  PROVE  Range(s) \subseteq Range(Tail(s)) \cup {Head(s)}
<1>1. /\ Tail(s) \in Seq(S) /\ Len(Tail(s)) = Len(s) - 1
      /\ \A i \in 1..Len(Tail(s)) : Tail(s)[i] = s[i + 1]
  BY HeadTailProperties, Zenon
<1>2. Len(s) \in Nat \ {0} /\ DOMAIN s = 1..Len(s) /\ DOMAIN Tail(s) = 1..(Len(s) - 1)
  BY <1>1, LenProperties, EmptySeq, Zenon
<1>3. Head(s) = s[1]
  OBVIOUS
<1>4. ASSUME NEW i \in DOMAIN s PROVE s[i] = Head(s) \/ \E j \in DOMAIN Tail(s) : Tail(s)[j] = s[i]
  <2>1. CASE i = 1
    BY <1>3, <2>1, Zenon
  <2>2. CASE i # 1
    <3>1. i - 1 \in 1..(Len(s) - 1) /\ (i - 1) + 1 = i
      BY <1>2, <2>2
    <3>2. Tail(s)[i - 1] = s[i]
      BY <1>1, <3>1, Zenon
    <3> QED
      BY <1>2, <3>1, <3>2, Zenon
  <2> QED
    BY <2>1, <2>2, Zenon
<1> QED
  BY <1>4, Zenon DEF Range

(* A send that does not panic puts the metric in the channel. *)
LEMMA SendHolds ==
  ASSUME FlowType, NoPanic', NEW c \in Channels, NEW m \in Metrics, Send(c, m)
  PROVE  /\ m \in Range(chan'[c])
         /\ \A d \in Channels : Range(chan[d]) \subseteq Range(chan'[d])
<1>1. chan' = [chan EXCEPT ![c] = Append(chan[c], m)]
  BY Zenon DEF Send, NoPanic
<1>2. chan[c] \in Seq(Metrics) /\ chan \in [Channels -> Seq(Metrics)]
  BY Zenon DEF FlowType
<1>3. Range(Append(chan[c], m)) = Range(chan[c]) \cup {m}
  BY <1>2, RangeAppend
<1>4. chan'[c] = Append(chan[c], m) /\ \A d \in Channels : d # c => chan'[d] = chan[d]
  BY <1>1, <1>2, Zenon
<1> QED
  BY <1>3, <1>4, Zenon

(* A receive takes nothing but the head. *)
LEMMA RecvHolds ==
  ASSUME FlowType, NEW c \in Channels, Recv(c)
  PROVE  \A d \in Channels :
           Range(chan[d]) \subseteq Range(chan'[d]) \cup {Head(chan[c])}
<1>1. chan' = [chan EXCEPT ![c] = Tail(chan[c])] /\ chan[c] # <<>>
  BY Zenon DEF Recv
<1>2. chan[c] \in Seq(Metrics) /\ chan \in [Channels -> Seq(Metrics)]
  BY DEF FlowType
<1>3. Range(chan[c]) \subseteq Range(Tail(chan[c])) \cup {Head(chan[c])}
  BY <1>1, <1>2, RangeHeadTail, Zenon
<1>4. chan'[c] = Tail(chan[c]) /\ \A d \in Channels : d # c => chan'[d] = chan[d]
  BY <1>1, <1>2, Zenon
<1> QED
  BY <1>3, <1>4, Zenon

(* No step loses a metric: it leaves one hand or channel for another, or   *)
(* is dropped by a plugin.                                                 *)
LEMMA HeldStays ==
  ASSUME Types, StartInv, NoPanic', [Next]_vars, NEW m, Held(m)
  PROVE  Held(m)'
<1>0. NumAggregators \in Nat /\ \A a \in Aggregators : NumAggregators > 0
  BY AgentAssumption DEF Aggregators
<1> USE <1>0, ChannelFacts
<1> USE DEF procVars, outVars, aggVars, chanVars
<1> DEFINE More == \A d \in Channels : Range(chan[d]) \subseteq Range(chan'[d])
<1>1. CASE StartOk \/ ProcessorFails
  <2>1. /\ UNCHANGED <<chan, kept, procHand, fwPc, fwHand, got, dropped>>
        /\ \A u \in Units : pcP[u] = "emit" => pcP'[u] = "emit"
    <3>1. CASE StartOk
      BY <3>1, Zenon DEF StartOk, Starting, StartInv, Early
    <3>2. CASE ProcessorFails
      BY <3>2, Zenon DEF ProcessorFails, Close, Types, UnitType
    <3> QED
      BY <1>1, <3>1, <3>2, Zenon
  <2> QED
    BY <2>1, Zenon DEF Held
<1>2. CASE OutRecv
  <2>1. \A d \in Channels : Range(chan[d]) \subseteq Range(chan'[d]) \cup {Head(chan[OutC])}
    BY <1>2, RecvHolds, Zenon DEF OutRecv, Types
  <2>2. Head(chan[OutC]) \in Metrics
    BY <1>2, RecvType, Zenon DEF OutRecv, Types
  <2>3. Range(got') = Range(got) \cup {Head(chan[OutC])}
    BY <1>2, <2>2, RangeAppend DEF OutRecv, Types, FlowType
  <2>4. UNCHANGED <<pcP, procHand, kept, fwPc, fwHand, dropped>>
    BY <1>2, Zenon DEF OutRecv
  <2> QED
    BY <2>1, <2>3, <2>4, Zenon DEF Held
<1>3. CASE FwRecv
  <2>1. \A d \in Channels : Range(chan[d]) \subseteq Range(chan'[d]) \cup {Head(chan[AggC])}
    BY <1>3, RecvHolds, Zenon DEF FwRecv, Types
  <2>2. /\ fwPc = "recv" /\ fwPc' = "add" /\ fwHand'[1] = Head(chan[AggC])
        /\ UNCHANGED <<pcP, procHand, kept, got, dropped>>
    BY <1>3, Zenon DEF FwRecv, AggOnly
  <2> QED
    BY <2>1, <2>2, Zenon DEF Held
<1>4. ASSUME NEW taken \in BOOLEAN, NEW drop \in BOOLEAN, FwAdd(taken, drop)
      PROVE  Held(m)'
  <2>1. /\ fwPc' \in {"add", "send"} /\ fwHand'[1] = fwHand[1]
        /\ UNCHANGED <<chan, pcP, procHand, kept, got, dropped>>
    BY <1>4, Zenon DEF FwAdd, AggOnly
  <2> QED
    BY <2>1, Zenon DEF Held
<1>5. CASE FwSend
  <2>1. fwHand[1] \in Metrics /\ Send(OutC, fwHand[1]) /\ FlowType
    BY <1>5, Zenon DEF FwSend, Types, FlowType
  <2>2. More /\ fwHand[1] \in Range(chan'[OutC])
    BY <2>1, SendHolds, Zenon
  <2>3. UNCHANGED <<pcP, procHand, kept, got, dropped>>
    BY <1>5, Zenon DEF FwSend, AggOnly
  <2> QED
    BY <2>2, <2>3, Zenon DEF Held
<1>6. CASE FwDropped
  <2>1. /\ dropped' = dropped \cup {fwHand[1]}
        /\ UNCHANGED <<chan, pcP, procHand, kept, got>>
    BY <1>6, Zenon DEF FwDropped, AggOnly
  <2> QED
    BY <2>1, Zenon DEF Held
<1>7. CASE FwCancel \/ CloseAggregators
  <2>1. /\ UNCHANGED <<chan, pcP, procHand, kept, got, dropped>>
        /\ (fwPc = "recv" \/ UNCHANGED <<fwPc, fwHand>>)
    BY <1>7, Zenon DEF FwCancel, CloseAggregators, Close, AggOnly
  <2> QED
    BY <2>1, Zenon DEF Held
<1>8. ASSUME NEW i \in Inputs, Sending(i) PROVE Held(m)'
  <2>1. made[i] < MaxMetrics /\ made[i] \in Nat
    BY <1>8, SendRoom, Zenon DEF Types
  <2>2. made'[i] = made[i] + 1 /\ Send(InputC, <<i, made'[i]>>) /\ FlowType
    BY <1>8, Zenon DEF Sending, ServiceSend, GatherSend, Make, Types, InputType
  <2>3. <<i, made'[i]>> \in Metrics
    BY <2>1, <2>2, NewMetrics, Zenon
  <2>4. More
    BY <2>2, <2>3, SendHolds, Zenon
  <2>5. UNCHANGED <<pcP, procHand, kept, fwPc, fwHand, got, dropped>>
    BY <1>8, Zenon DEF Sending, ServiceSend, GatherSend, InputOnly
  <2> QED
    BY <2>4, <2>5, Zenon DEF Held
<1>9. ASSUME NEW a \in Aggregators, PushSend(a) PROVE Held(m)'
  <2>1. pushes[a] \in Nat /\ 0 < pushes[a] /\ pushes[a] <= MaxPushes + 1
    BY <1>9, Zenon DEF PushSend, Types, AggType
  <2>2. <<NumInputs + a, pushes[a]>> \in Metrics /\ FlowType
    BY <2>1, NewMetrics, Zenon DEF Types
  <2>3. More
    BY <1>9, <2>2, SendHolds, Zenon DEF PushSend
  <2>4. UNCHANGED <<pcP, procHand, kept, fwPc, fwHand, got, dropped>>
    BY <1>9, Zenon DEF PushSend, AggOnly
  <2> QED
    BY <2>3, <2>4, Zenon DEF Held
<1>10. ASSUME NEW u \in Units, UnitActs(u) PROVE Held(m)'
  <2> USE DEF Src, ProcOnly
  <2>0. /\ FlowType /\ pcP \in [Units -> {"off", "recv", "emit", "close", "done"}]
        /\ procHand \in [Units -> Metrics \cup {<<>>}] /\ kept \in [Units -> SUBSET Metrics]
    BY Zenon DEF Types, UnitType, FlowType
  <2>1. CASE ProcPass(u)
    <3>1. \A d \in Channels : Range(chan[d]) \subseteq Range(chan'[d]) \cup {Head(chan[u])}
      BY <2>0, <2>1, RecvHolds, Zenon DEF ProcPass
    <3>2. /\ pcP[u] = "recv" /\ pcP' = [pcP EXCEPT ![u] = "emit"]
          /\ procHand' = [procHand EXCEPT ![u] = Head(chan[u])]
          /\ UNCHANGED <<kept, fwPc, fwHand, got, dropped>>
      BY <2>1, Zenon DEF ProcPass
    <3> QED
      BY <2>0, <3>1, <3>2, Zenon DEF Held
  <2>2. CASE ProcDrop(u)
    <3>1. \A d \in Channels : Range(chan[d]) \subseteq Range(chan'[d]) \cup {Head(chan[u])}
      BY <2>0, <2>2, RecvHolds, Zenon DEF ProcDrop
    <3>2. /\ dropped' = dropped \cup {Head(chan[u])}
          /\ UNCHANGED <<pcP, procHand, kept, fwPc, fwHand, got>>
      BY <2>2, Zenon DEF ProcDrop
    <3> QED
      BY <3>1, <3>2, Zenon DEF Held
  <2>3. CASE ProcKeep(u)
    <3>1. \A d \in Channels : Range(chan[d]) \subseteq Range(chan'[d]) \cup {Head(chan[u])}
      BY <2>0, <2>3, RecvHolds, Zenon DEF ProcKeep
    <3>2. /\ kept' = [kept EXCEPT ![u] = @ \cup {Head(chan[u])}]
          /\ UNCHANGED <<pcP, procHand, fwPc, fwHand, got, dropped>>
      BY <2>3, Zenon DEF ProcKeep
    <3> QED
      BY <2>0, <3>1, <3>2, Zenon DEF Held
  <2>4. CASE ProcEmit(u)
    <3>1. procHand[u] \in Metrics /\ Send(Dst(u), procHand[u])
      BY <2>4, Zenon DEF ProcEmit, Types, FlowType
    <3>2. More /\ procHand[u] \in Range(chan'[Dst(u)])
      BY <2>0, <3>1, SendHolds, Zenon
    <3>3. /\ pcP' = [pcP EXCEPT ![u] = "recv"]
          /\ procHand' = [procHand EXCEPT ![u] = <<>>]
          /\ UNCHANGED <<kept, fwPc, fwHand, got, dropped>>
      BY <2>4, Zenon DEF ProcEmit
    <3> QED
      BY <2>0, <3>2, <3>3, ZenonT(60) DEF Held
  <2>5. CASE ProcBackground(u)
    <3>1. PICK k \in kept[u] : /\ Send(Dst(u), k)
                               /\ kept' = [kept EXCEPT ![u] = @ \ {k}]
      BY <2>5, Zenon DEF ProcBackground
    <3>2. k \in Metrics
      BY <2>0, <3>1, Zenon
    <3>3. More /\ k \in Range(chan'[Dst(u)])
      BY <2>0, <3>1, <3>2, SendHolds, Zenon
    <3>4. UNCHANGED <<pcP, procHand, fwPc, fwHand, got, dropped>>
      BY <2>5, Zenon DEF ProcBackground
    <3> QED
      BY <2>0, <3>1, <3>3, <3>4, Zenon DEF Held
  <2>6. CASE ProcStop(u) \/ ProcClose(u)
    <3>1. /\ UNCHANGED <<chan, procHand, kept, fwPc, fwHand, got, dropped>>
          /\ pcP[u] # "emit" /\ \E s : pcP' = [pcP EXCEPT ![u] = s]
      BY <2>6, Zenon DEF ProcStop, ProcClose, Close
    <3> QED
      BY <2>0, <3>1, Zenon DEF Held
  <2> QED
    BY <1>10, <2>1, <2>2, <2>3, <2>4, <2>5, <2>6, Zenon DEF UnitActs, Processing
<1>11. CASE UNCHANGED <<chan, procVars, fwPc, fwHand, got, dropped>>
  BY <1>11, Zenon DEF Held
<1> QED
  BY <1>1, <1>2, <1>3, <1>4, <1>5, <1>6, <1>7, <1>8, <1>9, <1>10, <1>11,
     FlowFrame, Zenon DEF Forwarding

(* Only the sends of inputs make metrics. *)
LEMMA MadeFrame ==
  ASSUME [Next]_vars, ~ \E i \in Inputs : Sending(i)
  PROVE  UNCHANGED made
<1> USE DEF inputVars
<1>1. CASE Startup \/ RunReturn
  BY <1>1, Zenon DEF Startup, StartOk, InitFails, ConnectFails, ProcessorFails,
              InputFails, InputFailsLogged, UnwindStop, UnwindEnd, StopNext, RunReturn
<1>2. CASE StopInput \/ CloseInputs
  BY <1>2, Zenon DEF StopInput, StopNext, CloseInputs
<1>3. CASE \E i \in Inputs : InputActs(i)
  BY <1>3, Zenon DEF InputActs, ServiceTake, GatherStart, GatherTake, GatherReturn, GatherStop
<1> QED
  BY <1>1, <1>2, <1>3, InputFrame, Zenon

(* What an input makes is in the pipeline from then on. *)
LEMMA HeldInvStep ==
  ASSUME Types, StartInv, HeldInv, NoPanic', [Next]_vars PROVE HeldInv'
<1>1. ASSUME NEW i \in Inputs, Sending(i) PROVE HeldInv'
  <2>1. made[i] < MaxMetrics /\ made[i] \in Nat /\ made \in [Inputs -> Nat]
    BY <1>1, SendRoom, Zenon DEF Types, InputType
  <2>2. /\ made' = [made EXCEPT ![i] = @ + 1] /\ Send(InputC, <<i, made'[i]>>)
        /\ FlowType
    BY <1>1, Zenon DEF Sending, ServiceSend, GatherSend, Make, Types
  <2>3. <<i, made'[i]>> \in Metrics
    BY <2>1, <2>2, NewMetrics, Zenon
  <2>4. <<i, made'[i]>> \in Range(chan'[InputC])
    BY <2>2, <2>3, SendHolds, ChannelFacts, Zenon
  <2>6. ASSUME NEW j \in Inputs, NEW n \in 1..made'[j] PROVE Held(<<j, n>>)'
    <3>1. CASE j = i /\ n = made'[i]
      <4>1. <<j, n>> \in Range(chan'[InputC])
        BY <2>4, <3>1, Zenon
      <4> QED
        BY <4>1, ChannelFacts, Zenon DEF Held
    <3>2. CASE ~(j = i /\ n = made'[i])
      <4>1. n \in 1..made[j]
        BY <2>1, <2>2, <3>2
      <4> QED
        BY <4>1, HeldStays, Zenon DEF HeldInv
    <3> QED
      BY <3>1, <3>2, Zenon
  <2> QED
    BY <2>6, Zenon DEF HeldInv
<1>2. CASE ~ \E i \in Inputs : Sending(i)
  <2>1. UNCHANGED made
    BY <1>2, MadeFrame, Zenon
  <2> QED
    BY <2>1, HeldStays, Zenon DEF HeldInv
<1> QED
  BY <1>1, <1>2, Zenon

(* Run returns only after every stage, and nothing starts again. *)
LEMMA ReturnStep == Types /\ ReturnInv /\ [Next]_vars => ReturnInv'
<1> SUFFICES ASSUME Types, ReturnInv, [Next]_vars, phase' = "returned"
             PROVE  pcI' = 0 /\ aggClosed' /\ pcO' = "done" /\ \A u \in Units : pcP'[u] = "done"
  BY Zenon DEF ReturnInv
<1>0. NumInputs \in Nat \ {0}
  BY AgentAssumption, Zenon
<1>1. CASE RunReturn
  BY <1>1, Zenon DEF RunReturn, OutputsOver, inputVars, aggVars, outVars, procVars
<1>2. CASE ~RunReturn
  <2>1. ~Startup
    BY Zenon DEF Startup, StartOk, InitFails, ConnectFails, ProcessorFails,
           InputFails, InputFailsLogged, UnwindStop, UnwindEnd, StartNext, startVars
  <2>2. /\ phase = "returned" /\ pcI = 0 /\ aggClosed /\ pcO = "done"
        /\ \A u \in Units : pcP[u] = "done"
    BY <1>2, <2>1, StartFrame, Zenon DEF startVars, ReturnInv
  <2>3. ~StopInput /\ ~CloseInputs /\ ~CloseAggregators /\ ~OutRecv /\ ~OutDone
    BY <1>0, <2>2 DEF StopInput, CloseInputs, CloseAggregators, OutRecv, OutDone
  <2>4. pcO' = pcO
    BY <2>3, OutFrame, Zenon DEF outVars
  <2>5. UNCHANGED <<pcP, aggClosed, pcI>>
    <3>1. ASSUME NEW u \in Units, UnitActs(u) PROVE UNCHANGED <<pcP, aggClosed, pcI>>
      BY <2>2, <3>1, Zenon DEF UnitActs, Processing, ProcPass, ProcDrop, ProcKeep, ProcEmit,
                   ProcStop, ProcClose, ProcBackground, ProcOnly, aggVars, inputVars
    <3> QED
      BY <2>1, <2>3, <3>1, CloseFrame, Zenon
  <2> QED
    BY <2>2, <2>4, <2>5, Zenon
<1> QED
  BY <1>1, <1>2, Zenon

(* Every channel is read by a unit, by the forwarder or by runOutputs. *)
LEMMA ReturnDrains ==
  Types /\ CloseInv /\ HeldInv /\ ReturnInv => DrainedOnReturn
<1> SUFFICES ASSUME Types, CloseInv, HeldInv, ReturnInv, phase = "returned"
             PROVE  /\ \A i \in Inputs, n \in 1..MaxMetrics :
                         n <= made[i] => <<i, n>> \in Range(got) \cup dropped
                    /\ \A a \in Aggregators : aggSum[a] = 0
                    /\ \A c \in Channels : Ended(c)
                    /\ stopped = ServiceInputs
  BY Zenon DEF DrainedOnReturn
<1>0. NumAggregators \in Nat /\ (\A a \in Aggregators : NumAggregators > 0)
      /\ MaxMetrics \in Nat
  BY AgentAssumption DEF Aggregators
<1>1. /\ pcI = 0 /\ aggClosed /\ pcO = "done" /\ \A u \in Units : pcP[u] = "done"
      /\ Enders /\ InputEnd
  BY DEF ReturnInv, CloseInv, Live
<1>2. NumAggregators > 0 => fwPc = "done" /\ \A a \in Aggregators : pcA[a] = "done"
  BY <1>1, Zenon DEF Types, AggEnd, AggregatorsOver
<1>3. \A a \in Aggregators : aggSum[a] = 0
  BY <1>0, <1>2, Zenon DEF Types, AggEnd
<1>4. \A c \in Channels : Ended(c)
  BY <1>0, <1>1, <1>2, Zenon DEF Channels, Enders
<1>5. stopped = ServiceInputs
  BY <1>1, Zenon DEF InputEnd, Through
<1>6. \A u \in Units : kept[u] = {}
  BY <1>1, Zenon DEF Enders
<1>7. fwPc \notin {"add", "send"}
  BY <1>0, <1>2 DEF Types, AggEnd
<1>8. \A m, c : c \in Channels => m \notin Range(chan[c])
  BY <1>4 DEF Ended, Range
<1>9. ASSUME NEW i \in Inputs, NEW n \in 1..MaxMetrics, n <= made[i]
      PROVE  <<i, n>> \in Range(got) \cup dropped
  <2>1. n \in 1..made[i]
    BY <1>0, <1>9 DEF Types, InputType
  <2>2. Held(<<i, n>>)
    BY <2>1, Zenon DEF HeldInv
  <2> QED
    BY <1>1, <1>6, <1>7, <1>8, <2>2, Zenon DEF Held
<1> QED
  BY <1>3, <1>4, <1>5, <1>9, Zenon

(* When Run returns, every metric an input made was received by the        *)
(* outputs or dropped by a plugin, every aggregate was pushed, every       *)
(* channel is closed and empty and every service input is stopped, for     *)
(* every configuration, if every service input keeps the contract of Stop. *)
THEOREM DrainCorrect == ASSUME StopsWait PROVE Spec => []DrainedOnReturn
<1>1. Init => HeldInv /\ ReturnInv
  BY DEF Init, HeldInv, ReturnInv, Inputs
<1>2. Types /\ StartInv /\ HeldInv /\ ReturnInv /\ NoPanic' /\ [Next]_vars
        => HeldInv' /\ ReturnInv'
  BY HeldInvStep, ReturnStep, Zenon
<1>3. Spec => []NoPanic
  BY NoPanicCorrect
<1> QED
  BY <1>1, <1>2, <1>3, CloseInvHolds, ReturnDrains, PTL DEF Spec
=============================================================================
