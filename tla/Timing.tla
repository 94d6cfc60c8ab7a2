------------------------------- MODULE Timing -------------------------------
(***************************************************************************)
(* An input and an aggregator on one clock: the ticker of the input, the   *)
(* loop that gathers at its ticks (gatherLoop and gatherOnce of            *)
(* agent/agent.go), the channel and the aggregator behind it.              *)
(***************************************************************************)
EXTENDS Ticker, Aggregator

CONSTANTS StartTimes, MaxTime, MaxMetrics

ASSUME TimingAssumption ==
  StartTimes \subseteq Nat /\ MaxTime \in Nat /\ MaxMetrics \in Nat

VARIABLES pcGather,    \* "off", "wait", "gather", "done"
          cancelled,   \* context of the agent
          sent         \* the collection under way has added its metric

vars == <<now, tickVars, aggVars, pcGather, cancelled, sent>>

Init ==
  /\ startTime \in StartTimes /\ now = startTime
  /\ roundInterval \in BOOLEAN
  /\ TickerInit
  /\ AggregatorInit
  /\ pcGather = "off" /\ cancelled = FALSE /\ sent = FALSE

-----------------------------------------------------------------------------
(* When the start-up is over, runInputs and runAggregators run in          *)
(* goroutines of their own, each with the startTime from before it.        *)
RunInputs ==
  /\ pcGather = "off" /\ pcGather' = "wait" /\ NewTicker
  /\ UNCHANGED <<now, aggVars, cancelled, sent>>

StartAggregators ==
  /\ RunAggregators(startTime, roundInterval)
  /\ UNCHANGED <<now, tickVars, pcGather, cancelled, sent>>

TakeTick == elapsed # <<>> /\ elapsed' = <<>>
            /\ UNCHANGED <<roundInterval, startTime, alarm, timerC, slept, ticking,
                           slot, lastTick>>

GatherStart ==
  /\ pcGather = "wait" /\ pcGather' = "gather" /\ TakeTick /\ sent' = FALSE
  /\ UNCHANGED <<now, aggVars, cancelled>>

(* A tick that comes while the input gathers is skipped.                   *)
GatherSkip ==
  /\ pcGather = "gather" /\ TakeTick
  /\ UNCHANGED <<now, aggVars, pcGather, cancelled, sent>>

GatherAdd ==
  /\ pcGather = "gather" /\ ~sent /\ sent' = TRUE
  /\ Len(stamps) < MaxMetrics /\ SendMetric
  /\ UNCHANGED <<now, tickVars, pcGather, cancelled>>

GatherEnd ==
  /\ pcGather = "gather" /\ pcGather' = "wait"
  /\ UNCHANGED <<now, tickVars, aggVars, cancelled, sent>>

Cancel ==
  /\ ~cancelled /\ cancelled' = TRUE
  /\ UNCHANGED <<now, tickVars, aggVars, pcGather, sent>>

(* The loop returns between collections; then runInputs closes the channel *)
(* and stops the ticker.                                                   *)
GatherDone ==
  /\ pcGather = "wait" /\ cancelled /\ pcGather' = "done"
  /\ srcClosed' = TRUE /\ ticking' = FALSE
  /\ UNCHANGED <<now, roundInterval, startTime, alarm, timerC, slept, elapsed, slot,
                 lastTick, periodStart, periodEnd, stamps, born, src, cache, addDone,
                 pcPush, pushes, discarded, cancelled, sent>>

-----------------------------------------------------------------------------
Tick == TickerStep /\ UNCHANGED <<now, aggVars, pcGather, cancelled, sent>>
Aggregate == AggregatorStep /\ UNCHANGED <<now, tickVars, pcGather, cancelled, sent>>

(* Time passes while the ticker is not later than assumed; pushes and      *)
(* metrics may be as late as they like.                                    *)
Advance ==
  /\ now < MaxTime /\ TickerOnTime /\ now' = now + 1
  /\ UNCHANGED <<tickVars, aggVars, pcGather, cancelled, sent>>

Gather == GatherStart \/ GatherSkip \/ GatherAdd \/ GatherEnd \/ GatherDone

Start == RunInputs \/ StartAggregators

Next == Start \/ Advance \/ Tick \/ Gather \/ Cancel \/ Aggregate

Spec == Init /\ [][Next]_vars

(* The start-up ends, the scheduler runs every goroutine that can run,     *)
(* collections end, and select picks at random among what is ready, so     *)
(* that a loop which keeps finding ticks finds the cancellation too.       *)
FairSpec ==
  /\ Spec
  /\ WF_vars(Start) /\ WF_vars(GatherEnd) /\ SF_vars(GatherDone) /\ WF_vars(Aggregate)

-----------------------------------------------------------------------------
Boundary(k) == FirstEnd(startTime, roundInterval) + (k - 1) * Period

(* A metric is discarded only for a reason that can be seen from outside:  *)
(* a period ended more than Grace after its time and before Add saw it, or *)
(* the push that was due was late by more than Delay, up to the rounding   *)
(* of the metric's time.  So the window never runs ahead of the clock, and *)
(* the windows of successive pushes leave no gap, whenever the aggregator  *)
(* was started.                                                            *)
DiscardedOnlyLate ==
  \A x \in discarded :
    \/ \E k \in 0..Len(pushes) :
         stamps[x.metric] + Grace < Boundary(k) /\ Boundary(k) <= x.at
    \/ 2 * (x.at - x.end) + Precision > 2 * Delay

(* Push is called for each period, "even if it has already elapsed before  *)
(* this function is called": the pushes catch up with the clock.           *)
PushesCatchUp ==
  pcPush = "wait" /\ periodEnd <= now ~> pcPush = "done" \/ now < periodEnd

(* After cancellation the aggregator pushes a last time and ends.          *)
CancelPushes == cancelled ~> pcPush = "done"
=============================================================================
