------------------------------- MODULE Ticker -------------------------------
(***************************************************************************)
(* The ticker of an input (agent/tick.go), aligned when round_interval is  *)
(* set.  It is made when runInputs starts, which is any time after         *)
(* startTime: Run takes startTime first, then connects the outputs and     *)
(* starts the plugins.  The runtime lets a timer expire up to TickLag      *)
(* late, and as late the goroutine may get to run.  MinInterval is a       *)
(* hundredth of Interval in the code.                                      *)
(***************************************************************************)
EXTENDS Clock

CONSTANTS Interval, Jitter, MinInterval, TickLag

MaxJitter == IF Jitter = 0 THEN 0 ELSE Jitter - 1

ASSUME TickerAssumption ==
  /\ Interval \in Nat \ {0} /\ {Jitter, MinInterval, TickLag} \subseteq Nat
  /\ MaxJitter + 2 * TickLag + MinInterval <= Interval
  /\ MaxJitter + 3 * TickLag < Interval

Never == -1

VARIABLES
  roundInterval,   \* configuration of the agent
  startTime,
  alarm,           \* when the timer (aligned) or ticker expires, or Never
  timerC,          \* its channel: when it expired
  slept,           \* end of the sleep for the jitter (not aligned), or Never
  elapsed,         \* channel ch of the ticker
  ticking,         \* from New to Stop
  slot,            \* history: interval of the next tick, Never before the first
  lastTick         \* history: time of the last tick, not of the first aligned one

tickVars == <<roundInterval, startTime, alarm, timerC, slept, elapsed, ticking,
              slot, lastTick>>

(* AlignedTicker.next without the jitter.                                  *)
NextAligned_Same(t) == AlignTime(t, Interval)

NextAligned(t) ==
  LET next == AlignTime(t + MinInterval, Interval)
  IN IF next = t THEN t + Interval ELSE next

TickerInit ==
  /\ alarm = Never /\ timerC = <<>> /\ slept = Never /\ elapsed = <<>>
  /\ ticking = FALSE /\ slot = Never /\ lastTick = Never

-----------------------------------------------------------------------------
(* The timer is set now, to a duration that is computed from startTime.    *)
NewAlignedTicker ==
  /\ ticking' = TRUE
  /\ \E j \in RandomDuration(Jitter) :
       alarm' = now + (NextAligned(startTime) - startTime) + j
  /\ UNCHANGED <<roundInterval, startTime, timerC, slept, elapsed, slot, lastTick>>

(* The other ticker ticks at once.                                         *)
NewUnalignedTicker ==
  /\ ticking' = TRUE /\ alarm' = now + Interval /\ elapsed' = <<now>>
  /\ slot' = now + Interval /\ lastTick' = now
  /\ UNCHANGED <<roundInterval, startTime, timerC, slept>>

NewTicker == IF roundInterval THEN NewAlignedTicker ELSE NewUnalignedTicker

(* A one-shot timer, or a ticker that drops what its channel has no room   *)
(* for.                                                                    *)
Expire ==
  /\ ticking /\ alarm # Never /\ alarm <= now
  /\ alarm' = IF roundInterval THEN Never ELSE alarm + Interval
  /\ timerC' = IF timerC = <<>> THEN <<now>> ELSE timerC
  /\ UNCHANGED <<roundInterval, startTime, slept, elapsed, ticking, slot, lastTick>>

(* A tick is dropped when the consumer has not taken the one before.       *)
Deliver(t) ==
  /\ elapsed' = IF elapsed = <<>> THEN <<t>> ELSE elapsed
  /\ slot' = IF slot = Never THEN NextAligned(t) ELSE slot + Interval
  /\ lastTick' = IF slot = Never THEN Never ELSE t

AlignedRun ==
  /\ ticking /\ roundInterval /\ timerC # <<>> /\ timerC' = <<>>
  /\ Deliver(timerC[1])
  /\ \E j \in RandomDuration(Jitter) :
       alarm' = now + (NextAligned(timerC[1]) - timerC[1]) + j
  /\ UNCHANGED <<roundInterval, startTime, slept, ticking>>

UnalignedRun ==
  /\ ticking /\ ~roundInterval /\ slept = Never /\ timerC # <<>> /\ timerC' = <<>>
  /\ \E j \in RandomDuration(Jitter) : slept' = now + j
  /\ UNCHANGED <<roundInterval, startTime, alarm, elapsed, ticking, slot, lastTick>>

Wake ==
  /\ ticking /\ slept # Never /\ slept <= now /\ slept' = Never
  /\ Deliver(now)
  /\ UNCHANGED <<roundInterval, startTime, alarm, timerC, ticking>>

TickerStep == Expire \/ AlignedRun \/ UnalignedRun \/ Wake

(* Nothing of the ticker is later than TickLag.                            *)
TickerOnTime ==
  ticking =>
    /\ alarm # Never => now < alarm + TickLag
    /\ slept # Never => now < slept + TickLag
    /\ timerC # <<>> /\ slept = Never => now < timerC[1] + TickLag

-----------------------------------------------------------------------------
(* From the first tick on there is one tick in each interval, whatever the *)
(* start-up took, the jitter and the delays of the runtime: "on average    *)
(* you will have one collection each interval".  When the first tick of    *)
(* the aligned ticker comes depends on how long the start-up took; the     *)
(* intervals are counted from the alignment that follows it.               *)
PaceKept == lastTick # Never => slot - Interval <= lastTick /\ lastTick < slot
=============================================================================
