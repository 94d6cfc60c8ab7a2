----------------------------- MODULE Aggregator -----------------------------
(***************************************************************************)
(* An aggregator (models/running_aggregator.go) and the two goroutines     *)
(* that runAggregators (agent/agent.go) has for it: one adds the metrics   *)
(* of the channel src, one pushes at the end of each period.  Add and Push *)
(* exclude each other by the lock of the aggregator.                       *)
(*                                                                         *)
(* A metric is its index in stamps; cache stands for the state of the      *)
(* plugin between two calls of Reset.                                      *)
(***************************************************************************)
EXTENDS Clock

CONSTANTS Period, Grace, Delay, Precision

ASSUME AggregatorAssumption ==
  Period \in Nat \ {0} /\ {Grace, Delay, Precision} \subseteq Nat

VARIABLES
  periodStart, periodEnd,
  stamps, born,     \* metrics so far: their time, when they were created
  src, srcClosed,   \* channel of the metrics
  cache,            \* metrics aggregated since the last push
  addDone,          \* the adding goroutine has cancelled the context
  pcPush,           \* "off", "wait" or "done"
  pushes,           \* history: metrics of each push
  discarded         \* history: metrics discarded, when, end of the window then

aggVars == <<periodStart, periodEnd, stamps, born, src, srcClosed, cache,
             addDone, pcPush, pushes, discarded>>

(* updateWindow: the first end of a period after the start.                *)
FirstEnd(start, roundInterval) ==
  IF ~roundInterval THEN start + Period
  ELSE IF AlignTime(start, Period) = start THEN AlignTime(start + 1, Period)
  ELSE AlignTime(start, Period)

AggregatorInit ==
  /\ periodStart = 0 /\ periodEnd = 0
  /\ stamps = <<>> /\ born = <<>> /\ src = <<>> /\ srcClosed = FALSE
  /\ cache = {} /\ addDone = FALSE /\ pcPush = "off"
  /\ pushes = <<>> /\ discarded = {}

-----------------------------------------------------------------------------
(* The window is set and the two goroutines start.                         *)
RunAggregators(start, roundInterval) ==
  /\ pcPush = "off" /\ pcPush' = "wait"
  /\ periodEnd' = FirstEnd(start, roundInterval)
  /\ periodStart' = periodEnd' - Period
  /\ UNCHANGED <<stamps, born, src, srcClosed, cache, addDone, pushes, discarded>>

(* An input adds a metric; the accumulator rounds its time.                *)
SendMetric ==
  /\ ~srcClosed
  /\ stamps' = Append(stamps, Round(now, Precision)) /\ born' = Append(born, now)
  /\ src' = Append(src, Len(stamps'))
  /\ UNCHANGED <<periodStart, periodEnd, srcClosed, cache, addDone, pcPush, pushes,
                 discarded>>

InWindow_NoGrace(t) == periodStart <= t /\ t <= periodEnd + Delay

InWindow(t) == periodStart - Grace <= t /\ t <= periodEnd + Delay

Add ==
  /\ pcPush # "off" /\ src # <<>> /\ src' = Tail(src)
  /\ IF InWindow(stamps[src[1]])
       THEN cache' = cache \cup {src[1]} /\ UNCHANGED discarded
       ELSE /\ discarded' = discarded
                  \cup {[metric |-> src[1], at |-> now, end |-> periodEnd]}
            /\ UNCHANGED cache
  /\ UNCHANGED <<periodStart, periodEnd, stamps, born, srcClosed, addDone, pcPush,
                 pushes>>

AddEnds_NoCancel ==
  /\ pcPush # "off" /\ src = <<>> /\ srcClosed /\ ~addDone
  /\ UNCHANGED aggVars

AddEnds ==
  /\ pcPush # "off" /\ src = <<>> /\ srcClosed /\ ~addDone /\ addDone' = TRUE
  /\ UNCHANGED <<periodStart, periodEnd, stamps, born, src, srcClosed, cache,
                 pcPush, pushes, discarded>>

(* The next window, then push and Reset.                                   *)
Push_NoReset ==
  /\ periodStart' = periodEnd /\ periodEnd' = periodEnd + Period
  /\ pushes' = Append(pushes, cache)
  /\ UNCHANGED <<stamps, born, src, srcClosed, cache, addDone, discarded>>

Push ==
  /\ periodStart' = periodEnd /\ periodEnd' = periodEnd + Period
  /\ pushes' = Append(pushes, cache) /\ cache' = {}
  /\ UNCHANGED <<stamps, born, src, srcClosed, addDone, discarded>>

(* The wait ends at once when the period is over already.                  *)
PushPeriod_Missed == pcPush = "wait" /\ periodEnd = now /\ Push /\ UNCHANGED pcPush

PushPeriod == pcPush = "wait" /\ periodEnd <= now /\ Push /\ UNCHANGED pcPush

PushLast == pcPush = "wait" /\ addDone /\ Push /\ pcPush' = "done"

AggregatorStep == Add \/ AddEnds \/ PushPeriod \/ PushLast

-----------------------------------------------------------------------------
(* What was added is pushed once: it is in the cache or in one push, and   *)
(* after the last push nothing is left.                                    *)
PushedOnce ==
  /\ \A i \in DOMAIN pushes :
       /\ pushes[i] \cap cache = {}
       /\ \A j \in DOMAIN pushes : i # j => pushes[i] \cap pushes[j] = {}
  /\ pcPush = "done" => cache = {} /\ src = <<>>
=============================================================================
