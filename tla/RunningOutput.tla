---------------------------- MODULE RunningOutput ----------------------------
(***************************************************************************)
(* One output of the agent (models/running_output.go) with the goroutines  *)
(* that drive it (agent/agent.go):                                         *)
(*   - runOutputs receives metrics and calls AddMetric, pc pcA;            *)
(*   - flushLoop waits for something to write, pc pcF;                     *)
(*   - the goroutine flushOnce starts runs Write or WriteBatch, pc pcW.    *)
(* They share the buffer, whose methods are atomic, the two atomic         *)
(* counters newMetricsCount and droppedMetrics, and the channel BatchReady *)
(* of capacity one.  Every atomic operation is a step of its own.          *)
(*                                                                         *)
(* The plugin's Output.Write succeeds or fails as it likes.  The filter of *)
(* the output drops a metric or lets it through, as it likes.              *)
(***************************************************************************)
EXTENDS Integers, Sequences

CONSTANTS Cap, MetricBatchSize, MaxMetrics

ASSUME OutputAssumption ==
  /\ Cap \in Nat \ {0}
  /\ MetricBatchSize \in Nat \ {0}
  /\ MaxMetrics \in Nat

VARIABLES
  buf, size, first, last, batchFirst, batchSize, batch,
  metricsAdded, metricsWritten, metricsDropped, bufferSize, accepts, rejects,
  newMetricsCount, droppedMetrics,   \* atomic counters of the output
  batchReady,                        \* the channel BatchReady holds a value
  metricsFiltered,                   \* selfstat metrics_filtered
  pcA, dropped,                      \* runOutputs in AddMetric, and its local
  ctxDone,                           \* runOutputs has called cancel()
  pcF, final,                        \* flushLoop, on its last flush or not
  tick, flushRequested,              \* pending tick and pending SIGUSR1
  pcW, left,                         \* the writer, batches it may still take
  loaded,                            \* its local: droppedMetrics as loaded
  wholeWrite,                        \* it runs Write, not WriteBatch
  \* history
  delivered,                         \* metrics Output.Write took, in order
  tried,                             \* metrics given to it in this flush
  warned                             \* drops reported in the log so far

B == INSTANCE Buffer

bufVars   == <<buf, size, first, last, batchFirst, batchSize, batch,
               metricsAdded, metricsWritten, metricsDropped, bufferSize,
               accepts, rejects>>
counters  == <<newMetricsCount, droppedMetrics>>
adderVars == <<pcA, dropped, metricsFiltered, ctxDone>>
loopVars  == <<pcF, final>>
locals    == <<left, loaded, wholeWrite>>
history   == <<delivered, tried, warned>>
writeVars == <<pcW, locals, history>>
events    == <<tick, flushRequested>>
vars == <<bufVars, counters, batchReady, adderVars, loopVars, events, writeVars>>

(* What a step of each goroutine leaves to the others. *)
AdderOnly  == UNCHANGED <<loopVars, events, writeVars>>
LooperOnly == UNCHANGED <<adderVars, bufVars, counters>>
WriterOnly == UNCHANGED <<adderVars, loopVars, batchReady, events>>
OutsideOnly == UNCHANGED <<adderVars, bufVars, counters, batchReady, loopVars,
                           writeVars>>

Init ==
  /\ B!Init
  /\ newMetricsCount = 0 /\ droppedMetrics = 0 /\ batchReady = FALSE
  /\ pcA = "idle" /\ dropped = 0 /\ metricsFiltered = 0 /\ ctxDone = FALSE
  /\ pcF = "top" /\ final = FALSE
  /\ tick = FALSE /\ flushRequested = FALSE
  /\ pcW = "off" /\ left = 0 /\ loaded = 0 /\ wholeWrite = FALSE
  /\ delivered = <<>> /\ tried = {} /\ warned = 0

-----------------------------------------------------------------------------
(* Parts of the operations below, with the mistakes they could have.       *)

(* AddMetric: is it time to signal BatchReady? *)
BatchFull_Past(count) == count > MetricBatchSize
BatchFull(count) == count = MetricBatchSize

(* AddMetric: the send is skipped when a value is already there. *)
SendBatchReady_Lost == UNCHANGED batchReady
SendBatchReady == batchReady' = TRUE

(* Write: the number of batches it takes at most. *)
nBatches_Whole(nBuffer) == nBuffer \div MetricBatchSize
nBatches(nBuffer) == nBuffer \div MetricBatchSize + 1

(* write: zero what was reported. *)
StoreDropped_Missing == UNCHANGED droppedMetrics
StoreDropped == droppedMetrics' = 0

(* Write: what becomes of the batch when Output.Write returned nil, when   *)
(* it returned an error, and where Write goes on after an error.           *)
OnSuccess_Returned == B!Reject
OnSuccess == B!Accept
OnError_Accepted == B!Accept
OnError == B!Reject
AfterError_Forgotten == "done"
AfterError == "reject"

(* flushLoop: return after the flush for shutdown, loop after any other.   *)
AfterFlush_Loop == "top"
AfterFlush == IF final THEN "returned" ELSE "top"

-----------------------------------------------------------------------------
(* runOutputs: AddMetric, once per metric received from the channel. *)

Receiving == pcA = "idle" /\ metricsAdded + metricsFiltered < MaxMetrics

(* Filter.Select refuses the metric or Filter.Modify leaves it no field. *)
AddFiltered ==
  /\ Receiving
  /\ metricsFiltered' = metricsFiltered + 1
  /\ UNCHANGED <<pcA, dropped, ctxDone, bufVars, counters, batchReady>>
  /\ AdderOnly

AddToBuffer ==
  /\ Receiving
  /\ B!Add
  /\ dropped' = metricsDropped' - metricsDropped
  /\ pcA' = "dropped"
  /\ UNCHANGED <<metricsFiltered, ctxDone, counters, batchReady>>
  /\ AdderOnly

AddDropped ==
  /\ pcA = "dropped" /\ pcA' = "count"
  /\ droppedMetrics' = droppedMetrics + dropped
  /\ UNCHANGED <<dropped, metricsFiltered, ctxDone, bufVars, newMetricsCount, batchReady>>
  /\ AdderOnly

AddCount ==
  /\ pcA = "count"
  /\ newMetricsCount' = newMetricsCount + 1
  /\ pcA' = IF BatchFull(newMetricsCount') THEN "reset" ELSE "idle"
  /\ UNCHANGED <<dropped, metricsFiltered, ctxDone, bufVars, droppedMetrics, batchReady>>
  /\ AdderOnly

AddReset ==
  /\ pcA = "reset" /\ pcA' = "signal"
  /\ newMetricsCount' = 0
  /\ UNCHANGED <<dropped, metricsFiltered, ctxDone, bufVars, droppedMetrics, batchReady>>
  /\ AdderOnly

AddSignal ==
  /\ pcA = "signal" /\ pcA' = "idle"
  /\ SendBatchReady
  /\ UNCHANGED <<dropped, metricsFiltered, ctxDone, bufVars, counters>>
  /\ AdderOnly

(* The source channel is closed: cancel the context of the flush loops. *)
SourceClosed ==
  /\ pcA = "idle" /\ pcA' = "closed"
  /\ ctxDone' = TRUE
  /\ UNCHANGED <<dropped, metricsFiltered, bufVars, counters, batchReady>>
  /\ AdderOnly

-----------------------------------------------------------------------------
(* flushLoop and flushOnce. *)

(* flushOnce starts a goroutine that runs Write or WriteBatch. *)
StartWrite ==
  /\ pcF' = "wait" /\ pcW' = "reset" /\ wholeWrite' = TRUE
  /\ tried' = {}
  /\ UNCHANGED <<left, loaded, delivered, warned>>

StartWriteBatch ==
  /\ pcF' = "wait" /\ pcW' = "batch" /\ wholeWrite' = FALSE
  /\ left' = 1
  /\ tried' = {}
  /\ UNCHANGED <<loaded, delivered, warned>>

(* The first select: shutdown is favoured. *)
FlushTop ==
  /\ pcF = "top" /\ pcF' = "select"
  /\ ~ctxDone
  /\ UNCHANGED <<final, writeVars, batchReady, events>>
  /\ LooperOnly

(* Either select finds the context done. *)
FlushFinal ==
  /\ pcF \in {"top", "select"} /\ ctxDone
  /\ final' = TRUE
  /\ StartWrite
  /\ UNCHANGED <<batchReady, events>>
  /\ LooperOnly

FlushTick ==
  /\ pcF = "select" /\ tick
  /\ tick' = FALSE
  /\ StartWrite
  /\ UNCHANGED <<final, batchReady, flushRequested>>
  /\ LooperOnly

FlushRequested ==
  /\ pcF = "select" /\ flushRequested
  /\ flushRequested' = FALSE
  /\ StartWrite
  /\ UNCHANGED <<final, batchReady, tick>>
  /\ LooperOnly

FlushBatchReady ==
  /\ pcF = "select" /\ pcF' = "ready"
  /\ batchReady /\ batchReady' = FALSE
  /\ UNCHANGED <<final, writeVars, events>>
  /\ LooperOnly

(* The ticker is favoured over BatchReady. *)
FlushReady ==
  /\ pcF = "ready"
  /\ IF tick THEN StartWrite ELSE StartWriteBatch
  /\ tick' = FALSE
  /\ UNCHANGED <<final, batchReady, flushRequested>>
  /\ LooperOnly

(* flushOnce warns of a slow write at every tick. *)
FlushSlow ==
  /\ pcF = "wait" /\ tick
  /\ tick' = FALSE
  /\ UNCHANGED <<loopVars, writeVars, batchReady, flushRequested>>
  /\ LooperOnly

FlushDone ==
  /\ pcF = "wait" /\ pcF' = AfterFlush
  /\ pcW = "done" /\ pcW' = "off"
  /\ UNCHANGED <<final, locals, history, batchReady, events>>
  /\ LooperOnly

-----------------------------------------------------------------------------
(* Write, WriteBatch and write. *)

WriteReset ==
  /\ pcW = "reset" /\ pcW' = "len"
  /\ newMetricsCount' = 0
  /\ UNCHANGED <<bufVars, droppedMetrics, locals, history>>
  /\ WriterOnly

WriteLen ==
  /\ pcW = "len" /\ pcW' = "batch"
  /\ left' = nBatches(B!length)
  /\ UNCHANGED <<bufVars, counters, loaded, wholeWrite, history>>
  /\ WriterOnly

WriteTakeBatch ==
  /\ pcW = "batch" /\ left > 0
  /\ B!Batch
  /\ left' = left - 1
  /\ pcW' = IF batch' = <<>> THEN "done" ELSE "load"
  /\ UNCHANGED <<counters, loaded, wholeWrite, history>>
  /\ WriterOnly

WriteLoopEnd ==
  /\ pcW = "batch" /\ left = 0
  /\ pcW' = "done"
  /\ UNCHANGED <<bufVars, counters, locals, history>>
  /\ WriterOnly

(* write loads droppedMetrics, warns of what was dropped, stores zero. *)
WriteLoad ==
  /\ pcW = "load"
  /\ loaded' = droppedMetrics
  /\ pcW' = IF droppedMetrics > 0 THEN "store" ELSE "output"
  /\ UNCHANGED <<bufVars, counters, left, wholeWrite, history>>
  /\ WriterOnly

WriteStore ==
  /\ pcW = "store" /\ pcW' = "output"
  /\ warned' = warned + loaded
  /\ StoreDropped
  /\ UNCHANGED <<bufVars, newMetricsCount, locals, delivered, tried>>
  /\ WriterOnly

OutputWriteOk ==
  /\ pcW = "output" /\ pcW' = "accept"
  /\ delivered' = delivered \o batch
  /\ tried' = tried \cup {batch[i] : i \in DOMAIN batch}
  /\ UNCHANGED <<bufVars, counters, locals, warned>>
  /\ WriterOnly

OutputWriteErr ==
  /\ pcW = "output" /\ pcW' = AfterError
  /\ tried' = tried \cup {batch[i] : i \in DOMAIN batch}
  /\ UNCHANGED <<bufVars, counters, locals, delivered, warned>>
  /\ WriterOnly

WriteAccept ==
  /\ pcW = "accept" /\ pcW' = "batch"
  /\ OnSuccess
  /\ UNCHANGED <<counters, locals, history>>
  /\ WriterOnly

(* An error ends Write: the batches behind the rejected one wait. *)
WriteReject ==
  /\ pcW = "reject" /\ pcW' = "done"
  /\ OnError
  /\ UNCHANGED <<counters, locals, history>>
  /\ WriterOnly

-----------------------------------------------------------------------------
(* The environment: the rolling ticker, whose channel holds one tick, and  *)
(* the user's flush signal.  flushLoop stops both when it returns.         *)

Tick ==
  /\ ~tick /\ pcF # "returned"
  /\ tick' = TRUE
  /\ UNCHANGED flushRequested
  /\ OutsideOnly

FlushSignal ==
  /\ ~flushRequested /\ pcF # "returned"
  /\ flushRequested' = TRUE
  /\ UNCHANGED tick
  /\ OutsideOnly

(* runOutputs has waited for flushLoop and is over. *)
Returned == pcF = "returned" /\ UNCHANGED vars

Adding == AddDropped \/ AddCount \/ AddReset \/ AddSignal

Looping ==
  \/ FlushTop \/ FlushFinal \/ FlushTick \/ FlushRequested
  \/ FlushBatchReady \/ FlushReady \/ FlushSlow \/ FlushDone

Writing ==
  \/ WriteReset \/ WriteLen \/ WriteTakeBatch \/ WriteLoopEnd
  \/ WriteLoad \/ WriteStore \/ OutputWriteOk \/ OutputWriteErr
  \/ WriteAccept \/ WriteReject

Next ==
  \/ AddFiltered \/ AddToBuffer \/ SourceClosed \/ Adding
  \/ Looping \/ Writing
  \/ Tick \/ FlushSignal \/ Returned

Spec == Init /\ [][Next]_vars

(* Goroutines that can run do run, Output.Write returns, and a select that *)
(* stays ready takes one of its ready cases.                               *)
FairSpec ==
  /\ Spec
  /\ WF_vars(Adding) /\ WF_vars(Writing)
  /\ WF_vars(FlushTop) /\ WF_vars(FlushFinal)
  /\ WF_vars(FlushReady) /\ WF_vars(FlushDone)
  /\ WF_vars(FlushTick \/ FlushRequested \/ FlushBatchReady)

(* The ticker ticks, and the destination does not refuse for ever. *)
Recovering == WF_vars(Tick) /\ SF_vars(OutputWriteOk)

-----------------------------------------------------------------------------
Delivered == {delivered[i] : i \in DOMAIN delivered}

(* Types of what the output adds to its buffer. *)
TypeOK ==
  /\ B!TypeOK
  /\ newMetricsCount \in 0..MetricBatchSize
  /\ droppedMetrics \in Nat /\ loaded \in Nat /\ warned \in Nat
  /\ dropped \in {0, 1}
  /\ metricsFiltered \in 0..MaxMetrics
  /\ pcA \in {"idle", "dropped", "count", "reset", "signal", "closed"}
  /\ pcF \in {"top", "select", "ready", "wait", "returned"}
  /\ pcW \in {"off", "reset", "len", "batch", "load", "store", "output",
              "accept", "reject", "done"}
  /\ left \in Nat
  /\ {ctxDone, final, tick, flushRequested, batchReady, wholeWrite} \subseteq BOOLEAN
  /\ delivered \in Seq(B!Metrics) /\ tried \subseteq B!Metrics

(* AddMetric tests newMetricsCount for equality with the batch size while  *)
(* Write zeroes it behind AddMetric's back: the count never gets past the  *)
(* batch size, so the test is never stepped over and BatchReady never      *)
(* stops being signalled.                                                  *)
CountNeverOvershoots ==
  newMetricsCount >= MetricBatchSize => pcA = "reset"

(* What Output.Write took, over all flushes and retries, is in the order   *)
(* of arrival and without repetition.                                      *)
DeliveredInOrder ==
  \A i, j \in DOMAIN delivered : i < j => delivered[i] < delivered[j]

(* A metric is accepted, and so reported as delivered to the input that    *)
(* tracks it, exactly when Output.Write took it; between the return of     *)
(* Output.Write and Accept the batch is delivered and not yet accepted.    *)
AcceptedIffDelivered ==
  pcW # "accept" => \A m \in B!Metrics : accepts[m] = 1 <=> m \in Delivered

(* flushLoop returns with nothing in the buffer, unless Output.Write       *)
(* failed in the last flush: the n / batch size + 1 batches of Write are   *)
(* enough for everything that was added before the context was cancelled.  *)
ShutdownDrains ==
  pcF = "returned" => /\ batch = <<>>
                      /\ size = 0 \/ tried \ Delivered # {}

(* The overflow warnings never report more drops than there were, although *)
(* write loads and zeroes droppedMetrics in two steps.                     *)
OverflowReportSound == warned + droppedMetrics <= metricsDropped

(* Whatever the goroutines do, they use the buffer as it wants to be used: *)
(* one batch out at a time, settled once, before the next is taken.        *)
BufferProtocol == B!Spec

(* Once the source is closed the flush loop writes a last time and ends.   *)
ShutdownCompletes == ctxDone ~> pcF = "returned"

(* A full batch is written without waiting for the ticker or a signal,     *)
(* even when the send on BatchReady finds the channel full.                *)
FullBatchWrites == pcA = "signal" ~> pcW = "batch"

(* As long as the ticker ticks and the destination recovers, every metric  *)
(* added is accepted or rejected in the end, or flushLoop is over.         *)
EventuallySettled ==
  Recovering =>
    \A m \in B!Metrics :
      m <= metricsAdded ~> (accepts[m] + rejects[m] = 1 \/ pcF = "returned")

(* What the comment on runOutputs says: on shutdown metrics are written    *)
(* one last time, so none is left that was not given to Output.Write.      *)
LastWriteTriesAll ==
  pcF = "returned" =>
    \A s \in B!Slots : buf[s] # B!Nil => buf[s] \in tried
=============================================================================
