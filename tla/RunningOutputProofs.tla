------------------------ MODULE RunningOutputProofs -------------------------
(***************************************************************************)
(* Proofs about RunningOutput, for every buffer limit, batch size and      *)
(* number of metrics.  The goroutines are shown to keep the protocol of    *)
(* the buffer (a refinement), which hands the output every invariant that  *)
(* BufferProofs proves.  The invariants of the output rest on those: the   *)
(* lemmas about steps come first, with BufferInv as a hypothesis, then the *)
(* instance of BufferProofs that gives it, then the theorems.              *)
(***************************************************************************)
EXTENDS RunningOutput, TLAPS

(* The writer holds a batch exactly from the return of Batch to the call   *)
(* of Accept or Reject, and there is one writer at a time.                 *)
ProtocolInv ==
  /\ pcW \in {"load", "store", "output", "accept", "reject"} <=> batch # <<>>
  /\ pcF # "wait" => pcW = "off"

(* What the invariants of the output use of its buffer. *)
BufferInv ==
  /\ B!TypeOK
  /\ B!BatchPrecedesRing
  /\ B!SettledOnce
  /\ \A m \in B!Metrics :
       B!Occurrences(m, batch) = IF \E i \in DOMAIN batch : batch[i] = m
                                 THEN 1 ELSE 0

-----------------------------------------------------------------------------
(* The goroutines keep the protocol: no step of the adder or of the flush  *)
(* loop disturbs the batch, and the writer takes one only when it has none.*)
LEMMA ProtocolStep == ProtocolInv /\ [Next]_vars => ProtocolInv' /\ [B!Next]_(B!vars)
<1> SUFFICES ASSUME ProtocolInv, [Next]_vars
             PROVE  ProtocolInv' /\ [B!Next]_(B!vars)
  OBVIOUS
<1> USE DEF ProtocolInv, bufVars, loopVars, locals, history, writeVars, events,
            adderVars, counters, AdderOnly, LooperOnly, WriterOnly, OutsideOnly,
            B!vars, B!ring, B!stats
<1>1. CASE AddToBuffer
  BY <1>1 DEF AddToBuffer, B!Next, B!Add
<1>2. CASE AddFiltered \/ SourceClosed \/ Adding
  BY <1>2 DEF AddFiltered, SourceClosed, Adding, AddDropped, AddCount,
              AddReset, AddSignal
<1>3. CASE Looping
  BY <1>3 DEF Looping, FlushTop, FlushFinal, FlushTick, FlushRequested,
              FlushBatchReady, FlushReady, FlushSlow, FlushDone, AfterFlush,
              StartWrite, StartWriteBatch
<1>4. CASE WriteReset \/ WriteLen \/ WriteLoopEnd \/ WriteLoad \/ WriteStore
  BY <1>4 DEF WriteReset, WriteLen, WriteLoopEnd, WriteLoad, WriteStore
<1>5. CASE OutputWriteOk \/ OutputWriteErr
  BY <1>5 DEF OutputWriteOk, OutputWriteErr, AfterError
<1>6. CASE WriteTakeBatch
  BY <1>6 DEF WriteTakeBatch, B!Next
<1>7. CASE WriteAccept
  BY <1>7 DEF WriteAccept, OnSuccess, B!Next, B!Accept
<1>8. CASE WriteReject
  BY <1>8 DEF WriteReject, OnError, B!Next, B!Reject
<1>9. CASE Tick \/ FlushSignal \/ Returned \/ UNCHANGED vars
  BY <1>9 DEF Tick, FlushSignal, Returned, vars
<1> QED
  BY <1>1, <1>2, <1>3, <1>4, <1>5, <1>6, <1>7, <1>8, <1>9 DEF Next, Writing

(* A new output has no writer and an empty batch. *)
LEMMA ProtocolInit == Init => ProtocolInv /\ B!Init
  BY DEF Init, ProtocolInv, B!Init, B!NewBuffer

(* The goroutines of an output use its buffer as it wants to be used.      *)
THEOREM UsesBufferCorrectly == Spec => BufferProtocol
  BY ProtocolInit, ProtocolStep, PTL DEF Spec, BufferProtocol, B!Spec

(* The writer holds a batch exactly between Batch and Accept or Reject.    *)
LEMMA ProtocolHolds == Spec => []ProtocolInv
  BY ProtocolInit, ProtocolStep, PTL DEF Spec

-----------------------------------------------------------------------------
(* AddMetric compares the count it has just stored and moves on to reset   *)
(* it, so that no step but that one ever finds a full count.               *)
CountInv ==
  /\ newMetricsCount \in 0..MetricBatchSize
  /\ newMetricsCount >= MetricBatchSize => pcA = "reset"

(* The drops AddMetric has not yet told the output of are in its local, and *)
(* a writer about to store zero has loaded no more than is there.          *)
DropInv ==
  /\ droppedMetrics \in Nat /\ loaded \in Nat /\ warned \in Nat
  /\ dropped \in {0, 1}
  /\ warned + droppedMetrics + (IF pcA = "dropped" THEN dropped ELSE 0)
       <= metricsDropped
  /\ pcW = "store" => loaded <= droppedMetrics

(* Every step keeps the count within the batch size. *)
LEMMA CountStep == CountInv /\ [Next]_vars => CountInv'
<1> SUFFICES ASSUME CountInv, [Next]_vars PROVE CountInv'
  OBVIOUS
<1> USE OutputAssumption DEF CountInv, counters, adderVars
<1>1. CASE AddFiltered \/ AddToBuffer \/ SourceClosed \/ AddDropped \/ AddSignal
  BY <1>1 DEF AddFiltered, AddToBuffer, SourceClosed, AddDropped, AddSignal,
              Receiving
<1>2. CASE AddCount \/ AddReset
  BY <1>2 DEF AddCount, AddReset, BatchFull
<1>3. CASE Looping
  BY <1>3 DEF Looping, FlushTop, FlushFinal, FlushTick, FlushRequested,
              FlushBatchReady, FlushReady, FlushSlow, FlushDone, LooperOnly
<1>4. CASE Writing
  BY <1>4 DEF Writing, WriteReset, WriteLen, WriteTakeBatch, WriteLoopEnd,
              WriteLoad, WriteStore, OutputWriteOk, OutputWriteErr,
              WriteAccept, WriteReject, WriterOnly
<1>5. CASE Tick \/ FlushSignal \/ Returned \/ UNCHANGED vars
  BY <1>5 DEF Tick, FlushSignal, Returned, OutsideOnly, vars
<1> QED
  BY <1>1, <1>2, <1>3, <1>4, <1>5 DEF Next, Adding

(* The count of new metrics is in range in every reachable state. *)
LEMMA CountHolds == Spec => []CountInv
<1>1. Init => CountInv
  BY OutputAssumption DEF Init, CountInv
<1> QED
  BY <1>1, CountStep, PTL DEF Spec

(* However AddMetric and Write interleave on newMetricsCount, the test for *)
(* equality with the batch size is never stepped over.                     *)
THEOREM CountCorrect == Spec => []CountNeverOvershoots
<1>1. CountInv => CountNeverOvershoots
  BY DEF CountInv, CountNeverOvershoots
<1> QED
  BY <1>1, CountHolds, PTL

(* Every step keeps the account of the drops. *)
LEMMA DropStep == BufferInv /\ DropInv /\ [Next]_vars => DropInv'
<1> SUFFICES ASSUME BufferInv, DropInv, [Next]_vars PROVE DropInv'
  OBVIOUS
<1>t. metricsDropped \in Nat /\ batch \in Seq(B!Metrics)
  BY DEF BufferInv, B!TypeOK
<1> USE DEF DropInv, counters, adderVars, bufVars, locals, history, writeVars
<1>1. CASE AddToBuffer
  <2>1. metricsDropped' = metricsDropped + Len(IF size = Cap THEN <<buf[last]>> ELSE <<>>)
    BY <1>1 DEF AddToBuffer, B!Add, B!metricDropped
  <2>2. metricsDropped' - metricsDropped \in {0, 1}
    BY <1>t, <2>1
  <2>3. /\ UNCHANGED <<droppedMetrics, loaded, warned, pcW>>
        /\ pcA = "idle" /\ pcA' = "dropped"
        /\ dropped' = metricsDropped' - metricsDropped
    BY <1>1 DEF AddToBuffer, Receiving, AdderOnly
  <2>4. metricsDropped' = metricsDropped \/ metricsDropped' = metricsDropped + 1
    BY <1>t, <2>1
  <2> QED
    BY <1>t, <2>2, <2>3, <2>4
<1>2. CASE AddDropped
  BY <1>t, <1>2 DEF AddDropped, AdderOnly
<1>3. CASE AddFiltered \/ SourceClosed \/ AddCount \/ AddReset \/ AddSignal
  <2>1. /\ UNCHANGED <<droppedMetrics, loaded, warned, dropped, metricsDropped, pcW>>
        /\ pcA # "dropped" /\ pcA' # "dropped"
    BY <1>3, Zenon DEF AddFiltered, SourceClosed, AddCount, AddReset, AddSignal,
                        Receiving, AdderOnly
  <2> QED
    BY <2>1
<1>4. CASE Looping
  BY <1>t, <1>4, Zenon DEF Looping, FlushTop, FlushFinal, FlushTick, FlushRequested,
              FlushBatchReady, FlushReady, FlushSlow, FlushDone, LooperOnly,
              StartWrite, StartWriteBatch
<1>5. CASE WriteReset \/ WriteLen \/ WriteLoopEnd \/ OutputWriteOk \/ OutputWriteErr
  BY <1>t, <1>5, Zenon DEF WriteReset, WriteLen, WriteLoopEnd, OutputWriteOk,
                    OutputWriteErr, AfterError, WriterOnly
<1>6. CASE WriteLoad
  BY <1>t, <1>6 DEF WriteLoad, WriterOnly
<1>7. CASE WriteStore
  <2>1. /\ UNCHANGED <<pcA, dropped, metricsDropped, loaded>>
        /\ pcW = "store" /\ pcW' = "output"
        /\ warned' = warned + loaded /\ droppedMetrics' = 0
    BY <1>7 DEF WriteStore, StoreDropped, WriterOnly
  <2> QED
    BY <1>t, <2>1
<1>8. CASE WriteTakeBatch \/ WriteAccept
  <2>1. metricsDropped' = metricsDropped
    BY <1>8 DEF WriteTakeBatch, WriteAccept, OnSuccess, B!Batch, B!Accept, B!stats
  <2> QED
    BY <1>t, <1>8, <2>1 DEF WriteTakeBatch, WriteAccept, WriterOnly
<1>9. CASE WriteReject
  <2> DEFINE skip == Len(batch) - B!min(Len(batch), Cap - size)
  <2>1. metricsDropped' = metricsDropped + Len(SubSeq(batch, 1, skip))
    BY <1>9 DEF WriteReject, OnError, B!Reject, B!metricDropped
  <2>2. skip \in Int
    BY <1>t, OutputAssumption DEF B!min, BufferInv, B!TypeOK
  <2>3. Len(SubSeq(batch, 1, skip)) \in Nat
    BY <1>t, <2>2
  <2>4. PICK n \in Nat : metricsDropped' = metricsDropped + n
    BY <2>1, <2>3, Zenon
  <2> QED
    BY <1>t, <1>9, <2>4 DEF WriteReject, WriterOnly
<1>10. CASE Tick \/ FlushSignal \/ Returned \/ UNCHANGED vars
  BY <1>10 DEF Tick, FlushSignal, Returned, OutsideOnly, vars
<1> QED
  BY <1>1, <1>2, <1>3, <1>4, <1>5, <1>6, <1>7, <1>8, <1>9, <1>10
     DEF Next, Adding, Writing

-----------------------------------------------------------------------------
InBatch == {batch[i] : i \in DOMAIN batch}

(* What Output.Write took is in order, is what was accepted or is about to *)
(* be, and is older than the ring and than the batch still to be written.  *)
(* The last part makes it inductive: Reject moves the ring back over the   *)
(* batch, and must not move it back over anything delivered.               *)
DeliverInv ==
  /\ delivered \in Seq(B!Metrics)
  /\ DeliveredInOrder
  /\ \A m \in B!Metrics :
       m \in Delivered <=> accepts[m] = 1 \/ (pcW = "accept" /\ m \in InBatch)
  /\ \A i \in DOMAIN delivered :
       /\ delivered[i] <= metricsAdded - size
       /\ pcW # "accept" => \A j \in DOMAIN batch : delivered[i] < batch[j]

(* The invariant speaks of these variables only. *)
LEMMA DeliverFrame ==
  ASSUME DeliverInv, UNCHANGED <<delivered, accepts, metricsAdded, size, batch>>,
         pcW' = "accept" <=> pcW = "accept"
  PROVE  DeliverInv'
  BY DEF DeliverInv, DeliveredInOrder, Delivered, InBatch, B!Metrics

(* A metric added is newer than everything delivered. *)
LEMMA DeliverAdd ==
  ASSUME BufferInv, DeliverInv, AddToBuffer
  PROVE  DeliverInv'
<1>1. /\ size \in 0..Cap /\ metricsAdded \in Nat
  BY OutputAssumption DEF BufferInv, B!TypeOK
<1>2. /\ UNCHANGED <<delivered, accepts, batch, pcW>>
      /\ metricsAdded' = metricsAdded + 1
      /\ size' = B!min(size + 1, Cap)
  BY DEF AddToBuffer, AdderOnly, writeVars, history, B!Add
<1>3. size' \in Nat /\ size' <= size + 1
  BY <1>1, <1>2, OutputAssumption DEF B!min
<1>4. \A i \in DOMAIN delivered' : delivered'[i] <= metricsAdded' - size'
  <2> SUFFICES ASSUME NEW i \in DOMAIN delivered
               PROVE  delivered[i] <= metricsAdded' - size'
    BY <1>2
  <2>1. delivered[i] \in Nat /\ delivered[i] <= metricsAdded - size
    BY OutputAssumption DEF DeliverInv, B!Metrics
  <2> QED
    BY <1>1, <1>2, <1>3, <2>1
<1> QED
  BY <1>2, <1>4 DEF DeliverInv, DeliveredInOrder, Delivered, InBatch, B!Metrics

(* A batch taken is newer than everything delivered: it comes off the ring. *)
LEMMA DeliverBatch ==
  ASSUME BufferInv, BufferInv', ProtocolInv, DeliverInv, WriteTakeBatch
  PROVE  DeliverInv'
<1>1. /\ size \in 0..Cap /\ metricsAdded \in Nat /\ Cap \in Nat \ {0}
      /\ MetricBatchSize \in Nat \ {0}
  BY OutputAssumption DEF BufferInv, B!TypeOK
<1>2. /\ UNCHANGED <<delivered, accepts, metricsAdded>>
      /\ pcW = "batch" /\ pcW' # "accept" /\ batch = <<>>
  BY DEF WriteTakeBatch, WriterOnly, history, B!Batch, B!stats, ProtocolInv
<1> DEFINE outLen == B!min(size, MetricBatchSize)
<1>3. CASE outLen = 0
  <2>1. UNCHANGED <<size, batch>>
    BY <1>2, <1>3 DEF WriteTakeBatch, B!Batch, B!ring
  <2> QED
    BY <1>2, <2>1, DeliverFrame
<1>4. CASE outLen # 0
  <2>0. outLen \in 1..size
    BY <1>1, <1>4 DEF B!min
  <2>1. /\ batch' = [i \in 1..outLen |-> buf[B!nextby(first, i - 1)]]
        /\ size' = size - outLen
    BY <1>4 DEF WriteTakeBatch, B!Batch
  <2> HIDE DEF outLen
  <2>2. batch' \in Seq(B!Metrics) /\ DOMAIN batch' = 1..outLen /\ Len(batch') = outLen
    BY <2>0, <2>1, <1>1 DEF BufferInv, B!TypeOK
  <2>3. /\ size' < Cap /\ batch' # <<>>
    BY <1>1, <2>0, <2>1, <2>2
  <2>4. \A j \in 1..outLen : batch'[j] = metricsAdded - size + j
    <3>1. batch'[outLen] = metricsAdded - size'
      BY <1>2, <2>2, <2>3 DEF BufferInv, B!BatchPrecedesRing
    <3>2. \A j \in 1..outLen : batch'[j] = batch'[1] + j - 1
      BY <2>2, Zenon DEF BufferInv, B!BatchPrecedesRing
    <3>3. batch'[1] \in Nat
      BY <2>0, <2>2, OutputAssumption DEF B!Metrics
    <3>4. batch'[outLen] = batch'[1] + outLen - 1
      BY <2>0, <3>2
    <3> QED
      BY <1>1, <2>0, <2>1, <3>1, <3>2, <3>3, <3>4
  <2>5. \A i \in DOMAIN delivered' :
          /\ delivered'[i] <= metricsAdded' - size'
          /\ \A j \in DOMAIN batch' : delivered'[i] < batch'[j]
    <3> SUFFICES ASSUME NEW i \in DOMAIN delivered
                 PROVE  /\ delivered[i] <= metricsAdded - size'
                        /\ \A j \in 1..outLen : delivered[i] < batch'[j]
      BY <1>2, <2>2
    <3>1. delivered[i] \in Nat /\ delivered[i] <= metricsAdded - size
      BY OutputAssumption DEF DeliverInv, B!Metrics
    <3> QED
      BY <1>1, <2>0, <2>1, <2>4, <3>1
  <2> QED
    BY <1>2, <2>5 DEF DeliverInv, DeliveredInOrder, Delivered, B!Metrics
<1> QED
  BY <1>3, <1>4

(* A batch Output.Write takes extends what was delivered in order. *)
LEMMA DeliverOk ==
  ASSUME BufferInv, ProtocolInv, DeliverInv, OutputWriteOk
  PROVE  DeliverInv'
<1>1. /\ UNCHANGED <<accepts, metricsAdded, size, batch>>
      /\ delivered' = delivered \o batch
      /\ pcW = "output" /\ pcW' = "accept"
  BY DEF OutputWriteOk, bufVars
<1>2. /\ delivered \in Seq(B!Metrics) /\ batch \in Seq(B!Metrics)
      /\ B!Metrics \subseteq Nat /\ metricsAdded \in Nat /\ size \in Nat
  BY OutputAssumption DEF DeliverInv, BufferInv, B!TypeOK, B!Metrics
<1> DEFINE n == Len(delivered)
<1>3. /\ n \in Nat /\ Len(batch) \in Nat
      /\ DOMAIN delivered = 1..n /\ DOMAIN batch = 1..Len(batch)
      /\ delivered' \in Seq(B!Metrics)
      /\ DOMAIN delivered' = 1..(n + Len(batch))
      /\ \A i \in 1..n : delivered'[i] = delivered[i]
      /\ \A i \in 1..Len(batch) : delivered'[n + i] = batch[i]
  BY <1>1, <1>2
<1>4. \A i \in 1..(n + Len(batch)) : i \in 1..n \/ i - n \in 1..Len(batch)
  BY <1>3
<1>5. \A i \in 1..Len(batch) : n + i \in 1..(n + Len(batch)) /\ n + i - n = i
  BY <1>3
<1>6. \A i \in 1..n : i \in 1..(n + Len(batch))
  BY <1>3
<1>7. \A i \in 1..(n + Len(batch)) : i \notin 1..n => delivered'[i] = batch[i - n]
  BY <1>3
<1> HIDE DEF n
<1>8. DeliveredInOrder'
  <2> SUFFICES ASSUME NEW i \in 1..(n + Len(batch)), NEW j \in 1..(n + Len(batch)),
                      i < j
               PROVE  delivered'[i] < delivered'[j]
    BY <1>3 DEF DeliveredInOrder
  <2>1. CASE j \in 1..n
    <3>1. i \in 1..n
      BY <1>3, <2>1
    <3> QED
      BY <1>3, <2>1, <3>1 DEF DeliverInv, DeliveredInOrder
  <2>2. CASE j \notin 1..n /\ i \in 1..n
    <3>1. j - n \in 1..Len(batch) /\ delivered'[j] = batch[j - n]
      BY <1>4, <1>7, <2>2
    <3>2. delivered'[i] = delivered[i] /\ delivered[i] < batch[j - n]
      BY <1>1, <1>3, <2>2, <3>1, Zenon DEF DeliverInv
    <3> QED
      BY <3>1, <3>2
  <2>3. CASE i \notin 1..n
    <3>1. j \notin 1..n /\ i - n \in 1..Len(batch) /\ j - n \in 1..Len(batch)
      BY <1>3, <2>3
    <3>2. batch[i - n] = batch[1] + (i - n) - 1 /\ batch[j - n] = batch[1] + (j - n) - 1
      BY <1>3, <3>1, Zenon DEF BufferInv, B!BatchPrecedesRing
    <3>3. batch[1] \in Nat
      <4>1. 1 \in 1..Len(batch)
        BY <1>3, <3>1
      <4> QED
        BY <1>2, <1>3, <4>1, OutputAssumption DEF B!Metrics
    <3> QED
      BY <1>3, <1>7, <2>3, <3>1, <3>2, <3>3
  <2> QED
    BY <2>1, <2>2, <2>3
<1>9. Delivered' = Delivered \cup InBatch
  <2>1. \A m : m \in Delivered' => m \in Delivered \cup InBatch
    BY <1>3, <1>4, <1>7 DEF Delivered, InBatch
  <2>2. \A m : m \in Delivered => m \in Delivered'
    BY <1>3, <1>6 DEF Delivered
  <2>3. \A m : m \in InBatch => m \in Delivered'
    BY <1>3, <1>5 DEF Delivered, InBatch
  <2> QED
    BY <2>1, <2>2, <2>3
<1>10. \A m \in B!Metrics :
         m \in Delivered' <=> accepts'[m] = 1 \/ (pcW' = "accept" /\ m \in InBatch')
  BY <1>1, <1>9 DEF DeliverInv, InBatch
<1>11. \A i \in 1..(n + Len(batch)) : delivered'[i] <= metricsAdded' - size'
  <2> SUFFICES ASSUME NEW i \in 1..(n + Len(batch))
               PROVE  delivered'[i] <= metricsAdded - size
    BY <1>1, Zenon
  <2>1. CASE i \in 1..n
    BY <1>3, <2>1 DEF DeliverInv
  <2>2. CASE i \notin 1..n
    <3>1. i - n \in 1..Len(batch) /\ delivered'[i] = batch[i - n]
      BY <1>4, <1>7, <2>2
    <3> QED
      BY <1>3, <3>1 DEF BufferInv, B!BatchPrecedesRing
  <2> QED
    BY <2>1, <2>2
<1> QED
  BY <1>1, <1>3, <1>8, <1>10, <1>11 DEF DeliverInv, B!Metrics

(* Accept settles what was delivered and nothing else. *)
LEMMA DeliverAccept ==
  ASSUME BufferInv, ProtocolInv, DeliverInv, WriteAccept
  PROVE  DeliverInv'
<1>1. /\ UNCHANGED <<delivered, metricsAdded, size>>
      /\ pcW = "accept" /\ pcW' = "batch" /\ batch' = <<>>
      /\ accepts' = [m \in B!Metrics |-> accepts[m] + B!Occurrences(m, batch)]
  BY DEF WriteAccept, OnSuccess, B!Accept, B!metricWritten, history
<1>2. ASSUME NEW m \in B!Metrics
      PROVE  accepts'[m] = 1 <=> accepts[m] = 1 \/ m \in InBatch
  <2>1. B!Occurrences(m, batch) = IF \E i \in DOMAIN batch : batch[i] = m THEN 1 ELSE 0
    BY DEF BufferInv
  <2>2. accepts[m] \in Nat /\ rejects[m] \in Nat
    BY DEF BufferInv, B!TypeOK
  <2>3. CASE \E i \in DOMAIN batch : batch[i] = m
    <3>1. accepts[m] + rejects[m] = 0
      BY <2>3 DEF BufferInv, B!SettledOnce
    <3> QED
      BY <1>1, <2>1, <2>2, <2>3, <3>1 DEF InBatch
  <2>4. CASE ~ \E i \in DOMAIN batch : batch[i] = m
    <3>1. m \notin InBatch
      BY <2>4 DEF InBatch
    <3> QED
      BY <1>1, <2>1, <2>2, <2>4, <3>1
  <2> QED
    BY <2>3, <2>4
<1> QED
  BY <1>1, <1>2 DEF DeliverInv, DeliveredInOrder, Delivered, B!Metrics

(* Reject moves the ring back over the batch, which was not delivered. *)
LEMMA DeliverReject ==
  ASSUME BufferInv, ProtocolInv, DeliverInv, WriteReject
  PROVE  DeliverInv'
<1> DEFINE restore == B!min(Len(batch), Cap - size)
<1>1. /\ UNCHANGED <<delivered, accepts, metricsAdded>>
      /\ pcW = "reject" /\ pcW' = "done" /\ batch' = <<>> /\ batch # <<>>
      /\ size' = B!min(size + restore, Cap)
  BY DEF WriteReject, OnError, B!Reject, history
<1>t. /\ size \in 0..Cap /\ Cap \in Nat /\ metricsAdded \in Nat
      /\ batch \in Seq(B!Metrics)
  BY OutputAssumption DEF BufferInv, B!TypeOK
<1>2. /\ Len(batch) \in Nat /\ DOMAIN batch = 1..Len(batch) /\ Len(batch) >= 1
  BY <1>1, <1>t
<1>3. restore \in 0..Len(batch) /\ (size = Cap => restore = 0) /\ size' = size + restore
  BY <1>1, <1>t, <1>2 DEF B!min
<1> HIDE DEF restore
<1>4. \A i \in DOMAIN delivered : delivered[i] <= metricsAdded - size'
  <2> SUFFICES ASSUME NEW i \in DOMAIN delivered
               PROVE  delivered[i] <= metricsAdded - size'
    OBVIOUS
  <2>0. 1 \in DOMAIN batch /\ batch[1] \in Nat
    BY <1>t, <1>2, OutputAssumption DEF B!Metrics
  <2>1. /\ delivered[i] \in Nat /\ delivered[i] <= metricsAdded - size
        /\ delivered[i] < batch[1]
    BY <1>1, <2>0, OutputAssumption DEF DeliverInv, B!Metrics
  <2>2. CASE size = Cap
    BY <1>t, <1>2, <1>3, <2>1, <2>2
  <2>3. CASE size < Cap
    <3>1. batch[Len(batch)] = metricsAdded - size
      BY <1>1, <2>3 DEF BufferInv, B!BatchPrecedesRing
    <3>2. batch[Len(batch)] = batch[1] + Len(batch) - 1
      BY <1>2 DEF BufferInv, B!BatchPrecedesRing
    <3> QED
      BY <1>t, <1>2, <1>3, <2>0, <2>1, <3>1, <3>2
  <2> QED
    BY <1>t, <2>2, <2>3
<1> QED
  BY <1>1, <1>4 DEF DeliverInv, DeliveredInOrder, Delivered, B!Metrics

(* Every step keeps the account of what was delivered. *)
LEMMA DeliverStep ==
  BufferInv /\ BufferInv' /\ ProtocolInv /\ DeliverInv /\ [Next]_vars => DeliverInv'
<1> SUFFICES ASSUME BufferInv, BufferInv', ProtocolInv, DeliverInv, [Next]_vars
             PROVE  DeliverInv'
  OBVIOUS
<1> DEFINE Same == /\ UNCHANGED <<delivered, accepts, metricsAdded, size, batch>>
                   /\ pcW' = "accept" <=> pcW = "accept"
<1> USE DEF bufVars, history, writeVars
<1>1. CASE AddFiltered \/ SourceClosed \/ Adding
  <2>1. Same
    BY <1>1, Zenon DEF AddFiltered, SourceClosed, Adding, AddDropped, AddCount,
                AddReset, AddSignal, AdderOnly
  <2> QED BY <2>1, DeliverFrame, Zenon
<1>2. CASE Looping
  <2>1. Same
    BY <1>2, Zenon DEF Looping, FlushTop, FlushFinal, FlushTick, FlushRequested,
                FlushBatchReady, FlushReady, FlushSlow, FlushDone, LooperOnly,
                StartWrite, StartWriteBatch, ProtocolInv
  <2> QED BY <2>1, DeliverFrame
<1>3. CASE \/ WriteReset \/ WriteLen \/ WriteLoopEnd \/ WriteLoad \/ WriteStore
           \/ OutputWriteErr
  <2>1. Same
    BY <1>3, Zenon DEF WriteReset, WriteLen, WriteLoopEnd, WriteLoad, WriteStore,
                OutputWriteErr, AfterError
  <2> QED BY <2>1, DeliverFrame
<1>4. CASE Tick \/ FlushSignal \/ Returned \/ UNCHANGED vars
  <2>1. Same
    BY <1>4 DEF Tick, FlushSignal, Returned, OutsideOnly, vars
  <2> QED BY <2>1, DeliverFrame
<1> QED
  BY <1>1, <1>2, <1>3, <1>4, DeliverAdd, DeliverBatch, DeliverOk, DeliverAccept,
     DeliverReject DEF Next, Writing

-----------------------------------------------------------------------------
(* In the last flush nothing is added any more and the batches still to be *)
(* taken are enough for the ring; a flush that ends with something in the  *)
(* ring has tried a metric it did not deliver.                             *)
DrainInv ==
  /\ left \in Nat
  /\ ctxDone => pcA = "closed"
  /\ final => ctxDone /\ pcF \in {"wait", "returned"}
  /\ pcF = "returned" => final
  /\ pcW = "reject" => InBatch \subseteq tried
  /\ final /\ pcW \in {"batch", "load", "store", "output", "accept"} =>
       size = 0 \/ size < left * MetricBatchSize
  /\ final /\ pcW \in {"done", "off"} => size = 0 \/ tried \ Delivered # {}

(* n / b + 1 batches of b hold n metrics. *)
LEMMA EnoughBatches ==
  ASSUME NEW n \in Nat, NEW b \in Nat \ {0}
  PROVE  n \div b + 1 \in Nat /\ n < (n \div b + 1) * b
  OBVIOUS

(* A full batch less is one batch less. *)
LEMMA OneBatchLess ==
  ASSUME NEW n \in Nat, NEW l \in Nat, NEW b \in Nat \ {0}, n < l * b
  PROVE  l # 0 => n - b < (l - 1) * b
  OBVIOUS

(* Taking a batch leaves the ring empty or uses up one of the batches. *)
LEMMA DrainBatch ==
  ASSUME BufferInv, DrainInv, WriteTakeBatch
  PROVE  DrainInv'
<1> DEFINE outLen == B!min(size, MetricBatchSize)
<1>1. /\ UNCHANGED <<ctxDone, pcA, final, pcF, tried, delivered>>
      /\ pcW = "batch" /\ left > 0 /\ left' = left - 1
      /\ pcW' = IF batch' = <<>> THEN "done" ELSE "load"
  BY DEF WriteTakeBatch, WriterOnly, adderVars, loopVars, history
<1>2. /\ size \in Nat /\ left \in Nat /\ MetricBatchSize \in Nat \ {0}
  BY OutputAssumption DEF DrainInv, BufferInv, B!TypeOK
<1>3. CASE outLen = 0
  <2>1. size = 0
    BY <1>2, <1>3 DEF B!min
  <2>2. size' = size
    BY <1>3 DEF WriteTakeBatch, B!Batch, B!ring
  <2> QED
    BY <1>1, <1>2, <2>1, <2>2 DEF DrainInv
<1>4. CASE outLen # 0
  <2>1. /\ batch' = [i \in 1..outLen |-> buf[B!nextby(first, i - 1)]]
        /\ size' = size - outLen
    BY <1>4 DEF WriteTakeBatch, B!Batch
  <2>2. \/ outLen = size
        \/ outLen = MetricBatchSize /\ outLen < size
    BY <1>2 DEF B!min
  <2>3. outLen \in Nat \ {0}
    BY <1>2, <1>4, <2>2
  <2> HIDE DEF outLen
  <2>4. batch' # <<>>
    BY <2>1, <2>3
  <2>5. final => size' = 0 \/ size' < left' * MetricBatchSize
    <3> SUFFICES ASSUME final PROVE size' = 0 \/ size' < left' * MetricBatchSize
      OBVIOUS
    <3>1. size = 0 \/ size < left * MetricBatchSize
      BY <1>1 DEF DrainInv
    <3>2. CASE outLen = size
      BY <1>2, <2>1, <3>2
    <3>3. CASE outLen = MetricBatchSize /\ outLen < size
      BY <1>1, <1>2, <2>1, <3>1, <3>3, OneBatchLess
    <3> QED
      BY <2>2, <3>2, <3>3
  <2> QED
    BY <1>1, <1>2, <2>4, <2>5 DEF DrainInv
<1> QED
  BY <1>3, <1>4

(* An error leaves a metric that was tried and is not delivered. *)
LEMMA DrainReject ==
  ASSUME BufferInv, ProtocolInv, DeliverInv, DrainInv, WriteReject
  PROVE  DrainInv'
<1>1. /\ UNCHANGED <<ctxDone, pcA, final, pcF, tried, delivered, left>>
      /\ pcW = "reject" /\ pcW' = "done" /\ batch # <<>>
  BY DEF WriteReject, WriterOnly, adderVars, loopVars, locals, history, ProtocolInv
<1>2. 1 \in DOMAIN batch
  BY <1>1 DEF BufferInv, B!TypeOK
<1>3. batch[1] \in tried
  BY <1>1, <1>2 DEF DrainInv, InBatch
<1>4. batch[1] \notin Delivered
  <2> SUFFICES ASSUME NEW i \in DOMAIN delivered, delivered[i] = batch[1]
               PROVE  FALSE
    BY DEF Delivered
  <2>1. delivered[i] < batch[1] /\ delivered[i] \in Nat
    BY <1>1, <1>2, OutputAssumption DEF DeliverInv, B!Metrics
  <2> QED
    BY <2>1
<1>5. tried' \ Delivered' # {}
  BY <1>1, <1>3, <1>4 DEF Delivered
<1> QED
  BY <1>1, <1>5 DEF DrainInv

(* Every step keeps the last flush on its way to an empty ring. *)
LEMMA DrainStep ==
  BufferInv /\ ProtocolInv /\ DeliverInv /\ DrainInv /\ [Next]_vars => DrainInv'
<1> SUFFICES ASSUME BufferInv, ProtocolInv, DeliverInv, DrainInv, [Next]_vars
             PROVE  DrainInv'
  OBVIOUS
<1> USE DEF bufVars, adderVars, loopVars, locals, history, writeVars
<1> DEFINE Adder == AddFiltered \/ AddToBuffer \/ SourceClosed \/ Adding
<1>1. CASE Adder
  <2>1. pcA # "closed"
    BY <1>1 DEF AddFiltered, AddToBuffer, SourceClosed, Adding, AddDropped,
                AddCount, AddReset, AddSignal, Receiving
  <2>2. ~final
    BY <2>1 DEF DrainInv
  <2>3. (ctxDone' = ctxDone) \/ (pcA' = "closed")
    BY <1>1, Zenon DEF AddFiltered, AddToBuffer, SourceClosed, Adding, AddDropped,
                AddCount, AddReset, AddSignal
  <2>4. UNCHANGED <<left, final, pcF, pcW, tried>>
    BY <1>1, ZenonT(30) DEF AddFiltered, AddToBuffer, SourceClosed, Adding, AddDropped,
                AddCount, AddReset, AddSignal, AdderOnly
  <2>5. UNCHANGED batch
    BY <1>1, Zenon DEF AddFiltered, AddToBuffer, SourceClosed, Adding, AddDropped,
                AddCount, AddReset, AddSignal, B!Add
  <2>6. ~ctxDone
    BY <2>1 DEF DrainInv
  <2> QED
    BY <2>2, <2>3, <2>4, <2>5, <2>6 DEF DrainInv, InBatch
<1>2. CASE FlushTop \/ FlushTick \/ FlushRequested \/ FlushBatchReady \/ FlushReady
  <2>1. pcF \in {"top", "select", "ready"} /\ UNCHANGED <<final, ctxDone, pcA>>
    BY <1>2 DEF FlushTop, FlushTick, FlushRequested, FlushBatchReady, FlushReady,
                LooperOnly
  <2>2. ~final /\ pcW = "off" /\ left \in Nat
    BY <2>1 DEF DrainInv, ProtocolInv
  <2>3. pcF' # "returned" /\ left' \in Nat /\ pcW' # "reject"
    <3>1. CASE FlushTop \/ FlushBatchReady
      BY <2>2, <3>1 DEF FlushTop, FlushBatchReady
    <3>2. CASE StartWrite \/ StartWriteBatch
      BY <2>2, <3>2 DEF StartWrite, StartWriteBatch
    <3> QED
      BY <1>2, <3>1, <3>2 DEF FlushTick, FlushRequested, FlushReady
  <2> QED
    BY <2>1, <2>2, <2>3 DEF DrainInv
<1>3. CASE FlushFinal
  <2>1. /\ ctxDone /\ ctxDone' /\ UNCHANGED <<pcA, left>>
        /\ pcF' = "wait" /\ pcW' = "reset"
    BY <1>3 DEF FlushFinal, StartWrite, LooperOnly
  <2> QED
    BY <2>1 DEF DrainInv
<1>4. CASE FlushSlow
  <2>1. UNCHANGED <<ctxDone, pcA, final, pcF, pcW, size, left, batch, tried, delivered>>
    BY <1>4 DEF FlushSlow, LooperOnly
  <2> QED
    BY <2>1 DEF DrainInv, InBatch, Delivered
<1>5. CASE FlushDone
  <2>1. /\ UNCHANGED <<ctxDone, pcA, final, size, left, tried, delivered>>
        /\ pcW = "done" /\ pcW' = "off" /\ pcF = "wait"
        /\ pcF' = IF final THEN "returned" ELSE "top"
    BY <1>5 DEF FlushDone, AfterFlush, LooperOnly
  <2>2. final => pcF' = "returned" /\ ctxDone'
    BY <2>1 DEF DrainInv
  <2>3. pcF' = "returned" => final'
    BY <2>1
  <2>4. final => size' = 0 \/ tried' \ Delivered' # {}
    BY <2>1 DEF DrainInv, Delivered
  <2> QED
    BY <2>1, <2>2, <2>3, <2>4 DEF DrainInv
<1>6. CASE WriteReset \/ WriteLoad \/ WriteStore
  <2>1. UNCHANGED <<ctxDone, pcA, final, pcF, size, left>>
    BY <1>6 DEF WriteReset, WriteLoad, WriteStore, WriterOnly
  <2>2. \/ pcW = "reset" /\ pcW' = "len"
        \/ pcW \in {"load", "store"} /\ pcW' \in {"store", "output"}
    BY <1>6 DEF WriteReset, WriteLoad, WriteStore
  <2> QED
    BY <2>1, <2>2 DEF DrainInv
<1>7. CASE WriteLen
  <2>1. /\ UNCHANGED <<ctxDone, pcA, final, pcF, tried, delivered, size, batch>>
        /\ pcW = "len" /\ pcW' = "batch" /\ left' = nBatches(B!length)
    BY <1>7 DEF WriteLen, WriterOnly
  <2>2. /\ size \in 0..Cap /\ batchSize \in Nat /\ MetricBatchSize \in Nat \ {0}
        /\ Cap \in Nat
    BY OutputAssumption DEF BufferInv, B!TypeOK
  <2>3. batchSize = 0
    <3>1. batch = <<>>
      BY <2>1 DEF ProtocolInv
    <3> QED
      BY <2>2, <3>1 DEF BufferInv, B!BatchPrecedesRing
  <2>4. B!length = size
    BY <2>2, <2>3 DEF B!length, B!min
  <2>5. left' \in Nat /\ size < left' * MetricBatchSize
    BY <2>1, <2>2, <2>4, EnoughBatches DEF nBatches
  <2> QED
    BY <2>1, <2>5 DEF DrainInv
<1>8. CASE WriteLoopEnd
  <2>1. /\ UNCHANGED <<ctxDone, pcA, final, pcF, tried, delivered, size, left>>
        /\ pcW = "batch" /\ pcW' = "done" /\ left = 0
    BY <1>8 DEF WriteLoopEnd, WriterOnly
  <2>2. final => size = 0
    BY <2>1, OutputAssumption DEF DrainInv, BufferInv, B!TypeOK
  <2> QED
    BY <2>1, <2>2 DEF DrainInv
<1>9. CASE OutputWriteOk \/ OutputWriteErr
  <2>1. /\ UNCHANGED <<ctxDone, pcA, final, pcF, size, left, batch>>
        /\ pcW = "output" /\ pcW' \in {"accept", "reject"} /\ InBatch \subseteq tried'
    BY <1>9 DEF OutputWriteOk, OutputWriteErr, AfterError, WriterOnly, InBatch
  <2> QED
    BY <2>1 DEF DrainInv, InBatch
<1>10. CASE WriteAccept
  <2>1. /\ UNCHANGED <<ctxDone, pcA, final, pcF, size, left>>
        /\ pcW = "accept" /\ pcW' = "batch"
    BY <1>10, Zenon DEF WriteAccept, OnSuccess, B!Accept, WriterOnly
  <2> QED
    BY <2>1 DEF DrainInv
<1>11. CASE Tick \/ FlushSignal \/ Returned \/ UNCHANGED vars
  <2>1. UNCHANGED <<ctxDone, pcA, final, pcF, pcW, size, left, batch, tried, delivered>>
    BY <1>11, Zenon DEF Tick, FlushSignal, Returned, OutsideOnly, vars
  <2> QED
    BY <2>1 DEF DrainInv, InBatch, Delivered
<1> QED
  BY <1>1, <1>2, <1>3, <1>4, <1>5, <1>6, <1>7, <1>8, <1>9, <1>10, <1>11, DrainBatch,
     DrainReject DEF Next, Looping, Writing

-----------------------------------------------------------------------------
(* The types the other invariants do not give. *)
ControlInv ==
  /\ metricsFiltered \in 0..MaxMetrics
  /\ pcA \in {"idle", "dropped", "count", "reset", "signal", "closed"}
  /\ pcF \in {"top", "select", "ready", "wait", "returned"}
  /\ pcW \in {"off", "reset", "len", "batch", "load", "store", "output",
              "accept", "reject", "done"}
  /\ {ctxDone, final, tick, flushRequested, batchReady, wholeWrite} \subseteq BOOLEAN
  /\ tried \subseteq B!Metrics

(* Every step keeps the types. *)
LEMMA ControlStep == BufferInv /\ ControlInv /\ [Next]_vars => ControlInv'
<1> SUFFICES ASSUME BufferInv, ControlInv, [Next]_vars PROVE ControlInv'
  OBVIOUS
<1>b. {batch[i] : i \in DOMAIN batch} \subseteq B!Metrics
  BY DEF BufferInv, B!TypeOK
<1> USE DEF ControlInv, B!Metrics, adderVars, loopVars, events, locals, history,
            writeVars
<1>1. CASE AddFiltered \/ AddToBuffer
  <2>1. metricsAdded \in Nat
    BY OutputAssumption DEF BufferInv, B!TypeOK
  <2>2. /\ UNCHANGED <<pcF, pcW, tried>>
        /\ UNCHANGED <<ctxDone, final, tick, flushRequested, batchReady, wholeWrite>>
        /\ pcA' \in {"idle", "dropped"}
    BY <1>1 DEF AddFiltered, AddToBuffer, Receiving, AdderOnly
  <2>3. metricsFiltered' \in 0..MaxMetrics
    <3>1. CASE AddFiltered
      BY <2>1, <3>1, OutputAssumption DEF AddFiltered, Receiving
    <3>2. CASE AddToBuffer
      BY <3>2 DEF AddToBuffer
    <3> QED
      BY <1>1, <3>1, <3>2
  <2> QED
    BY <2>2, <2>3
<1>2. CASE SourceClosed \/ Adding
  BY <1>2, Zenon DEF SourceClosed, Adding, AddDropped, AddCount, AddReset, AddSignal,
              SendBatchReady, AdderOnly
<1>3. CASE Looping
  BY <1>3, Zenon DEF Looping, FlushTop, FlushFinal, FlushTick, FlushRequested,
              FlushBatchReady, FlushReady, FlushSlow, FlushDone, AfterFlush,
              StartWrite, StartWriteBatch, LooperOnly
<1>4. CASE \/ WriteReset \/ WriteLen \/ WriteTakeBatch \/ WriteLoopEnd
           \/ WriteLoad \/ WriteStore \/ WriteAccept \/ WriteReject
  BY <1>4, Zenon DEF WriteReset, WriteLen, WriteTakeBatch, WriteLoopEnd, WriteLoad,
              WriteStore, WriteAccept, WriteReject, WriterOnly
<1>5. CASE OutputWriteOk \/ OutputWriteErr
  <2>1. tried' \subseteq B!Metrics
    BY <1>5, <1>b, Zenon DEF OutputWriteOk, OutputWriteErr
  <2>2. /\ UNCHANGED <<metricsFiltered, pcA, pcF, ctxDone, final, tick,
                       flushRequested, batchReady, wholeWrite>>
        /\ pcW' \in {"accept", "reject"}
    BY <1>5 DEF OutputWriteOk, OutputWriteErr, AfterError, WriterOnly
  <2> QED
    BY <2>1, <2>2
<1>6. CASE Tick \/ FlushSignal \/ Returned \/ UNCHANGED vars
  BY <1>6, Zenon DEF Tick, FlushSignal, Returned, OutsideOnly, vars
<1> QED
  BY <1>1, <1>2, <1>3, <1>4, <1>5, <1>6 DEF Next, Writing

-----------------------------------------------------------------------------
P == INSTANCE BufferProofs

(* The buffer of the output is the buffer BufferProofs is about. *)
LEMMA SameInit == B!Init => P!Init
  BY DEF B!Init, P!Init, B!NewBuffer, P!NewBuffer, B!Slots, P!Slots, B!Nil,
         P!Nil, B!Metrics, P!Metrics

(* The operations are the same, one by one. *)
LEMMA SameNext == [B!Next]_(B!vars) => [P!Next]_(P!vars)
<1> USE DEF B!Nil, P!Nil, B!Metrics, P!Metrics, B!Slots, P!Slots, B!min, P!min,
      B!next, P!next, B!nextby, P!nextby, B!prevby, P!prevby, B!dist, P!dist,
      B!length, P!length, B!Occurrences, P!Occurrences,
      B!Cardinality, P!Cardinality, B!metricWritten, P!metricWritten,
      B!metricDropped, P!metricDropped, B!resetBatch, P!resetBatch,
      B!vars, P!vars, B!ring, P!ring, B!stats, P!stats
<1>1. B!Add => P!Add
  BY Zenon DEF B!Add, P!Add
<1>2. B!Batch => P!Batch
  BY Zenon DEF B!Batch, P!Batch
<1>3. B!Accept => P!Accept
  BY Zenon DEF B!Accept, P!Accept
<1>4. B!Reject => P!Reject
  BY Zenon DEF B!Reject, P!Reject
<1>5. UNCHANGED B!vars => UNCHANGED P!vars
  OBVIOUS
<1> QED
  BY <1>1, <1>2, <1>3, <1>4, <1>5, Zenon DEF B!Next, P!Next

(* Its invariants are the ones the output needs. *)
LEMMA SameInv == P!IInv => BufferInv
<1> USE DEF B!Nil, P!Nil, B!Metrics, P!Metrics, B!Slots, P!Slots, B!min, P!min
<1>1. P!TypeOK => B!TypeOK
  BY Zenon DEF P!TypeOK, B!TypeOK
<1>2. P!BatchPrecedesRing => B!BatchPrecedesRing
  BY Zenon DEF P!BatchPrecedesRing, B!BatchPrecedesRing
<1>3. P!SettledOnce => B!SettledOnce
  BY Zenon DEF P!SettledOnce, B!SettledOnce
<1>4. ASSUME P!TypeOK, P!BatchPrecedesRing, NEW m \in B!Metrics
      PROVE  B!Occurrences(m, batch) = IF \E i \in DOMAIN batch : batch[i] = m
                                       THEN 1 ELSE 0
  <2>1. /\ batch \in Seq(P!Metrics) /\ m \in P!Metrics
        /\ \A i \in DOMAIN batch : batch[i] = batch[1] + i - 1
    BY <1>4 DEF P!TypeOK, P!BatchPrecedesRing
  <2>2. P!Occurrences(m, batch) = IF \E i \in DOMAIN batch : batch[i] = m
                                  THEN 1 ELSE 0
    BY <2>1, P!OccursOnce, OutputAssumption
  <2>3. P!Occurrences(m, batch) = B!Occurrences(m, batch)
    BY Zenon DEF P!Occurrences, B!Occurrences, P!Cardinality, B!Cardinality
  <2> QED
    BY <2>2, <2>3
<1> QED
  BY <1>1, <1>2, <1>3, <1>4, Zenon DEF P!IInv, BufferInv

(* Whatever the goroutines do, the invariants of the buffer hold. *)
LEMMA BufferHolds == Spec => []BufferInv
<1>1. P!Spec => []P!IInv
  BY P!Invariance, OutputAssumption
<1> QED
  BY <1>1, UsesBufferCorrectly, SameInit, SameNext, SameInv, PTL
     DEF BufferProtocol, B!Spec, P!Spec

-----------------------------------------------------------------------------
(* The account of the drops holds in every reachable state. *)
LEMMA DropHolds == Spec => []DropInv
<1>1. Init => DropInv
  BY DEF Init, DropInv, B!Init, B!NewBuffer
<1> QED
  BY <1>1, DropStep, BufferHolds, PTL DEF Spec

(* The overflow warnings never report more drops than there were.          *)
THEOREM OverflowReportCorrect == Spec => []OverflowReportSound
<1>1. BufferInv /\ DropInv => OverflowReportSound
  BY DEF BufferInv, B!TypeOK, DropInv, OverflowReportSound
<1> QED
  BY <1>1, BufferHolds, DropHolds, PTL

(* The account of what was delivered holds in every reachable state. *)
LEMMA DeliverHolds == Spec => []DeliverInv
<1>1. Init => DeliverInv
  BY DEF Init, DeliverInv, DeliveredInOrder, Delivered, B!Init, B!NewBuffer, B!Metrics
<1> QED
  BY <1>1, DeliverStep, BufferHolds, ProtocolHolds, PTL DEF Spec

(* Whatever fails and is retried, Output.Write takes the metrics in the    *)
(* order of their arrival, and none of them twice.                         *)
THEOREM DeliveryOrdered == Spec => []DeliveredInOrder
<1>1. DeliverInv => DeliveredInOrder
  BY DEF DeliverInv
<1> QED
  BY <1>1, DeliverHolds, PTL

(* A metric is accepted exactly when Output.Write took it.                 *)
THEOREM AcceptanceCorrect == Spec => []AcceptedIffDelivered
<1>1. DeliverInv => AcceptedIffDelivered
  BY DEF DeliverInv, AcceptedIffDelivered
<1> QED
  BY <1>1, DeliverHolds, PTL

(* The last flush is on its way to an empty ring in every reachable state. *)
LEMMA DrainHolds == Spec => []DrainInv
<1>1. Init => DrainInv
  BY DEF Init, DrainInv
<1> QED
  BY <1>1, DrainStep, BufferHolds, ProtocolHolds, DeliverHolds, PTL DEF Spec

(* flushLoop returns with an empty buffer unless Output.Write failed in    *)
(* the last flush, whatever the buffer limit and the batch size.           *)
THEOREM ShutdownCorrect == Spec => []ShutdownDrains
<1>1. ProtocolInv /\ DrainInv => ShutdownDrains
  BY DEF ProtocolInv, DrainInv, ShutdownDrains
<1> QED
  BY <1>1, ProtocolHolds, DrainHolds, PTL

(* Types of the output and of its buffer. *)
THEOREM OutputTypeCorrect == Spec => []TypeOK
<1>1. ASSUME Init PROVE ControlInv
  <2>1. {ctxDone, final, tick, flushRequested, batchReady, wholeWrite} \subseteq BOOLEAN
    BY <1>1, Zenon DEF Init
  <2> QED
    BY <1>1, <2>1, OutputAssumption DEF Init, ControlInv
<1>2. Spec => []ControlInv
  BY <1>1, ControlStep, BufferHolds, PTL DEF Spec
<1>3. BufferInv /\ CountInv /\ DropInv /\ DeliverInv /\ DrainInv /\ ControlInv => TypeOK
  BY DEF BufferInv, CountInv, DropInv, DeliverInv, DrainInv, ControlInv, TypeOK
<1> QED
  BY <1>2, <1>3, BufferHolds, CountHolds, DropHolds, DeliverHolds, DrainHolds, PTL
=============================================================================
