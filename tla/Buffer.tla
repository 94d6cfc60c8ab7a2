------------------------------- MODULE Buffer -------------------------------
(***************************************************************************)
(* The metric buffer of one output (models/buffer.go): a circular buffer   *)
(* that keeps the newest metrics while a slice of the oldest ones, the     *)
(* batch, is out with the writer.                                          *)
(*                                                                         *)
(* Every exported method holds the buffer's mutex from its first to its    *)
(* last statement, so each one is a single action.  A metric is its        *)
(* arrival number, 1 for the first one added; Nil is the nil interface     *)
(* value of an empty slot.                                                 *)
(*                                                                         *)
(* batch is the slice Batch returned and the writer has not yet given to   *)
(* Accept or Reject; the code keeps it in a local variable of Write.       *)
(***************************************************************************)
EXTENDS Integers, Sequences, FiniteSets

CONSTANTS
  Cap,              \* metric_buffer_limit of the output
  MetricBatchSize,  \* metric_batch_size of the output
  MaxMetrics        \* bound: how many metrics are ever added

ASSUME BufferAssumption ==
  /\ Cap \in Nat \ {0}
  /\ MetricBatchSize \in Nat \ {0}
  /\ MaxMetrics \in Nat

VARIABLES
  buf, size, first, last,    \* the ring
  batchFirst, batchSize,     \* the ring's account of the batch
  batch,                     \* the slice the writer holds
  metricsAdded, metricsWritten, metricsDropped, bufferSize,  \* selfstats
  accepts, rejects           \* calls of Accept() and Reject() on each metric

ring  == <<buf, size, first, last, batchFirst, batchSize>>
stats == <<metricsAdded, metricsWritten, metricsDropped, bufferSize>>
vars  == <<ring, batch, stats, accepts, rejects>>

Nil     == 0
Metrics == 1..MaxMetrics
Slots   == 0..(Cap - 1)

min(a, b) == IF b < a THEN b ELSE a

-----------------------------------------------------------------------------
(* Index arithmetic. *)

(* Mutant: next does not wrap. *)
next_NoWrap(index) == index + 1

next(index) == IF index + 1 = Cap THEN 0 ELSE index + 1

nextby(index, count) == (index + count) % Cap

(* Mutant: prevby steps back one slot too few. *)
prevby_OffByOne(index, count) == (index - count + 1) % Cap

prevby(index, count) == (index - count) % Cap

(* How far slot s lies after slot f, going round: the loops over the ring  *)
(* visit the slots at distance 0, 1, 2, ... of where they start.           *)
dist(f, s) == IF f <= s THEN s - f ELSE Cap - f + s

(* The number of metrics Len() reports. *)
length == min(size + batchSize, Cap)

-----------------------------------------------------------------------------
(* Calls on metrics and the counters that go with them. *)

Occurrences(m, s) == Cardinality({i \in DOMAIN s : s[i] = m})

(* Mutant: a written metric is counted and not accepted. *)
metricWritten_NoAccept(s) ==
  /\ metricsWritten' = metricsWritten + Len(s)
  /\ accepts' = accepts

metricWritten(s) ==
  /\ metricsWritten' = metricsWritten + Len(s)
  /\ accepts' = [m \in Metrics |-> accepts[m] + Occurrences(m, s)]

(* Mutant: a dropped metric is rejected and not counted. *)
metricDropped_NoCount(s) ==
  /\ metricsDropped' = metricsDropped
  /\ rejects' = [m \in Metrics |-> rejects[m] + Occurrences(m, s)]

metricDropped(s) ==
  /\ metricsDropped' = metricsDropped + Len(s)
  /\ rejects' = [m \in Metrics |-> rejects[m] + Occurrences(m, s)]

(* Mutant: resetBatch forgets the size. *)
resetBatch_KeepSize ==
  /\ batchFirst' = 0
  /\ UNCHANGED batchSize

resetBatch ==
  /\ batchFirst' = 0
  /\ batchSize' = 0

-----------------------------------------------------------------------------
NewBuffer ==
  /\ buf = [s \in Slots |-> Nil]
  /\ size = 0 /\ first = 0 /\ last = 0
  /\ batchFirst = 0 /\ batchSize = 0
  /\ batch = <<>>
  /\ metricsAdded = 0 /\ metricsWritten = 0 /\ metricsDropped = 0
  /\ bufferSize = 0
  /\ accepts = [m \in Metrics |-> 0]
  /\ rejects = [m \in Metrics |-> 0]

(* Add one metric.  A full ring drops the metric it overwrites.            *)
Add ==
  LET full == size = Cap
      m    == metricsAdded + 1
  IN
  /\ metricsAdded < MaxMetrics
  /\ metricDropped(IF full THEN <<buf[last]>> ELSE <<>>)
  /\ IF full /\ batchSize > 0
     THEN /\ batchSize' = batchSize - 1
          /\ batchFirst' = next(batchFirst)
     ELSE UNCHANGED <<batchSize, batchFirst>>
  /\ metricsAdded' = m
  /\ buf' = [buf EXCEPT ![last] = m]
  /\ last' = next(last)
  /\ first' = IF full THEN next(first) ELSE first
  /\ size' = min(size + 1, Cap)
  /\ bufferSize' = length'
  /\ UNCHANGED <<batch, metricsWritten, accepts>>

(* Take up to MetricBatchSize of the oldest metrics out of the ring.  An   *)
(* empty ring gives an empty batch and changes nothing.                    *)
Batch ==
  LET outLen == min(size, MetricBatchSize) IN
  IF outLen = 0
  THEN /\ batch' = <<>>
       /\ UNCHANGED <<ring, stats, accepts, rejects>>
  ELSE /\ batch' = [i \in 1..outLen |-> buf[nextby(first, i - 1)]]
       /\ buf' = [s \in Slots |-> IF dist(first, s) < outLen
                                  THEN Nil ELSE buf[s]]
       /\ batchFirst' = first
       /\ batchSize' = outLen
       /\ first' = nextby(first, outLen)
       /\ size' = size - outLen
       /\ UNCHANGED <<last, stats, accepts, rejects>>

(* Mutant: Accept leaves the buffer_size gauge alone. *)
Accept_NoGauge ==
  /\ metricWritten(batch)
  /\ resetBatch
  /\ batch' = <<>>
  /\ UNCHANGED <<buf, size, first, last, metricsAdded, metricsDropped,
                 bufferSize, rejects>>

(* The batch was written. *)
Accept ==
  /\ metricWritten(batch)
  /\ resetBatch
  /\ UNCHANGED <<buf, size, first, last, metricsAdded, metricsDropped, rejects>>
  /\ bufferSize' = length'
  /\ batch' = <<>>

(* Mutant: Reject puts the batch behind what was added meanwhile. *)
Reject_AtEnd ==
  LET restore == min(Len(batch), Cap - size)
      skip    == Len(batch) - restore
  IN
  /\ batch # <<>>
  /\ last' = nextby(last, restore)
  /\ size' = size + restore
  /\ buf' = [s \in Slots |-> IF dist(last, s) < restore
                             THEN batch[skip + dist(last, s) + 1]
                             ELSE buf[s]]
  /\ metricDropped(SubSeq(batch, 1, skip))
  /\ resetBatch
  /\ bufferSize' = length'
  /\ batch' = <<>>
  /\ UNCHANGED <<first, metricsAdded, metricsWritten, accepts>>

(* The batch was not written: its newest metrics go back in front of the   *)
(* ring, as many as there is room for, and the others are dropped.         *)
Reject ==
  LET restore  == min(Len(batch), Cap - size)
      skip     == Len(batch) - restore
      newFirst == prevby(first, restore)
  IN
  /\ batch # <<>>
  /\ first' = newFirst
  /\ size' = min(size + restore, Cap)
  /\ buf' = [s \in Slots |-> IF dist(newFirst, s) < restore
                             THEN batch[skip + dist(newFirst, s) + 1]
                             ELSE buf[s]]
  /\ metricDropped(SubSeq(batch, 1, skip))
  /\ resetBatch
  /\ bufferSize' = length'
  /\ batch' = <<>>
  /\ UNCHANGED <<last, metricsAdded, metricsWritten, accepts>>

(* A writer has one batch out at a time and settles it before the next.    *)
Init == NewBuffer

Next ==
  \/ Add
  \/ batch = <<>> /\ Batch
  \/ batch # <<>> /\ Accept
  \/ Reject

Spec == Init /\ [][Next]_vars

-----------------------------------------------------------------------------
(* Types and ranges of the ring's fields, the counters and the metrics.    *)
TypeOK ==
  /\ buf \in [Slots -> 0..MaxMetrics]
  /\ size \in 0..Cap
  /\ first \in Slots
  /\ last \in Slots
  /\ batchFirst \in Slots
  /\ batchSize \in 0..Cap
  /\ batch \in Seq(Metrics)
  /\ Len(batch) <= min(MetricBatchSize, Cap)
  /\ metricsAdded \in 0..MaxMetrics
  /\ metricsWritten \in Nat
  /\ metricsDropped \in Nat
  /\ bufferSize \in 0..Cap
  /\ accepts \in [Metrics -> Nat]
  /\ rejects \in [Metrics -> Nat]

(* The ring always holds exactly the newest size metrics, oldest first     *)
(* from slot first, and nil everywhere else: however additions, batches    *)
(* and returned batches interleave, add never skips, doubles or reorders a *)
(* metric, Reject never overwrites one, and the slot a full add drops is   *)
(* never nil.                                                              *)
RingHoldsNewest ==
  /\ last = nextby(first, size)
  /\ \A s \in Slots :
       buf[s] = IF dist(first, s) < size
                THEN metricsAdded - size + 1 + dist(first, s)
                ELSE Nil

(* The batch is a run of consecutive metrics, oldest first, all older than *)
(* what the ring holds.  As long as the ring is not full they are the ones *)
(* immediately before it, so that Reject can put them back in place and    *)
(* batchSize still counts them.                                            *)
BatchPrecedesRing ==
  /\ \A i \in DOMAIN batch : batch[i] = batch[1] + i - 1
  /\ \A i \in DOMAIN batch : batch[i] <= metricsAdded - size
  /\ batchSize <= Len(batch)
  /\ size < Cap => /\ batchSize = Len(batch)
                   /\ batch # <<>> => batch[Len(batch)] = metricsAdded - size

(* Every metric that was added and is neither in the ring nor in the batch *)
(* got exactly one of Accept and Reject; one that is still held got none.  *)
SettledOnce ==
  \A m \in Metrics :
    accepts[m] + rejects[m] =
      IF /\ m <= metricsAdded - size
         /\ \A i \in DOMAIN batch : batch[i] # m
      THEN 1 ELSE 0

(* The selfstats add up: what came in was written, was dropped or is held. *)
StatsConserved ==
  metricsAdded = metricsWritten + metricsDropped + size + Len(batch)

(* The buffer_size gauge is never stale: Batch does not set it and need    *)
(* not, every other method sets it to what Len() returns.                  *)
GaugeCurrent == bufferSize = length

(* Metrics are accepted in the order they arrived, retries included: no    *)
(* call of Accept settles a metric older than one accepted before.         *)
AcceptedInOrder ==
  [][\A m, n \in Metrics :
       (accepts[m] > 0 /\ accepts'[n] > accepts[n]) => m < n]_vars
=============================================================================
