---------------------------- MODULE BufferProofs ----------------------------
(***************************************************************************)
(* Proofs about Buffer, for every buffer limit and batch size: the         *)
(* invariants of the ring of models/buffer.go, and that it implements the  *)
(* bounded queue of BufferQueue.                                           *)
(***************************************************************************)
EXTENDS MCBuffer, FiniteSetTheorems, SequenceTheorems, TLAPS

(* The inductive invariant.  No conjunct is inductive alone: that Reject   *)
(* restores the ring needs the batch to lie right before it, that needs    *)
(* the ring to hold the newest metrics when Batch takes them, and that a   *)
(* settled metric is not settled again needs both.                         *)
IInv ==
  /\ TypeOK
  /\ RingHoldsNewest
  /\ BatchPrecedesRing
  /\ SettledOnce
  /\ StatsConserved
  /\ GaugeCurrent

-----------------------------------------------------------------------------
(* nextby wraps once at most. *)
LEMMA NextBy ==
  ASSUME NEW i \in Slots, NEW k \in 0..Cap
  PROVE  nextby(i, k) = IF i + k < Cap THEN i + k ELSE i + k - Cap
  BY BufferAssumption DEF nextby, Slots

(* prevby wraps once at most. *)
LEMMA PrevBy ==
  ASSUME NEW i \in Slots, NEW k \in 0..Cap
  PROVE  prevby(i, k) = IF i - k < 0 THEN i - k + Cap ELSE i - k
  BY BufferAssumption DEF prevby, Slots

(* Len() never exceeds the buffer limit. *)
LEMMA LengthRange ==
  ASSUME NEW a \in 0..Cap, NEW b \in 0..Cap
  PROVE  min(a + b, Cap) \in 0..Cap
<1>1. CASE Cap < a + b
  BY <1>1, BufferAssumption DEF min
<1>2. CASE ~(Cap < a + b)
  BY <1>2, BufferAssumption DEF min
<1> QED BY <1>1, <1>2

(* A run of consecutive metrics holds each of its metrics once. *)
LEMMA OccursOnce ==
  ASSUME NEW s \in Seq(Metrics), NEW m \in Metrics,
         \A i \in DOMAIN s : s[i] = s[1] + i - 1
  PROVE  Occurrences(m, s) = IF \E i \in DOMAIN s : s[i] = m THEN 1 ELSE 0
<1>1. CASE \E i \in DOMAIN s : s[i] = m
  <2>1. PICK i \in DOMAIN s : s[i] = m
    BY <1>1
  <2>2. \A j \in DOMAIN s : s[j] = m => j = i
    <3>1. DOMAIN s = 1..Len(s) /\ Len(s) \in Nat
      OBVIOUS
    <3>2. 1 \in DOMAIN s
      BY <2>1, <3>1
    <3>3. s[1] \in Int
      BY <3>1, <3>2, BufferAssumption DEF Metrics
    <3> QED
      BY <2>1, <3>1, <3>3
  <2>3. {j \in DOMAIN s : s[j] = m} = {i}
    BY <2>1, <2>2
  <2> QED
    BY <1>1, <2>3, FS_Singleton, Zenon DEF Occurrences
<1>2. CASE ~ \E i \in DOMAIN s : s[i] = m
  <2>1. {j \in DOMAIN s : s[j] = m} = {}
    BY <1>2
  <2> QED
    BY <1>2, <2>1, FS_EmptySet, Zenon DEF Occurrences
<1> QED
  BY <1>1, <1>2

(* No metric occurs in the empty sequence. *)
LEMMA OccursNever ==
  ASSUME NEW m PROVE Occurrences(m, <<>>) = 0
  BY FS_EmptySet DEF Occurrences

(* The metric of a one-element sequence occurs once. *)
LEMMA OccursAlone ==
  ASSUME NEW m, NEW x PROVE Occurrences(m, <<x>>) = IF m = x THEN 1 ELSE 0
<1>1. CASE m = x
  <2>1. {i \in DOMAIN <<x>> : <<x>>[i] = m} = {1}
    BY <1>1
  <2> QED BY <1>1, <2>1, FS_Singleton, Zenon DEF Occurrences
<1>2. CASE m # x
  <2>1. {i \in DOMAIN <<x>> : <<x>>[i] = m} = {}
    BY <1>2
  <2> QED BY <1>2, <2>1, FS_EmptySet DEF Occurrences
<1> QED BY <1>1, <1>2

(* The slot at distance k from f is nextby(f, k), and no other. *)
LEMMA DistNextBy ==
  ASSUME NEW f \in Slots
  PROVE  /\ \A k \in 0..(Cap - 1) : /\ nextby(f, k) \in Slots
                                    /\ dist(f, nextby(f, k)) = k
         /\ \A s \in Slots : /\ dist(f, s) \in 0..(Cap - 1)
                             /\ nextby(f, dist(f, s)) = s
<1>1. \A k \in 0..Cap :
        nextby(f, k) = IF f + k < Cap THEN f + k ELSE f + k - Cap
  BY NextBy
<1> QED
  BY <1>1, BufferAssumption DEF dist, Slots

(* A new buffer satisfies the invariant. *)
LEMMA InitIInv == Init => IInv
<1> SUFFICES ASSUME Init PROVE IInv
  OBVIOUS
<1> USE BufferAssumption DEF Init, NewBuffer
<1>1. TypeOK
  BY DEF TypeOK, Slots, Metrics, Nil, min
<1>2. RingHoldsNewest
  <2>1. nextby(0, 0) = 0
    BY NextBy DEF Slots
  <2> QED BY <2>1 DEF RingHoldsNewest, dist, Slots
<1>3. BatchPrecedesRing
  BY DEF BatchPrecedesRing
<1>4. SettledOnce
  BY DEF SettledOnce, Metrics
<1>5. StatsConserved
  BY DEF StatsConserved
<1>6. GaugeCurrent
  BY DEF GaugeCurrent, length, min
<1> QED BY <1>1, <1>2, <1>3, <1>4, <1>5, <1>6 DEF IInv

(* The integers of the state, without the functions and sequences. *)
LEMMA Integers_ ==
  ASSUME TypeOK
  PROVE  /\ size \in Int /\ 0 <= size /\ size <= Cap
         /\ first \in Int /\ 0 <= first /\ first < Cap
         /\ last \in Int /\ 0 <= last /\ last < Cap
         /\ batchSize \in Int /\ 0 <= batchSize /\ batchSize <= Cap
         /\ metricsAdded \in Nat /\ metricsAdded <= MaxMetrics
         /\ metricsWritten \in Nat /\ metricsDropped \in Nat
         /\ Len(batch) \in Nat
         /\ Len(batch) <= Cap /\ Len(batch) <= MetricBatchSize
         /\ DOMAIN batch = 1..Len(batch)
         /\ \A i \in 1..Len(batch) : batch[i] \in Nat \ {0}
<1> USE BufferAssumption
<1>1. /\ size \in Int /\ 0 <= size /\ size <= Cap
      /\ batchSize \in Int /\ 0 <= batchSize /\ batchSize <= Cap
      /\ metricsAdded \in Nat /\ metricsAdded <= MaxMetrics
      /\ metricsWritten \in Nat /\ metricsDropped \in Nat
  BY DEF TypeOK
<1>2. /\ first \in Int /\ 0 <= first /\ first < Cap
      /\ last \in Int /\ 0 <= last /\ last < Cap
  BY DEF TypeOK, Slots
<1>3. batch \in Seq(Metrics) /\ Len(batch) <= min(MetricBatchSize, Cap)
  BY DEF TypeOK
<1>4. /\ Len(batch) \in Nat
      /\ Len(batch) <= Cap /\ Len(batch) <= MetricBatchSize
  BY <1>3 DEF min
<1>5. /\ DOMAIN batch = 1..Len(batch)
      /\ \A i \in 1..Len(batch) : batch[i] \in Metrics
  BY <1>3
<1>6. \A m \in Metrics : m \in Nat \ {0}
  BY DEF Metrics
<1> QED BY <1>1, <1>2, <1>4, <1>5, <1>6

(* Add preserves the invariant while there is room in the ring. *)
LEMMA AddRoomIInv == ASSUME IInv, Add, size # Cap PROVE IInv'
<1> USE BufferAssumption
<1>t. TypeOK
  BY DEF IInv
<1>i. /\ size \in Int /\ 0 <= size /\ size <= Cap
      /\ first \in Int /\ 0 <= first /\ first < Cap
      /\ metricsAdded \in Nat /\ metricsAdded <= MaxMetrics
      /\ DOMAIN batch = 1..Len(batch) /\ Len(batch) \in Nat
      /\ \A i \in 1..Len(batch) : batch[i] \in Nat \ {0}
  BY <1>t, Integers_
<1>1. /\ metricsAdded' = metricsAdded + 1 /\ metricsAdded < MaxMetrics
      /\ size' = size + 1
      /\ first' = first /\ last' = next(last)
      /\ batchSize' = batchSize /\ batchFirst' = batchFirst
      /\ batch' = batch
      /\ accepts' = accepts
      /\ metricsWritten' = metricsWritten
  BY <1>i DEF Add, min
<1>2. bufferSize' = length'
  BY DEF Add
<1>3. buf' = [buf EXCEPT ![last] = metricsAdded + 1]
  BY DEF Add
<1>4. metricsDropped' = metricsDropped /\ rejects' = rejects
  <2>1. /\ metricsDropped' = metricsDropped + 0
        /\ rejects' = [m \in Metrics |-> rejects[m] + Occurrences(m, <<>>)]
    BY DEF Add, metricDropped
  <2>2. \A m \in Metrics : rejects[m] + Occurrences(m, <<>>) = rejects[m]
    BY <1>t, OccursNever DEF TypeOK
  <2> QED BY <1>t, <2>1, <2>2 DEF TypeOK
<1>5. /\ last = nextby(first, size)
      /\ last = IF first + size < Cap THEN first + size ELSE first + size - Cap
  <2>1. last = nextby(first, size)
    BY DEF IInv, RingHoldsNewest
  <2> QED BY <1>t, <2>1, NextBy DEF TypeOK
<1>6. nextby(first', size') =
        IF first + size + 1 < Cap THEN first + size + 1 ELSE first + size + 1 - Cap
  <2>1. size + 1 \in 0..Cap /\ first \in Slots
    BY <1>t, <1>i DEF TypeOK
  <2>2. nextby(first, size + 1) =
          IF first + (size + 1) < Cap THEN first + (size + 1) ELSE first + (size + 1) - Cap
    BY <2>1, NextBy
  <2> QED BY <1>1, <1>i, <2>2
<1>7. TypeOK'
  <2>1. buf' \in [Slots -> 0..MaxMetrics]
    BY <1>t, <1>1, <1>3 DEF TypeOK
  <2>2. last' \in Slots
    BY <1>t, <1>1 DEF TypeOK, Slots, next
  <2>3. size' \in 0..Cap
    BY <1>1, <1>i
  <2>4. bufferSize' \in 0..Cap
    <3>1. batchSize' \in 0..Cap
      BY <1>t, <1>1 DEF TypeOK
    <3>2. bufferSize' = min(size' + batchSize', Cap)
      BY <1>2 DEF length
    <3> QED BY <2>3, <3>1, <3>2, LengthRange
  <2> QED
    BY <1>t, <1>1, <1>4, <2>1, <2>2, <2>3, <2>4 DEF TypeOK
<1>8. RingHoldsNewest'
  <2>1. last' = nextby(first', size')
    BY <1>i, <1>1, <1>5, <1>6 DEF next
  <2>2. ASSUME NEW s \in Slots
        PROVE  buf'[s] = IF dist(first', s) < size'
                         THEN metricsAdded' - size' + 1 + dist(first', s)
                         ELSE Nil
    <3>1. buf[s] = IF dist(first, s) < size
                   THEN metricsAdded - size + 1 + dist(first, s)
                   ELSE Nil
      BY DEF IInv, RingHoldsNewest
    <3>2. buf'[s] = IF s = last THEN metricsAdded + 1 ELSE buf[s]
      BY <1>t, <1>3 DEF TypeOK
    <3>3. CASE s = last
      <4>1. dist(first, s) = size
        BY <1>i, <1>5, <3>3 DEF dist
      <4> QED BY <1>i, <1>1, <3>2, <3>3, <4>1 DEF Nil
    <3>4. CASE s # last
      <4>1. dist(first, s) # size /\ dist(first, s) \in Int
        BY <1>i, <1>5, <3>4 DEF dist, Slots
      <4> QED BY <1>i, <1>1, <3>1, <3>2, <3>4, <4>1
    <3> QED BY <3>3, <3>4
  <2> QED BY <2>1, <2>2 DEF RingHoldsNewest, nextby, dist
<1>9. BatchPrecedesRing'
  BY <1>i, <1>1 DEF IInv, BatchPrecedesRing
<1>10. SettledOnce'
  BY <1>i, <1>1, <1>4 DEF IInv, SettledOnce
<1>11. StatsConserved'
  <2>1. metricsWritten \in Nat /\ metricsDropped \in Nat
    BY <1>t, Integers_
  <2>2. metricsAdded = metricsWritten + metricsDropped + size + Len(batch)
    BY DEF IInv, StatsConserved
  <2> QED BY <1>i, <1>1, <1>4, <2>1, <2>2 DEF StatsConserved
<1>12. GaugeCurrent'
  BY <1>2 DEF GaugeCurrent
<1> QED BY <1>7, <1>8, <1>9, <1>10, <1>11, <1>12 DEF IInv

(* Add preserves the invariant when the ring is full: it gives up its      *)
(* oldest metric, which lies in slot last = first.                         *)
LEMMA AddFullIInv == ASSUME IInv, Add, size = Cap PROVE IInv'
<1> USE BufferAssumption
<1>t. TypeOK
  BY DEF IInv
<1>i. /\ first \in Int /\ 0 <= first /\ first < Cap
      /\ metricsAdded \in Nat /\ metricsAdded <= MaxMetrics
      /\ metricsWritten \in Nat /\ metricsDropped \in Nat
      /\ batchSize \in Int /\ 0 <= batchSize /\ batchSize <= Cap
      /\ DOMAIN batch = 1..Len(batch) /\ Len(batch) \in Nat
      /\ \A i \in 1..Len(batch) : batch[i] \in Nat \ {0}
  BY <1>t, Integers_
<1>1. /\ metricsAdded' = metricsAdded + 1 /\ metricsAdded < MaxMetrics
      /\ size' = Cap
      /\ first' = next(first) /\ last' = next(last)
      /\ batch' = batch
      /\ accepts' = accepts
      /\ metricsWritten' = metricsWritten
  BY DEF Add, min
<1>2. bufferSize' = length'
  BY DEF Add
<1>3. buf' = [buf EXCEPT ![last] = metricsAdded + 1]
  BY DEF Add
<1>4. /\ last = first
      /\ buf[last] = metricsAdded - Cap + 1
  <2>1. last = nextby(first, Cap)
    BY DEF IInv, RingHoldsNewest
  <2>2. last = first
    BY <1>t, <1>i, <2>1, NextBy DEF TypeOK
  <2>3. dist(first, last) = 0
    BY <1>i, <2>2 DEF dist
  <2> QED BY <1>t, <1>i, <2>2, <2>3 DEF IInv, RingHoldsNewest, TypeOK
<1>5. /\ metricsDropped' = metricsDropped + 1
      /\ \A m \in Metrics :
           rejects'[m] = rejects[m] + IF m = metricsAdded - Cap + 1 THEN 1 ELSE 0
      /\ rejects' \in [Metrics -> Nat]
  <2>1. /\ metricsDropped' = metricsDropped + Len(<<buf[last]>>)
        /\ rejects' = [m \in Metrics |-> rejects[m] + Occurrences(m, <<buf[last]>>)]
    BY DEF Add, metricDropped
  <2>2. \A m \in Metrics : /\ rejects[m] \in Nat
                           /\ Occurrences(m, <<buf[last]>>) =
                                IF m = metricsAdded - Cap + 1 THEN 1 ELSE 0
    BY <1>t, <1>4, OccursAlone DEF TypeOK
  <2>3. \A m \in Metrics : rejects[m] + Occurrences(m, <<buf[last]>>) \in Nat
    BY <2>2
  <2> QED BY <2>1, <2>2, <2>3
<1>6. batchSize' \in 0..Cap /\ batchSize' <= batchSize /\ batchFirst' \in Slots
  <2>1. CASE batchSize > 0
    <3>1. batchSize' = batchSize - 1 /\ batchFirst' = next(batchFirst)
      BY <2>1 DEF Add
    <3> QED BY <1>t, <1>i, <2>1, <3>1 DEF TypeOK, Slots, next
  <2>2. CASE ~(batchSize > 0)
    <3>1. batchSize' = batchSize /\ batchFirst' = batchFirst
      BY <2>2 DEF Add
    <3> QED BY <1>t, <1>i, <3>1 DEF TypeOK
  <2> QED BY <2>1, <2>2
<1>7. TypeOK'
  <2>1. buf' \in [Slots -> 0..MaxMetrics]
    BY <1>t, <1>1, <1>3 DEF TypeOK
  <2>2. last' \in Slots /\ first' \in Slots
    BY <1>t, <1>1 DEF TypeOK, Slots, next
  <2>3. bufferSize' \in 0..Cap
    <3>1. bufferSize' = min(size' + batchSize', Cap) /\ size' \in 0..Cap
      BY <1>1, <1>2 DEF length
    <3> QED BY <1>6, <3>1, LengthRange
  <2>4. metricsDropped' \in Nat /\ metricsAdded' \in 0..MaxMetrics /\ size' \in 0..Cap
    BY <1>i, <1>1, <1>5
  <2> QED
    BY <1>t, <1>1, <1>5, <1>6, <2>1, <2>2, <2>3, <2>4, Zenon DEF TypeOK
<1>8. RingHoldsNewest'
  <2>1. last' = nextby(first', size')
    <3>1. next(first) \in Slots
      BY <1>i DEF next, Slots
    <3>2. nextby(next(first), Cap) = next(first)
      BY <1>i, <3>1, NextBy DEF next, Slots
    <3> QED BY <1>1, <1>4, <3>2
  <2>2. ASSUME NEW s \in Slots
        PROVE  buf'[s] = IF dist(first', s) < size'
                         THEN metricsAdded' - size' + 1 + dist(first', s)
                         ELSE Nil
    <3>1. buf[s] = IF dist(first, s) < Cap
                   THEN metricsAdded - Cap + 1 + dist(first, s)
                   ELSE Nil
      BY DEF IInv, RingHoldsNewest
    <3>2. buf'[s] = IF s = first THEN metricsAdded + 1 ELSE buf[s]
      BY <1>t, <1>3, <1>4 DEF TypeOK
    <3>3. dist(next(first), s) < Cap /\ dist(first, s) < Cap
      BY <1>i DEF dist, next, Slots
    <3>4. dist(next(first), s) = IF s = first THEN Cap - 1 ELSE dist(first, s) - 1
      BY <1>i DEF dist, next, Slots
    <3>5. dist(first, s) \in Int
      BY <1>i DEF dist, Slots
    <3>6. CASE s = first
      BY <1>i, <1>1, <3>2, <3>3, <3>4, <3>6 DEF Nil
    <3>7. CASE s # first
      BY <1>i, <1>1, <3>1, <3>2, <3>3, <3>4, <3>5, <3>7 DEF Nil
    <3> QED BY <3>6, <3>7
  <2> QED BY <2>1, <2>2 DEF RingHoldsNewest, nextby, dist
<1>9. BatchPrecedesRing'
  <2>1. batchSize <= Len(batch)
    BY DEF IInv, BatchPrecedesRing
  <2>2. batchSize' <= Len(batch')
    BY <1>i, <1>1, <1>6, <2>1
  <2>3. \A i \in DOMAIN batch : /\ batch[i] = batch[1] + i - 1
                                /\ batch[i] <= metricsAdded - Cap
    BY DEF IInv, BatchPrecedesRing
  <2>4. \A i \in DOMAIN batch : batch[i] <= metricsAdded' - size'
    BY <1>i, <1>1, <2>3
  <2>5. ~(size' < Cap)
    BY <1>1
  <2> QED BY <1>1, <2>2, <2>3, <2>4, <2>5 DEF BatchPrecedesRing
<1>10. SettledOnce'
  <2> SUFFICES ASSUME NEW m \in Metrics
               PROVE  accepts[m] + rejects'[m] =
                        IF /\ m <= metricsAdded + 1 - Cap
                           /\ \A i \in DOMAIN batch : batch[i] # m
                        THEN 1 ELSE 0
    <3>1. metricsAdded' - size' = metricsAdded + 1 - Cap
      BY <1>i, <1>1
    <3> QED BY <1>1, <3>1 DEF SettledOnce
  <2>1. accepts[m] + rejects[m] =
          IF /\ m <= metricsAdded - Cap
             /\ \A i \in DOMAIN batch : batch[i] # m
          THEN 1 ELSE 0
    BY DEF IInv, SettledOnce
  <2>2. \A i \in DOMAIN batch : batch[i] <= metricsAdded - Cap
    BY DEF IInv, BatchPrecedesRing
  <2>3. accepts[m] \in Nat /\ rejects[m] \in Nat /\ m \in Nat
    BY <1>t DEF TypeOK, Metrics
  <2>4. CASE m = metricsAdded - Cap + 1
    <3>1. \A i \in DOMAIN batch : batch[i] # m
      BY <1>i, <2>2, <2>4
    <3>2. accepts[m] + rejects[m] = 0
      BY <1>i, <2>1, <2>3, <2>4
    <3>3. rejects'[m] = rejects[m] + 1
      BY <1>5, <2>4
    <3> QED BY <1>i, <2>3, <2>4, <3>1, <3>2, <3>3
  <2>5. CASE m # metricsAdded - Cap + 1
    <3>1. rejects'[m] = rejects[m]
      BY <1>5, <2>3, <2>5
    <3>2. m <= metricsAdded + 1 - Cap <=> m <= metricsAdded - Cap
      BY <1>i, <2>3, <2>5
    <3> QED BY <2>1, <3>1, <3>2
  <2> QED BY <2>4, <2>5
<1>11. StatsConserved'
  <2>1. metricsAdded = metricsWritten + metricsDropped + Cap + Len(batch)
    BY DEF IInv, StatsConserved
  <2> QED BY <1>i, <1>1, <1>5, <2>1 DEF StatsConserved
<1>12. GaugeCurrent'
  BY <1>2 DEF GaugeCurrent
<1> QED BY <1>7, <1>8, <1>9, <1>10, <1>11, <1>12 DEF IInv

(* Batch preserves the invariant: what leaves the ring is its oldest part, *)
(* and the rest still is the newest metrics.                               *)
LEMMA BatchIInv == ASSUME IInv, batch = <<>>, Batch PROVE IInv'
<1> USE BufferAssumption
<1> DEFINE outLen == min(size, MetricBatchSize)
<1>t. TypeOK
  BY DEF IInv
<1>i. /\ first \in Int /\ 0 <= first /\ first < Cap
      /\ size \in Int /\ 0 <= size /\ size <= Cap
      /\ metricsAdded \in Nat /\ metricsAdded <= MaxMetrics
      /\ metricsWritten \in Nat /\ metricsDropped \in Nat
  BY <1>t, Integers_
<1>o. /\ outLen \in Int /\ 0 <= outLen /\ outLen <= size
      /\ outLen <= MetricBatchSize
  BY <1>i DEF min
<1>1. CASE outLen = 0
  <2>1. UNCHANGED vars
    BY <1>1 DEF Batch, vars, ring, stats
  <2> QED BY <2>1 DEF IInv, TypeOK, RingHoldsNewest, BatchPrecedesRing,
       SettledOnce, StatsConserved, GaugeCurrent, vars, ring, stats, length
<1>2. CASE outLen # 0
  <2>1. /\ batch' = [i \in 1..outLen |-> buf[nextby(first, i - 1)]]
        /\ buf' = [s \in Slots |-> IF dist(first, s) < outLen THEN Nil ELSE buf[s]]
        /\ batchFirst' = first
        /\ batchSize' = outLen
        /\ first' = nextby(first, outLen)
        /\ size' = size - outLen
        /\ last' = last
        /\ metricsAdded' = metricsAdded /\ metricsWritten' = metricsWritten
        /\ metricsDropped' = metricsDropped /\ bufferSize' = bufferSize
        /\ accepts' = accepts /\ rejects' = rejects
    BY <1>2 DEF Batch, stats
  <2> HIDE DEF outLen
  <2>2. first' = IF first + outLen < Cap THEN first + outLen ELSE first + outLen - Cap
    <3>1. first \in Slots /\ outLen \in 0..Cap
      BY <1>t, <1>i, <1>o DEF TypeOK
    <3> QED BY <2>1, <3>1, NextBy
  <2>3. \A s \in Slots : buf[s] = IF dist(first, s) < size
                                  THEN metricsAdded - size + 1 + dist(first, s)
                                  ELSE Nil
    BY DEF IInv, RingHoldsNewest
  <2>4. /\ \A i \in 1..outLen : batch'[i] = metricsAdded - size + i
        /\ DOMAIN batch' = 1..outLen
    <3>1. first \in Slots
      BY <1>t DEF TypeOK
    <3> SUFFICES ASSUME NEW i \in 1..outLen
                 PROVE  batch'[i] = metricsAdded - size + i
      BY <2>1
    <3>2. batch'[i] = buf[nextby(first, i - 1)]
      BY <2>1
    <3>3. i - 1 \in 0..(Cap - 1) /\ i - 1 < size
      BY <1>i, <1>o
    <3>4. nextby(first, i - 1) \in Slots /\ dist(first, nextby(first, i - 1)) = i - 1
      BY <3>1, <3>3, DistNextBy
    <3>5. buf[nextby(first, i - 1)] = metricsAdded - size + 1 + (i - 1)
      BY <2>3, <3>3, <3>4
    <3> QED BY <1>i, <3>2, <3>5
  <2>5. metricsAdded >= size
    <3>1. metricsAdded = metricsWritten + metricsDropped + size + Len(<<>>)
      BY DEF IInv, StatsConserved
    <3> QED BY <1>i, <3>1
  <2>6. /\ batch' \in Seq(Metrics) /\ Len(batch') = outLen
        /\ batch' # <<>>
    <3>1. \A i \in 1..outLen : batch'[i] \in Metrics
      BY <1>i, <1>o, <2>4, <2>5 DEF Metrics
    <3>2. batch' = [i \in 1..outLen |-> batch'[i]]
      BY <2>1
    <3>3. batch' \in Seq(Metrics)
      BY <1>o, <3>1, <3>2
    <3>4. Len(batch') = outLen
      BY <1>o, <2>4, <3>3
    <3> QED BY <1>2, <3>3, <3>4
  <2>7. TypeOK'
    <3>1. buf' \in [Slots -> 0..MaxMetrics]
      BY <1>t, <2>1 DEF TypeOK, Nil
    <3>2. first' \in Slots
      BY <1>i, <1>o, <2>2 DEF Slots
    <3>3. size' \in 0..Cap /\ batchSize' \in 0..Cap
      BY <1>i, <1>o, <2>1
    <3>4. Len(batch') <= min(MetricBatchSize, Cap)
      BY <1>i, <1>o, <2>6 DEF min
    <3> QED BY <1>t, <2>1, <2>6, <3>1, <3>2, <3>3, <3>4 DEF TypeOK
  <2>8. RingHoldsNewest'
    <3>1. last' = nextby(first', size')
      <4>1. last = nextby(first, size) /\ first \in Slots /\ size \in 0..Cap
        BY <1>t DEF IInv, RingHoldsNewest, TypeOK
      <4>2. last = IF first + size < Cap THEN first + size ELSE first + size - Cap
        BY <4>1, NextBy
      <4>3. first' \in Slots /\ size' \in 0..Cap
        BY <2>7 DEF TypeOK
      <4>4. nextby(first', size') =
              IF first' + size' < Cap THEN first' + size' ELSE first' + size' - Cap
        BY <4>3, NextBy
      <4> QED BY <1>2, <1>i, <1>o, <2>1, <2>2, <4>2, <4>4
    <3>2. ASSUME NEW s \in Slots
          PROVE  buf'[s] = IF dist(first', s) < size'
                           THEN metricsAdded' - size' + 1 + dist(first', s)
                           ELSE Nil
      <4>1. buf'[s] = IF dist(first, s) < outLen THEN Nil ELSE buf[s]
        BY <2>1
      <4>2. dist(first, s) \in 0..(Cap - 1)
        BY <1>i DEF dist, Slots
      <4>3. dist(first', s) = IF dist(first, s) < outLen
                              THEN dist(first, s) - outLen + Cap
                              ELSE dist(first, s) - outLen
        BY <1>i, <1>o, <2>2 DEF dist, Slots
      <4>4. CASE dist(first, s) < outLen
        BY <1>i, <1>o, <2>1, <4>1, <4>2, <4>3, <4>4
      <4>5. CASE ~(dist(first, s) < outLen)
        BY <1>i, <1>o, <2>1, <2>3, <4>1, <4>2, <4>3, <4>5 DEF Nil
      <4> QED BY <4>4, <4>5
    <3> QED BY <3>1, <3>2 DEF RingHoldsNewest, nextby, dist
  <2>9. BatchPrecedesRing'
    <3>1. \A i \in 1..outLen : batch'[i] = batch'[1] + i - 1
      BY <1>i, <1>2, <1>o, <2>4
    <3>2. \A i \in 1..outLen : batch'[i] <= metricsAdded' - size'
      BY <1>i, <1>o, <2>1, <2>4
    <3>3. batchSize' = Len(batch') /\ batchSize' <= Len(batch')
      BY <1>o, <2>1, <2>6
    <3>4. batch'[Len(batch')] = metricsAdded' - size'
      BY <1>i, <1>2, <1>o, <2>1, <2>4, <2>6
    <3> QED BY <2>4, <3>1, <3>2, <3>3, <3>4 DEF BatchPrecedesRing
  <2>10. SettledOnce'
    <3> SUFFICES ASSUME NEW m \in Metrics
                 PROVE  accepts[m] + rejects[m] =
                          IF /\ m <= metricsAdded' - size'
                             /\ \A i \in DOMAIN batch' : batch'[i] # m
                          THEN 1 ELSE 0
      BY <2>1 DEF SettledOnce
    <3>1. accepts[m] + rejects[m] = IF m <= metricsAdded - size THEN 1 ELSE 0
      BY DEF IInv, SettledOnce
    <3>2. m \in Int /\ m >= 1
      BY DEF Metrics
    <3>3. (/\ m <= metricsAdded' - size'
           /\ \A i \in DOMAIN batch' : batch'[i] # m) <=> m <= metricsAdded - size
      <4>1. CASE m <= metricsAdded - size
        BY <1>i, <1>o, <2>1, <2>4, <3>2, <4>1
      <4>2. CASE /\ ~(m <= metricsAdded - size)
                 /\ m <= metricsAdded' - size'
        <5>1. m - (metricsAdded - size) \in 1..outLen
          BY <1>i, <1>o, <2>1, <3>2, <4>2
        <5>2. batch'[m - (metricsAdded - size)] = m
          BY <1>i, <2>4, <3>2, <5>1
        <5> QED BY <2>4, <4>2, <5>1, <5>2
      <4>3. CASE /\ ~(m <= metricsAdded - size)
                 /\ ~(m <= metricsAdded' - size')
        BY <4>3
      <4> QED BY <4>1, <4>2, <4>3
    <3> QED BY <3>1, <3>3
  <2>11. StatsConserved'
    <3>1. metricsAdded = metricsWritten + metricsDropped + size + Len(<<>>)
      BY DEF IInv, StatsConserved
    <3> QED BY <1>i, <1>o, <2>1, <2>6, <3>1 DEF StatsConserved
  <2>12. GaugeCurrent'
    <3>1. batchSize = 0
      <4>1. batchSize <= 0 /\ batchSize \in 0..Cap
        BY <1>t DEF IInv, BatchPrecedesRing, TypeOK
      <4> QED BY <4>1
    <3>2. size' + batchSize' = size + batchSize
      BY <1>i, <1>o, <2>1, <3>1
    <3> QED BY <2>1, <3>2 DEF IInv, GaugeCurrent, length
  <2> QED BY <2>7, <2>8, <2>9, <2>10, <2>11, <2>12 DEF IInv
<1> QED BY <1>1, <1>2

(* Accept preserves the invariant: the metrics of the batch were not       *)
(* settled before and are now, once each.                                  *)
LEMMA AcceptIInv == ASSUME IInv, batch # <<>>, Accept PROVE IInv'
<1> USE BufferAssumption
<1>t. TypeOK
  BY DEF IInv
<1>i. /\ size \in Int /\ 0 <= size /\ size <= Cap
      /\ metricsAdded \in Nat /\ metricsAdded <= MaxMetrics
      /\ metricsWritten \in Nat /\ metricsDropped \in Nat
      /\ Len(batch) \in Nat /\ DOMAIN batch = 1..Len(batch)
  BY <1>t, Integers_
<1>1. /\ metricsWritten' = metricsWritten + Len(batch)
      /\ accepts' = [m \in Metrics |-> accepts[m] + Occurrences(m, batch)]
      /\ batchFirst' = 0 /\ batchSize' = 0
      /\ batch' = <<>>
      /\ buf' = buf /\ size' = size /\ first' = first /\ last' = last
      /\ metricsAdded' = metricsAdded /\ metricsDropped' = metricsDropped
      /\ rejects' = rejects
  BY DEF Accept, metricWritten, resetBatch
<1>2. bufferSize' = length'
  BY DEF Accept
<1>3. \A m \in Metrics :
        Occurrences(m, batch) = IF \E i \in DOMAIN batch : batch[i] = m THEN 1 ELSE 0
  <2>1. batch \in Seq(Metrics) /\ \A i \in DOMAIN batch : batch[i] = batch[1] + i - 1
    BY <1>t DEF IInv, BatchPrecedesRing, TypeOK
  <2> QED BY <2>1, OccursOnce
<1>4. TypeOK'
  <2>1. accepts' \in [Metrics -> Nat]
    <3>1. \A m \in Metrics : accepts[m] \in Nat /\ Occurrences(m, batch) \in Nat
      BY <1>t, <1>3 DEF TypeOK
    <3> QED BY <1>1, <3>1
  <2>2. bufferSize' \in 0..Cap
    <3>1. bufferSize' = min(size' + batchSize', Cap)
      BY <1>2 DEF length
    <3>2. size' \in 0..Cap /\ batchSize' \in 0..Cap
      BY <1>i, <1>1
    <3> QED BY <3>1, <3>2, LengthRange
  <2>3. batch' \in Seq(Metrics) /\ Len(batch') <= min(MetricBatchSize, Cap)
    BY <1>1 DEF min
  <2>4. batchFirst' \in Slots /\ batchSize' \in 0..Cap /\ metricsWritten' \in Nat
    BY <1>i, <1>1 DEF Slots
  <2> QED BY <1>t, <1>1, <2>1, <2>2, <2>3, <2>4, Zenon DEF TypeOK
<1>5. RingHoldsNewest'
  BY <1>1 DEF IInv, RingHoldsNewest, nextby, dist
<1>6. BatchPrecedesRing'
  BY <1>1 DEF BatchPrecedesRing
<1>7. SettledOnce'
  <2> SUFFICES ASSUME NEW m \in Metrics
               PROVE  accepts'[m] + rejects[m] =
                        IF m <= metricsAdded - size THEN 1 ELSE 0
    BY <1>1 DEF SettledOnce
  <2>1. accepts[m] + rejects[m] =
          IF /\ m <= metricsAdded - size
             /\ \A i \in DOMAIN batch : batch[i] # m
          THEN 1 ELSE 0
    BY DEF IInv, SettledOnce
  <2>2. \A i \in DOMAIN batch : batch[i] <= metricsAdded - size
    BY DEF IInv, BatchPrecedesRing
  <2>3. accepts[m] \in Nat /\ rejects[m] \in Nat
    BY <1>t DEF TypeOK
  <2>4. CASE \E i \in DOMAIN batch : batch[i] = m
    <3>1. accepts'[m] = accepts[m] + 1
      BY <1>1, <1>3, <2>4
    <3>2. m <= metricsAdded - size
      BY <2>2, <2>4
    <3>3. accepts[m] + rejects[m] = 0
      BY <2>1, <2>4
    <3> QED BY <2>3, <3>1, <3>2, <3>3
  <2>5. CASE ~ \E i \in DOMAIN batch : batch[i] = m
    <3>1. accepts'[m] = accepts[m]
      BY <1>1, <1>3, <2>3, <2>5
    <3> QED BY <2>1, <2>5, <3>1
  <2> QED BY <2>4, <2>5
<1>8. StatsConserved'
  <2>1. metricsAdded = metricsWritten + metricsDropped + size + Len(batch)
    BY DEF IInv, StatsConserved
  <2> QED BY <1>i, <1>1, <2>1 DEF StatsConserved
<1>9. GaugeCurrent'
  BY <1>2 DEF GaugeCurrent
<1> QED BY <1>4, <1>5, <1>6, <1>7, <1>8, <1>9 DEF IInv

(* Reject preserves the invariant: if there is room the batch lies right   *)
(* before the ring, so its newest part continues the ring downwards.       *)
LEMMA RejectIInv == ASSUME IInv, Reject PROVE IInv'
<1> USE BufferAssumption
<1> DEFINE restore  == min(Len(batch), Cap - size)
           skip     == Len(batch) - restore
           newFirst == prevby(first, restore)
           out      == SubSeq(batch, 1, skip)
<1>t. TypeOK
  BY DEF IInv
<1>i. /\ first \in Int /\ 0 <= first /\ first < Cap
      /\ size \in Int /\ 0 <= size /\ size <= Cap
      /\ metricsAdded \in Nat /\ metricsAdded <= MaxMetrics
      /\ metricsWritten \in Nat /\ metricsDropped \in Nat
      /\ Len(batch) \in Nat /\ DOMAIN batch = 1..Len(batch)
      /\ \A i \in 1..Len(batch) : batch[i] \in Nat \ {0}
  BY <1>t, Integers_
<1>j. /\ first \in Int /\ 0 <= first /\ first < Cap
      /\ size \in Int /\ 0 <= size /\ size <= Cap
      /\ metricsAdded \in Int /\ metricsWritten \in Int /\ metricsDropped \in Int
      /\ Len(batch) \in Int
  BY <1>i
<1>r. /\ restore \in Int /\ 0 <= restore /\ restore <= Len(batch)
      /\ size + restore <= Cap
      /\ skip \in Int /\ 0 <= skip /\ skip = Len(batch) - restore
  BY <1>i DEF min
<1>1. /\ batch # <<>>
      /\ first' = newFirst
      /\ size' = min(size + restore, Cap)
      /\ buf' = [s \in Slots |-> IF dist(newFirst, s) < restore
                                 THEN batch[skip + dist(newFirst, s) + 1]
                                 ELSE buf[s]]
      /\ metricsDropped' = metricsDropped + Len(out)
      /\ rejects' = [m \in Metrics |-> rejects[m] + Occurrences(m, out)]
      /\ batchFirst' = 0 /\ batchSize' = 0
      /\ batch' = <<>>
      /\ last' = last
      /\ metricsAdded' = metricsAdded /\ metricsWritten' = metricsWritten
      /\ accepts' = accepts
  BY DEF Reject, metricDropped, resetBatch
<1>2. bufferSize' = length'
  BY DEF Reject
<1>3. newFirst = IF first - restore < 0 THEN first - restore + Cap ELSE first - restore
  <2>1. first \in Slots /\ restore \in 0..Cap
    BY <1>t, <1>i, <1>r DEF TypeOK
  <2> HIDE DEF restore
  <2> QED BY <2>1, PrevBy
<1>4. /\ \A i \in 1..Len(batch) : batch[i] = batch[1] + i - 1
      /\ \A i \in 1..Len(batch) : batch[i] <= metricsAdded - size
      /\ size < Cap => batch[Len(batch)] = metricsAdded - size
  BY <1>i, <1>1, Zenon DEF IInv, BatchPrecedesRing
<1>5. Len(batch) >= 1 /\ batch[1] \in Nat
  <2>1. Len(batch) # 0
    BY <1>t, <1>1 DEF TypeOK
  <2> QED BY <1>i, <2>1
<1>6. restore > 0 => \A i \in 1..Len(batch) : batch[i] = metricsAdded - size - Len(batch) + i
  <2> SUFFICES ASSUME restore > 0, NEW i \in 1..Len(batch)
               PROVE  batch[i] = metricsAdded - size - Len(batch) + i
    OBVIOUS
  <2>1. batch[Len(batch)] = metricsAdded - size
    BY <1>i, <1>r, <1>4
  <2>2. batch[Len(batch)] = batch[1] + Len(batch) - 1 /\ batch[i] = batch[1] + i - 1
    BY <1>i, <1>4, <1>5
  <2>3. batch[1] = metricsAdded - size - Len(batch) + 1
    BY <1>j, <1>5, <2>1, <2>2
  <2> HIDE DEF restore
  <2> QED BY <1>j, <2>2, <2>3
<1>7. restore = 0 \/ restore > 0
  BY <1>r
<1>8. restore = 0 => size = Cap
  BY <1>i, <1>5 DEF min
<1>9. size' = size + restore /\ size' \in 0..Cap
  BY <1>i, <1>r, <1>1 DEF min
<1>10. skip > 0 => size' = Cap
  BY <1>i, <1>r, <1>9 DEF min
<1> HIDE DEF restore
<1>11. /\ out \in Seq(Metrics) /\ Len(out) = skip /\ DOMAIN out = 1..skip
       /\ \A i \in 1..skip : out[i] = batch[i]
  <2>1. batch \in Seq(Metrics)
    BY <1>t DEF TypeOK
  <2>2. skip <= Len(batch) /\ skip \in Nat
    BY <1>i, <1>r
  <2> HIDE DEF skip
  <2> QED BY <2>1, <2>2
<1>12. \A m \in Metrics :
         Occurrences(m, out) = IF \E i \in 1..skip : batch[i] = m THEN 1 ELSE 0
  <2> HIDE DEF out, skip
  <2>1. ASSUME NEW i \in DOMAIN out PROVE out[i] = out[1] + i - 1
    <3>1. i \in 1..skip /\ 1 \in 1..skip /\ i \in 1..Len(batch)
      BY <1>j, <1>r, <1>11
    <3>2. out[i] = batch[i] /\ out[1] = batch[1]
      BY <1>11, <3>1
    <3> QED BY <1>4, <3>1, <3>2
  <2>2. ASSUME NEW m \in Metrics
        PROVE  Occurrences(m, out) = IF \E i \in DOMAIN out : out[i] = m THEN 1 ELSE 0
    BY <1>11, <2>1, OccursOnce
  <2>3. \A m \in Metrics : (\E i \in DOMAIN out : out[i] = m) <=> \E i \in 1..skip : batch[i] = m
    BY <1>11
  <2> QED BY <2>2, <2>3
<1> HIDE DEF skip, out, newFirst
<1>13. TypeOK'
  <2>1. newFirst \in Slots
    BY <1>i, <1>r, <1>3 DEF Slots
  <2>2. buf' \in [Slots -> 0..MaxMetrics]
    <3>1. \A s \in Slots : dist(newFirst, s) \in Nat
      BY <2>1 DEF dist, Slots
    <3>2. \A s \in Slots : dist(newFirst, s) < restore =>
             batch[skip + dist(newFirst, s) + 1] \in 0..MaxMetrics
      <4>1. ASSUME NEW s \in Slots, dist(newFirst, s) < restore
            PROVE  skip + dist(newFirst, s) + 1 \in 1..Len(batch)
        BY <1>i, <1>r, <3>1, <4>1
      <4>2. \A i \in 1..Len(batch) : batch[i] \in 0..MaxMetrics
        BY <1>i, <1>4
      <4> QED BY <4>1, <4>2
    <3>3. \A s \in Slots : buf[s] \in 0..MaxMetrics
      BY <1>t DEF TypeOK
    <3> QED BY <1>1, <3>2, <3>3
  <2>3. rejects' \in [Metrics -> Nat]
    <3>1. \A m \in Metrics : Occurrences(m, out) = 1 \/ Occurrences(m, out) = 0
      BY <1>12
    <3>2. \A m \in Metrics : rejects[m] \in Nat
      BY <1>t DEF TypeOK
    <3>3. \A m \in Metrics : rejects[m] + Occurrences(m, out) \in Nat
      BY <3>1, <3>2
    <3> QED BY <1>1, <3>3
  <2>4. batchFirst' \in Slots /\ batchSize' \in 0..Cap
    BY <1>1 DEF Slots
  <2>5. bufferSize' \in 0..Cap
    <3>1. bufferSize' = min(size' + batchSize', Cap)
      BY <1>2 DEF length
    <3> QED BY <1>9, <2>4, <3>1, LengthRange
  <2>6. batch' \in Seq(Metrics) /\ Len(batch') <= min(MetricBatchSize, Cap)
    BY <1>1 DEF min
  <2>7. metricsDropped' \in Nat
    BY <1>i, <1>r, <1>1, <1>11
  <2> QED
    BY <1>t, <1>1, <1>9, <2>1, <2>2, <2>3, <2>4, <2>5, <2>6, <2>7, Zenon DEF TypeOK
<1>14. RingHoldsNewest'
  <2>1. last' = nextby(first', size')
    <3>1. last = nextby(first, size) /\ first \in Slots /\ size \in 0..Cap
      BY <1>t DEF IInv, RingHoldsNewest, TypeOK
    <3>2. last = IF first + size < Cap THEN first + size ELSE first + size - Cap
      BY <3>1, NextBy
    <3>3. first' \in Slots /\ size' \in 0..Cap
      BY <1>13 DEF TypeOK
    <3>4. nextby(first', size') =
            IF first' + size' < Cap THEN first' + size' ELSE first' + size' - Cap
      BY <3>3, NextBy
    <3>5. first' = newFirst /\ last' = last
      BY <1>1
    <3>6. CASE first - restore < 0
      BY <1>j, <1>r, <1>3, <1>9, <3>2, <3>4, <3>5, <3>6
    <3>7. CASE ~(first - restore < 0)
      BY <1>j, <1>r, <1>3, <1>9, <3>2, <3>4, <3>5, <3>7
    <3> QED BY <3>6, <3>7
  <2>2. ASSUME NEW s \in Slots
        PROVE  buf'[s] = IF dist(first', s) < size'
                         THEN metricsAdded' - size' + 1 + dist(first', s)
                         ELSE Nil
    <3>1. buf[s] = IF dist(first, s) < size
                   THEN metricsAdded - size + 1 + dist(first, s)
                   ELSE Nil
      BY DEF IInv, RingHoldsNewest
    <3>2. buf'[s] = IF dist(newFirst, s) < restore
                    THEN batch[skip + dist(newFirst, s) + 1]
                    ELSE buf[s]
      BY <1>1
    <3>3. dist(newFirst, s) \in Nat /\ dist(first, s) \in Nat
      BY <1>i, <1>r, <1>3 DEF dist, Slots
    <3>4. CASE dist(newFirst, s) < restore
      <4>1. skip + dist(newFirst, s) + 1 \in 1..Len(batch) /\ restore > 0
        BY <1>i, <1>r, <3>3, <3>4
      <4>2. buf'[s] = metricsAdded - size - Len(batch) + (skip + dist(newFirst, s) + 1)
        BY <1>6, <3>2, <3>4, <4>1
      <4>3. first' = newFirst /\ metricsAdded' = metricsAdded
        BY <1>1
      <4>4. dist(newFirst, s) < size'
        BY <1>j, <1>r, <1>9, <3>3, <3>4
      <4>5. buf'[s] = metricsAdded - size' + 1 + dist(newFirst, s)
        BY <1>j, <1>r, <1>9, <3>3, <4>2
      <4> QED BY <4>3, <4>4, <4>5
    <3>5. CASE ~(dist(newFirst, s) < restore)
      <4>1. dist(newFirst, s) = dist(first, s) + restore
        BY <1>i, <1>r, <1>3, <3>5 DEF dist, Slots
      <4> QED BY SMTT(30), <1>i, <1>r, <1>1, <1>9, <3>1, <3>2, <3>3, <3>5, <4>1 DEF Nil
    <3> QED BY <3>4, <3>5
  <2> QED BY <2>1, <2>2 DEF RingHoldsNewest, nextby, dist
<1>15. BatchPrecedesRing'
  BY <1>1 DEF BatchPrecedesRing
<1>16. SettledOnce'
  <2> SUFFICES ASSUME NEW m \in Metrics
               PROVE  accepts[m] + rejects'[m] =
                        IF m <= metricsAdded - size - restore THEN 1 ELSE 0
    <3>1. metricsAdded' - size' = metricsAdded - size - restore
      BY SMTT(30), <1>i, <1>r, <1>1, <1>9
    <3> QED BY <1>1, <3>1 DEF SettledOnce
  <2>1. accepts[m] + rejects[m] =
          IF /\ m <= metricsAdded - size
             /\ \A i \in DOMAIN batch : batch[i] # m
          THEN 1 ELSE 0
    BY DEF IInv, SettledOnce
  <2>2. accepts[m] \in Nat /\ rejects[m] \in Nat /\ m \in Nat
    BY <1>t DEF TypeOK, Metrics
  <2>3. CASE \E i \in 1..skip : batch[i] = m
    <3>1. PICK i \in 1..skip : batch[i] = m
      BY <2>3
    <3>2. rejects'[m] = rejects[m] + 1
      BY <1>1, <1>12, <2>3
    <3>3. i \in 1..Len(batch)
      BY <1>i, <1>r
    <3>4. accepts[m] + rejects[m] = 0
      BY <1>i, <2>1, <3>1, <3>3
    <3>5. m <= metricsAdded - size - restore
      <4>1. CASE restore = 0
        BY <1>i, <1>4, <3>1, <3>3, <4>1
      <4>2. CASE restore > 0
        <5>1. m = metricsAdded - size - Len(batch) + i
          BY <1>6, <3>1, <3>3, <4>2
        <5> QED BY <1>i, <1>r, <5>1
      <4> QED BY <1>7, <4>1, <4>2
    <3> QED BY <2>2, <3>2, <3>4, <3>5
  <2>4. CASE ~ \E i \in 1..skip : batch[i] = m
    <3>1. rejects'[m] = rejects[m]
      BY <1>1, <1>12, <2>2, <2>4
    <3>2. (/\ m <= metricsAdded - size
           /\ \A i \in DOMAIN batch : batch[i] # m) <=> m <= metricsAdded - size - restore
      <4>1. CASE restore = 0
        <5>1. \A i \in DOMAIN batch : batch[i] # m
          BY <1>i, <1>r, <2>4, <4>1
        <5> QED BY <1>i, <4>1, <5>1
      <4>2. CASE restore > 0
        <5>1. ASSUME m <= metricsAdded - size, \A i \in DOMAIN batch : batch[i] # m
              PROVE  m <= metricsAdded - size - restore
          <6>1. SUFFICES ASSUME m > metricsAdded - size - restore PROVE FALSE
            BY <1>i, <1>r, <2>2
          <6>2. m - (metricsAdded - size - Len(batch)) \in 1..Len(batch)
            BY <1>i, <1>r, <2>2, <5>1, <6>1
          <6>3. batch[m - (metricsAdded - size - Len(batch))] = m
            BY <1>i, <1>6, <2>2, <4>2, <6>2
          <6> QED BY <1>i, <5>1, <6>2, <6>3
        <5>2. ASSUME m <= metricsAdded - size - restore, NEW i \in DOMAIN batch,
                     batch[i] = m
              PROVE  FALSE
          <6>1. i \in 1..Len(batch) /\ m = metricsAdded - size - Len(batch) + i
            BY <1>i, <1>6, <4>2, <5>2
          <6>2. i \in 1..skip
            BY <1>i, <1>r, <5>2, <6>1
          <6> QED BY <2>4, <5>2, <6>2
        <5>3. m <= metricsAdded - size - restore => m <= metricsAdded - size
          BY <1>i, <1>r, <2>2
        <5> QED BY <5>1, <5>2, <5>3
      <4> QED BY <1>7, <4>1, <4>2
    <3> QED BY <2>1, <3>1, <3>2
  <2> QED BY <2>3, <2>4
<1>17. StatsConserved'
  <2>1. metricsAdded = metricsWritten + metricsDropped + size + Len(batch)
    BY DEF IInv, StatsConserved
  <2>2. /\ metricsAdded' = metricsAdded /\ metricsWritten' = metricsWritten
        /\ metricsDropped' = metricsDropped + skip /\ Len(batch') = 0
    BY <1>1, <1>11
  <2> QED BY <1>j, <1>r, <1>9, <2>1, <2>2 DEF StatsConserved
<1>18. GaugeCurrent'
  BY <1>2 DEF GaugeCurrent
<1> QED BY <1>13, <1>14, <1>15, <1>16, <1>17, <1>18 DEF IInv

(* Every step of the buffer preserves the invariant. *)
LEMMA NextIInv == IInv /\ [Next]_vars => IInv'
<1> SUFFICES ASSUME IInv, [Next]_vars PROVE IInv'
  OBVIOUS
<1>1. CASE Add
  BY <1>1, AddRoomIInv, AddFullIInv
<1>2. CASE batch = <<>> /\ Batch
  BY <1>2, BatchIInv
<1>3. CASE batch # <<>> /\ Accept
  BY <1>3, AcceptIInv
<1>4. CASE Reject
  BY <1>4, RejectIInv
<1>5. CASE UNCHANGED vars
  BY <1>5, Zenon DEF IInv, TypeOK, RingHoldsNewest, BatchPrecedesRing,
     SettledOnce, StatsConserved, GaugeCurrent, vars, ring, stats, length
<1> QED BY <1>1, <1>2, <1>3, <1>4, <1>5 DEF Next

(* The invariant holds in every reachable state. *)
THEOREM Invariance == Spec => []IInv
  BY InitIInv, NextIInv, PTL DEF Spec

(* Types and ranges, for every buffer limit and batch size. *)
THEOREM TypeCorrect == Spec => []TypeOK
<1>1. IInv => TypeOK
  BY DEF IInv
<1> QED BY <1>1, Invariance, PTL

(* The ring holds exactly the newest metrics in order and nil elsewhere,   *)
(* so that add never drops or overwrites anything but the oldest metric.   *)
THEOREM RingCorrect == Spec => []RingHoldsNewest
<1>1. IInv => RingHoldsNewest
  BY DEF IInv
<1> QED BY <1>1, Invariance, PTL

(* The batch out with the writer is older than the ring and adjacent to it *)
(* as long as it can be restored.                                          *)
THEOREM BatchCorrect == Spec => []BatchPrecedesRing
<1>1. IInv => BatchPrecedesRing
  BY DEF IInv
<1> QED BY <1>1, Invariance, PTL

(* No metric is accepted or rejected twice, and none leaves the buffer     *)
(* without one of the two.                                                 *)
THEOREM SettlementCorrect == Spec => []SettledOnce
<1>1. IInv => SettledOnce
  BY DEF IInv
<1> QED BY <1>1, Invariance, PTL

(* The counters the agent reports about the buffer add up. *)
THEOREM StatsCorrect == Spec => [](StatsConserved /\ GaugeCurrent)
<1>1. IInv => StatsConserved /\ GaugeCurrent
  BY DEF IInv
<1> QED BY <1>1, Invariance, PTL

-----------------------------------------------------------------------------
(* What was accepted is older than the ring and than the batch. *)
AcceptedOlder ==
  \A m \in Metrics :
    accepts[m] > 0 => /\ m <= metricsAdded - size
                      /\ \A j \in DOMAIN batch : m < batch[j]

(* What one step may do to the order of acceptance. *)
StepInOrder ==
  \A m, n \in Metrics : (accepts[m] > 0 /\ accepts'[n] > accepts[n]) => m < n

(* Add: the ring gives up its oldest metric at most. *)
LEMMA AddOlder ==
  ASSUME IInv, AcceptedOlder, Add
  PROVE  AcceptedOlder' /\ StepInOrder
<1>1. /\ size \in 0..Cap /\ metricsAdded \in Nat /\ Cap \in Nat
      /\ accepts \in [Metrics -> Nat]
  BY BufferAssumption DEF IInv, TypeOK
<1>2. /\ UNCHANGED <<accepts, batch>>
      /\ metricsAdded' = metricsAdded + 1 /\ size' = min(size + 1, Cap)
  BY DEF Add
<1>3. size' \in Nat /\ size' <= size + 1
  BY <1>1, <1>2 DEF min
<1>4. metricsAdded - size <= metricsAdded' - size'
  BY <1>1, <1>2, <1>3
<1>5. \A m \in Metrics : m <= metricsAdded - size => m <= metricsAdded' - size'
  BY <1>1, <1>2, <1>3, <1>4, BufferAssumption DEF Metrics
<1>6. StepInOrder
  BY <1>1, <1>2, BufferAssumption DEF StepInOrder
<1> QED
  BY <1>2, <1>5, <1>6, Zenon DEF AcceptedOlder

(* Batch: it comes off the ring. *)
LEMMA BatchOlder ==
  ASSUME IInv, IInv', AcceptedOlder, batch = <<>>, Batch
  PROVE  AcceptedOlder' /\ StepInOrder
<1> DEFINE outLen == min(size, MetricBatchSize)
<1>1. /\ size \in 0..Cap /\ metricsAdded \in Nat /\ Cap \in Nat \ {0}
      /\ MetricBatchSize \in Nat \ {0} /\ accepts \in [Metrics -> Nat]
  BY BufferAssumption DEF IInv, TypeOK
<1>2. UNCHANGED <<accepts, metricsAdded>>
  BY DEF Batch, stats
<1>3. StepInOrder
  BY <1>1, <1>2, BufferAssumption DEF StepInOrder
<1>4. CASE outLen = 0
  <2>1. UNCHANGED <<size, batch>>
    BY <1>4 DEF Batch, ring
  <2> QED
    BY <1>2, <1>3, <2>1 DEF AcceptedOlder
<1>5. CASE outLen # 0
  <2>1. outLen \in 1..size
    BY <1>1, <1>5 DEF min
  <2>2. /\ batch' = [i \in 1..outLen |-> buf[nextby(first, i - 1)]]
        /\ size' = size - outLen
    BY <1>5 DEF Batch
  <2> HIDE DEF outLen
  <2>3. /\ batch' \in Seq(Metrics) /\ DOMAIN batch' = 1..outLen
        /\ Len(batch') = outLen
    BY <2>1, <2>2, <1>1 DEF IInv, TypeOK
  <2>4. size' < Cap /\ batch' # <<>>
    BY <1>1, <2>1, <2>2, <2>3
  <2>5. batch'[outLen] = metricsAdded - size'
    BY <1>2, <2>3, <2>4 DEF IInv, BatchPrecedesRing
  <2>6. \A j \in 1..outLen : batch'[j] = batch'[1] + j - 1
    BY <2>3, Zenon DEF IInv, BatchPrecedesRing
  <2>7. batch'[1] \in Nat
    BY <2>1, <2>3, BufferAssumption DEF Metrics
  <2>8. batch'[outLen] = batch'[1] + outLen - 1
    BY <2>1, <2>6
  <2>9. \A j \in 1..outLen : batch'[j] = metricsAdded - size + j
    <3>1. batch'[1] + outLen - 1 = metricsAdded - (size - outLen)
      BY <2>2, <2>5, <2>8
    <3>2. outLen \in Int /\ size \in Int
      BY <1>1, <2>1
    <3>3. batch'[1] = metricsAdded - size + 1
      BY <1>1, <2>7, <3>1, <3>2
    <3> QED
      BY <1>1, <2>6, <3>2, <3>3
  <2>10. ASSUME NEW m \in Metrics, accepts[m] > 0
         PROVE  m <= metricsAdded - size' /\ \A j \in 1..outLen : m < batch'[j]
    <3>1. m \in Nat /\ m <= metricsAdded - size
      BY <2>10, BufferAssumption DEF AcceptedOlder, Metrics
    <3> QED
      BY <1>1, <2>1, <2>2, <2>9, <3>1
  <2> QED
    BY <1>2, <1>3, <2>3, <2>10 DEF AcceptedOlder
<1> QED
  BY <1>4, <1>5

(* Accept: the batch is newer than what was accepted and older than the    *)
(* ring.                                                                   *)
LEMMA AcceptOlder ==
  ASSUME IInv, AcceptedOlder, batch # <<>>, Accept
  PROVE  AcceptedOlder' /\ StepInOrder
<1>1. /\ UNCHANGED <<metricsAdded, size>> /\ batch' = <<>>
      /\ accepts' = [m \in Metrics |-> accepts[m] + Occurrences(m, batch)]
  BY DEF Accept, metricWritten
<1>2. /\ batch \in Seq(Metrics) /\ accepts \in [Metrics -> Nat]
      /\ \A i \in DOMAIN batch : batch[i] = batch[1] + i - 1
      /\ \A i \in DOMAIN batch : batch[i] <= metricsAdded - size
  BY DEF IInv, TypeOK, BatchPrecedesRing
<1>3. \A m \in Metrics : (\A i \in DOMAIN batch : batch[i] # m) => accepts'[m] = accepts[m]
  <2> SUFFICES ASSUME NEW m \in Metrics, \A i \in DOMAIN batch : batch[i] # m
               PROVE  accepts'[m] = accepts[m]
    OBVIOUS
  <2>1. Occurrences(m, batch) = 0
    BY <1>2, OccursOnce
  <2> QED
    BY <1>1, <1>2, <2>1
<1>4. \A m \in Metrics : accepts[m] \in Nat
  BY <1>2
<1>5. StepInOrder
  <2> SUFFICES ASSUME NEW m \in Metrics, NEW n \in Metrics,
                      accepts[m] > 0, accepts'[n] > accepts[n]
               PROVE  m < n
    BY DEF StepInOrder
  <2>1. accepts'[n] # accepts[n]
    BY <1>4
  <2>2. PICK i \in DOMAIN batch : batch[i] = n
    BY <1>3, <2>1
  <2> QED
    BY <2>2 DEF AcceptedOlder
<1>6. \A m \in Metrics : accepts'[m] > 0 => m <= metricsAdded - size
  <2> SUFFICES ASSUME NEW m \in Metrics, accepts'[m] > 0
               PROVE  m <= metricsAdded - size
    OBVIOUS
  <2>1. CASE \A i \in DOMAIN batch : batch[i] # m
    BY <1>3, <2>1 DEF AcceptedOlder
  <2>2. CASE \E i \in DOMAIN batch : batch[i] = m
    BY <1>2, <2>2
  <2> QED
    BY <2>1, <2>2
<1> QED
  BY <1>1, <1>5, <1>6 DEF AcceptedOlder

(* Reject: the ring is moved back over the batch only. *)
LEMMA RejectOlder ==
  ASSUME IInv, AcceptedOlder, Reject
  PROVE  AcceptedOlder' /\ StepInOrder
<1> DEFINE restore == min(Len(batch), Cap - size)
<1>1. /\ UNCHANGED <<accepts, metricsAdded>> /\ batch' = <<>> /\ batch # <<>>
      /\ size' = min(size + restore, Cap)
  BY DEF Reject
<1>2. /\ size \in 0..Cap /\ Cap \in Nat /\ metricsAdded \in Nat
      /\ batch \in Seq(Metrics) /\ accepts \in [Metrics -> Nat]
  BY BufferAssumption DEF IInv, TypeOK
<1>3. Len(batch) \in Nat /\ DOMAIN batch = 1..Len(batch) /\ Len(batch) >= 1
  BY <1>1, <1>2
<1>4. restore \in 0..Len(batch) /\ (size = Cap => restore = 0) /\ size' = size + restore
  BY <1>1, <1>2, <1>3 DEF min
<1> HIDE DEF restore
<1>5. StepInOrder
  BY <1>1, <1>2, BufferAssumption DEF StepInOrder
<1>6. ASSUME NEW m \in Metrics, accepts[m] > 0
      PROVE  m <= metricsAdded - size'
  <2>1. 1 \in DOMAIN batch /\ batch[1] \in Nat
    BY <1>2, <1>3, BufferAssumption DEF Metrics
  <2>2. m \in Nat /\ m <= metricsAdded - size /\ m < batch[1]
    BY <1>6, <2>1, BufferAssumption DEF AcceptedOlder, Metrics
  <2>3. CASE size = Cap
    BY <1>2, <1>4, <2>2, <2>3
  <2>4. CASE size < Cap
    <3>1. batch[Len(batch)] = metricsAdded - size
      BY <1>1, <2>4 DEF IInv, BatchPrecedesRing
    <3>2. batch[Len(batch)] = batch[1] + Len(batch) - 1
      BY <1>3 DEF IInv, BatchPrecedesRing
    <3> QED
      BY <1>2, <1>3, <1>4, <2>1, <2>2, <3>1, <3>2
  <2> QED
    BY <1>2, <2>3, <2>4
<1> QED
  BY <1>1, <1>5, <1>6 DEF AcceptedOlder

(* However many batches come back, metrics are accepted in the order they  *)
(* arrived.                                                                *)
THEOREM AcceptanceInOrder == Spec => AcceptedInOrder
<1>1. Init => AcceptedOlder
  BY DEF Init, NewBuffer, AcceptedOlder
<1>2. ASSUME IInv, IInv', AcceptedOlder, [Next]_vars
      PROVE  AcceptedOlder' /\ [StepInOrder]_vars
  <2>1. CASE Next
    BY <1>2, <2>1, AddOlder, BatchOlder, AcceptOlder, RejectOlder DEF Next
  <2>2. CASE UNCHANGED vars
    BY <1>2, <2>2 DEF AcceptedOlder, vars, ring, stats
  <2> QED
    BY <1>2, <2>1, <2>2
<1> QED
  BY <1>1, <1>2, Invariance, PTL DEF Spec, AcceptedInOrder, StepInOrder

-----------------------------------------------------------------------------
(* s holds the n metrics that follow metric lo. *)
IsRun(s, lo, n) ==
  /\ s \in Seq(Metrics) /\ Len(s) = n /\ lo \in Int /\ n \in Nat
  /\ \A i \in 1..n : s[i] = lo + i

(* A run is one sequence. *)
LEMMA RunEqual ==
  ASSUME NEW s, NEW t, NEW lo, NEW n, IsRun(s, lo, n), IsRun(t, lo, n)
  PROVE  s = t
<1>1. \A i \in 1..Len(s) : s[i] = t[i]
  BY DEF IsRun
<1> QED
  BY <1>1, SeqEqual DEF IsRun

(* The metrics of a run. *)
LEMMA RunRange ==
  ASSUME NEW s, NEW lo, NEW n, IsRun(s, lo, n)
  PROVE  Q!Range(s) = (lo + 1)..(lo + n)
<1>1. DOMAIN s = 1..n /\ lo \in Int /\ n \in Nat /\ \A i \in 1..n : s[i] = lo + i
  BY LenProperties DEF IsRun
<1>2. ASSUME NEW m \in (lo + 1)..(lo + n) PROVE m \in Q!Range(s)
  <2>1. m - lo \in 1..n /\ lo + (m - lo) = m
    BY <1>1
  <2>2. s[m - lo] = m
    BY <1>1, <2>1
  <2> QED
    BY <1>1, <2>1, <2>2 DEF Q!Range
<1>3. ASSUME NEW i \in 1..n PROVE s[i] \in (lo + 1)..(lo + n)
  <2>1. s[i] = lo + i
    BY <1>1
  <2> QED
    BY <1>1, <2>1
<1> QED
  BY <1>1, <1>2, <1>3 DEF Q!Range

(* The next metric continues a run. *)
LEMMA RunAppend ==
  ASSUME NEW s, NEW lo, NEW n, IsRun(s, lo, n), lo + n + 1 \in Metrics
  PROVE  IsRun(Append(s, lo + n + 1), lo, n + 1)
<1>1. s \in Seq(Metrics) /\ Len(s) = n /\ lo \in Int /\ n \in Nat
      /\ \A i \in 1..n : s[i] = lo + i
  BY DEF IsRun
<1>2. PICK m \in Metrics : m = lo + n + 1
  OBVIOUS
<1>3. /\ Append(s, m) \in Seq(Metrics) /\ Len(Append(s, m)) = Len(s) + 1
      /\ \A i \in 1..Len(s) : Append(s, m)[i] = s[i]
      /\ Append(s, m)[Len(s) + 1] = m
  BY <1>1, AppendProperties
<1>4. ASSUME NEW i \in 1..(n + 1) PROVE Append(s, m)[i] = lo + i
  <2>1. CASE i = n + 1
    BY <1>1, <1>2, <1>3, <2>1
  <2>2. CASE i \in 1..n
    BY <1>1, <1>3, <2>2
  <2> QED
    BY <1>1, <2>1, <2>2
<1> QED
  BY <1>1, <1>2, <1>3, <1>4 DEF IsRun

(* The part of a run from k + 1 to n, and the part up to k. *)
LEMMA RunParts ==
  ASSUME NEW s, NEW lo, NEW n, IsRun(s, lo, n), NEW k \in 0..n
  PROVE  /\ IsRun(SubSeq(s, 1, k), lo, k)
         /\ IsRun(SubSeq(s, k + 1, n), lo + k, n - k)
<1>1. s \in Seq(Metrics) /\ Len(s) = n /\ lo \in Int /\ n \in Nat
      /\ \A i \in 1..n : s[i] = lo + i /\ s[i] \in Metrics
  BY ElementOfSeq DEF IsRun
<1>2. IsRun(SubSeq(s, 1, k), lo, k)
  <2>1. \A i \in 1..k : s[i] \in Metrics
    BY <1>1
  <2>2. /\ SubSeq(s, 1, k) \in Seq(Metrics)
        /\ Len(SubSeq(s, 1, k)) = IF 1 <= k THEN k - 1 + 1 ELSE 0
        /\ \A i \in 1..(k - 1 + 1) : SubSeq(s, 1, k)[i] = s[1 + i - 1]
    BY <1>1, <2>1, SubSeqProperties
  <2>3. \A i \in 1..k : SubSeq(s, 1, k)[i] = lo + i
    BY <1>1, <2>2
  <2>4. Len(SubSeq(s, 1, k)) = k
    BY <1>1, <2>2
  <2> QED
    BY <1>1, <2>2, <2>3, <2>4 DEF IsRun
<1>3. IsRun(SubSeq(s, k + 1, n), lo + k, n - k)
  <2>1. \A i \in (k + 1)..n : s[i] \in Metrics
    BY <1>1
  <2>2. /\ SubSeq(s, k + 1, n) \in Seq(Metrics)
        /\ Len(SubSeq(s, k + 1, n)) = IF k + 1 <= n THEN n - (k + 1) + 1 ELSE 0
        /\ \A i \in 1..(n - (k + 1) + 1) : SubSeq(s, k + 1, n)[i] = s[(k + 1) + i - 1]
    BY <1>1, <2>1, SubSeqProperties
  <2>3. ASSUME NEW i \in 1..(n - k) PROVE SubSeq(s, k + 1, n)[i] = (lo + k) + i
    <3>1. i \in 1..(n - (k + 1) + 1) /\ (k + 1) + i - 1 = k + i /\ k + i \in 1..n
      BY <1>1
    <3>2. SubSeq(s, k + 1, n)[i] = s[k + i]
      BY <2>2, <3>1
    <3>3. s[k + i] = lo + (k + i)
      BY <1>1, <3>1
    <3> QED
      BY <1>1, <3>2, <3>3
  <2>4. Len(SubSeq(s, k + 1, n)) = n - k
    BY <1>1, <2>2
  <2> QED
    BY <1>1, <2>2, <2>3, <2>4 DEF IsRun
<1> QED
  BY <1>2, <1>3

(* Without its oldest metric a run is a run. *)
LEMMA RunTail ==
  ASSUME NEW s, NEW lo, NEW n, IsRun(s, lo, n), n # 0
  PROVE  IsRun(Tail(s), lo + 1, n - 1) /\ Head(s) = lo + 1
<1>1. s \in Seq(Metrics) /\ Len(s) = n /\ lo \in Int /\ n \in Nat \ {0}
      /\ \A i \in 1..n : s[i] = lo + i
  BY DEF IsRun
<1>2. s # <<>>
  BY <1>1
<1>3. /\ Tail(s) \in Seq(Metrics) /\ Len(Tail(s)) = Len(s) - 1
      /\ \A i \in 1..Len(Tail(s)) : Tail(s)[i] = s[i + 1]
  BY <1>1, <1>2, HeadTailProperties
<1>4. ASSUME NEW i \in 1..(n - 1) PROVE Tail(s)[i] = (lo + 1) + i
  <2>1. i \in 1..Len(Tail(s)) /\ i + 1 \in 1..n
    BY <1>1, <1>3
  <2>2. Tail(s)[i] = s[i + 1] /\ s[i + 1] = lo + (i + 1)
    BY <1>1, <1>3, <2>1
  <2> QED
    BY <1>1, <2>2
<1>5. Head(s) = s[1] /\ 1 \in 1..n
  BY <1>1
<1>6. Head(s) = lo + 1
  BY <1>1, <1>5
<1>7. IsRun(Tail(s), lo + 1, n - 1)
  <2>1. Len(Tail(s)) = n - 1 /\ n - 1 \in Nat /\ lo + 1 \in Int
    BY <1>1, <1>3
  <2> QED
    BY <1>3, <1>4, <2>1 DEF IsRun
<1> QED
  BY <1>6, <1>7

(* Two runs that meet are one. *)
LEMMA RunConcat ==
  ASSUME NEW s, NEW t, NEW lo, NEW n, NEW k, IsRun(s, lo, n), IsRun(t, lo + n, k)
  PROVE  IsRun(s \o t, lo, n + k)
<1>1. /\ s \in Seq(Metrics) /\ Len(s) = n /\ lo \in Int /\ n \in Nat
      /\ t \in Seq(Metrics) /\ Len(t) = k /\ k \in Nat
      /\ \A i \in 1..n : s[i] = lo + i
      /\ \A i \in 1..k : t[i] = (lo + n) + i
  BY DEF IsRun
<1>2. /\ s \o t \in Seq(Metrics) /\ Len(s \o t) = Len(s) + Len(t)
      /\ \A i \in 1..(Len(s) + Len(t)) :
           (s \o t)[i] = IF i <= Len(s) THEN s[i] ELSE t[i - Len(s)]
  BY <1>1, ConcatProperties
<1>3. ASSUME NEW i \in 1..(n + k) PROVE (s \o t)[i] = lo + i
  <2>1. (s \o t)[i] = IF i <= n THEN s[i] ELSE t[i - n]
    BY <1>1, <1>2
  <2>2. CASE i <= n
    BY <1>1, <2>1, <2>2
  <2>3. CASE ~(i <= n)
    <3>1. i - n \in 1..k /\ (lo + n) + (i - n) = lo + i
      BY <1>1, <2>3
    <3> QED
      BY <1>1, <2>1, <2>3, <3>1
  <2> QED
    BY <2>2, <2>3, Zenon
<1> QED
  BY <1>1, <1>2, <1>3 DEF IsRun

-----------------------------------------------------------------------------
(* The ring, read from first, is the run of the newest size metrics. *)
ContentsRun == IsRun(Contents, metricsAdded - size, size)

(* The inductive invariant gives what Contents reads out of the ring. *)
LEMMA RingRun == IInv => ContentsRun
<1> SUFFICES ASSUME IInv PROVE ContentsRun
  OBVIOUS
<1>1. /\ TypeOK /\ RingHoldsNewest /\ Cap \in Nat \ {0} /\ MaxMetrics \in Nat
      /\ StatsConserved
  BY BufferAssumption DEF IInv
<1>2. /\ size \in Nat /\ size <= Cap /\ metricsAdded \in Nat /\ first \in Slots
      /\ metricsAdded <= MaxMetrics /\ Len(batch) \in Nat
      /\ metricsWritten \in Nat /\ metricsDropped \in Nat
  BY <1>1, Integers_ DEF TypeOK
<1>3. size <= metricsAdded
  BY <1>1, <1>2 DEF StatsConserved
<1>4. ASSUME NEW i \in 1..size PROVE Contents[i] = metricsAdded - size + i
  <2>1. i - 1 \in 0..(Cap - 1) /\ i - 1 < size
    BY <1>2, <1>1
  <2>2. nextby(first, i - 1) \in Slots /\ dist(first, nextby(first, i - 1)) = i - 1
    BY <1>2, <2>1, DistNextBy
  <2>3. PICK s \in Slots : s = nextby(first, i - 1) /\ dist(first, s) = i - 1
    BY <2>2
  <2>4. buf[s] = metricsAdded - size + 1 + (i - 1)
    BY <1>1, <2>1, <2>3 DEF RingHoldsNewest
  <2>5. metricsAdded - size + 1 + (i - 1) = metricsAdded - size + i
    BY <1>2
  <2>6. Contents[i] = buf[s]
    BY <2>3 DEF Contents
  <2> QED
    BY <2>4, <2>5, <2>6
<1>5. ASSUME NEW i \in 1..size PROVE metricsAdded - size + i \in Metrics
  BY <1>1, <1>2, <1>3 DEF Metrics
<1>6. Contents = [i \in 1..size |-> metricsAdded - size + i]
  BY <1>4 DEF Contents
<1>7. Contents \in [1..size -> Metrics]
  BY <1>5, <1>6
<1>8. Contents \in Seq(Metrics) /\ Len(Contents) = size
  <2>1. Contents \in Seq(Metrics)
    BY <1>2, <1>7, SeqDef
  <2>2. DOMAIN Contents = 1..size
    BY <1>7
  <2> QED
    BY <1>2, <2>1, <2>2
<1> QED
  BY <1>2, <1>4, <1>8 DEF ContentsRun, IsRun

(* The same of the next state. *)
LEMMA NextRun == IInv' => ContentsRun'
  BY RingRun, PTL

(* The batch is a run. *)
LEMMA BatchRun ==
  ASSUME IInv, batch # <<>>
  PROVE  /\ IsRun(batch, batch[1] - 1, Len(batch))
         /\ size < Cap => batch[1] - 1 = metricsAdded - size - Len(batch)
         /\ Len(batch) \in 1..Cap
<1>1. /\ batch \in Seq(Metrics) /\ BatchPrecedesRing /\ TypeOK
      /\ Cap \in Nat \ {0} /\ MaxMetrics \in Nat
  BY BufferAssumption DEF IInv, TypeOK
<1>2. Len(batch) \in Nat \ {0} /\ DOMAIN batch = 1..Len(batch) /\ Len(batch) <= Cap
      /\ size \in Nat /\ metricsAdded \in Nat
  BY <1>1, Integers_
<1>3. batch[1] \in Int /\ 1 \in 1..Len(batch) /\ Len(batch) \in 1..Len(batch)
  BY <1>1, <1>2 DEF Metrics
<1>4. \A i \in 1..Len(batch) : batch[i] = batch[1] - 1 + i
  BY <1>1, <1>2, <1>3 DEF BatchPrecedesRing
<1>5. IsRun(batch, batch[1] - 1, Len(batch))
  BY <1>1, <1>2, <1>3, <1>4 DEF IsRun
<1>6. ASSUME size < Cap PROVE batch[1] - 1 = metricsAdded - size - Len(batch)
  <2>1. batch[Len(batch)] = metricsAdded - size
    BY <1>1, <1>6 DEF BatchPrecedesRing
  <2>2. batch[Len(batch)] = batch[1] - 1 + Len(batch)
    BY <1>3, <1>4
  <2> QED
    BY <1>2, <1>3, <2>1, <2>2
<1> QED
  BY <1>2, <1>5, <1>6

(* g counts what f counts and one call more for each metric of the run s. *)
Calls(f, g, s) ==
  /\ f \in [Metrics -> Nat]
  /\ g = [m \in Metrics |-> f[m] + Occurrences(m, s)]
  /\ \E lo, n : IsRun(s, lo, n)

(* Calling Accept() or Reject() on the metrics of a run adds them, and no  *)
(* other, to the metrics that got that call.                               *)
LEMMA CallsSettle ==
  ASSUME NEW f, NEW g, NEW s, Calls(f, g, s)
  PROVE  {m \in Metrics : g[m] > 0} = {m \in Metrics : f[m] > 0} \cup Q!Range(s)
<1> PICK lo, n : IsRun(s, lo, n)
  BY DEF Calls
<1>1. /\ s \in Seq(Metrics) /\ Len(s) = n /\ lo \in Int /\ n \in Nat
      /\ DOMAIN s = 1..n /\ \A i \in 1..n : s[i] = lo + i
  BY DEF IsRun
<1>2. \A i \in DOMAIN s : s[i] = s[1] + i - 1
  BY <1>1
<1>3. ASSUME NEW m \in Metrics
      PROVE  f[m] + Occurrences(m, s) > 0 <=> f[m] > 0 \/ m \in Q!Range(s)
  <2>1. Occurrences(m, s) = IF \E i \in DOMAIN s : s[i] = m THEN 1 ELSE 0
    BY <1>1, <1>2, OccursOnce, Zenon
  <2>2. m \in Q!Range(s) <=> \E i \in DOMAIN s : s[i] = m
    BY DEF Q!Range
  <2>3. f[m] \in Nat
    BY DEF Calls
  <2>4. CASE m \in Q!Range(s)
    BY <2>1, <2>2, <2>3, <2>4
  <2>5. CASE m \notin Q!Range(s)
    BY <2>1, <2>2, <2>3, <2>5
  <2> QED
    BY <2>4, <2>5
<1>4. Q!Range(s) \subseteq Metrics
  BY <1>1 DEF Q!Range
<1>5. \A m \in Metrics : g[m] = f[m] + Occurrences(m, s)
  BY Zenon DEF Calls
<1>6. \A m \in Metrics : g[m] > 0 <=> f[m] > 0 \/ m \in Q!Range(s)
  BY <1>3, <1>5, Zenon
<1> QED
  BY <1>4, <1>6, Zenon

-----------------------------------------------------------------------------
(* Add puts a metric that was never seen at the end of the queue, and a    *)
(* full ring gives up its oldest one.                                      *)
LEMMA AddRefines ==
  ASSUME IInv, IInv', Add
  PROVE  \E m \in Metrics : Q!QAdd(m)
<1> DEFINE lo == metricsAdded - size
<1>1. /\ TypeOK /\ SettledOnce /\ RingHoldsNewest /\ BatchPrecedesRing
      /\ Cap \in Nat \ {0} /\ MaxMetrics \in Nat
  BY BufferAssumption DEF IInv
<1>2. /\ size \in Nat /\ size <= Cap /\ metricsAdded \in Nat
      /\ accepts \in [Metrics -> Nat] /\ rejects \in [Metrics -> Nat]
      /\ batch \in Seq(Metrics) /\ buf \in [Slots -> 0..MaxMetrics]
      /\ first \in Slots /\ last \in Slots
  BY <1>1, Integers_ DEF TypeOK
<1>3. /\ metricsAdded < MaxMetrics /\ metricsAdded' = metricsAdded + 1
      /\ size' = min(size + 1, Cap) /\ batch' = batch /\ accepts' = accepts
      /\ rejects' = [k \in Metrics |->
           rejects[k] + Occurrences(k, IF size = Cap THEN <<buf[last]>> ELSE <<>>)]
  BY DEF Add, metricDropped
<1>4. PICK m \in Metrics : m = metricsAdded + 1
  BY <1>1, <1>2, <1>3 DEF Metrics
<1>5. IsRun(Contents, lo, size) /\ IsRun(Contents', metricsAdded' - size', size')
  BY RingRun, NextRun DEF ContentsRun
<1>6. Len(Contents) = size
  BY <1>5 DEF IsRun
<1>7. m \notin Q!Range(Contents)
  <2>1. Q!Range(Contents) = (lo + 1)..(lo + size)
    BY <1>5, RunRange
  <2> QED
    BY <1>2, <1>4, <2>1
<1>8. m \notin Q!Range(batch)
  <2>1. \A i \in DOMAIN batch : batch[i] <= metricsAdded - size /\ batch[i] \in Int
    BY <1>1, <1>2 DEF BatchPrecedesRing, Metrics
  <2>2. \A i \in DOMAIN batch : batch[i] # m
    BY <1>2, <1>4, <2>1
  <2> QED
    BY <2>2 DEF Q!Range
<1>9. ~(accepts[m] > 0) /\ ~(rejects[m] > 0)
  <2>1. ~(m <= metricsAdded - size)
    BY <1>2, <1>4
  <2>2. accepts[m] + rejects[m] = 0
    BY <1>1, <1>4, <2>1 DEF SettledOnce
  <2>3. accepts[m] \in Nat /\ rejects[m] \in Nat
    BY <1>2, <1>4
  <2> QED
    BY <2>2, <2>3
<1>10. CASE size # Cap
  <2>1. size' = size + 1 /\ metricsAdded' - size' = lo /\ lo + size + 1 = m
    BY <1>1, <1>2, <1>3, <1>4, <1>10 DEF min
  <2>2. IsRun(Append(Contents, m), lo, size + 1)
    <3>1. IsRun(Append(Contents, lo + size + 1), lo, size + 1)
      <4>1. lo + size + 1 \in Metrics
        BY <2>1, Zenon
      <4> QED
        BY <1>5, <4>1, RunAppend
    <3> QED
      BY <2>1, <3>1, Zenon
  <2>3. IsRun(Contents', lo, size + 1)
    BY <1>5, <2>1, Zenon
  <2>4. Contents' = Append(Contents, m)
    BY <2>2, <2>3, RunEqual, Zenon
  <2>5. rejects' = [k \in Metrics |-> rejects[k] + Occurrences(k, <<>>)]
    BY <1>3, <1>10, Zenon
  <2>6. ASSUME NEW k \in Metrics PROVE rejects'[k] = rejects[k]
    <3>1. rejects'[k] = rejects[k] + 0
      BY <2>5, OccursNever
    <3> QED
      BY <1>2, <3>1
  <2>7. {k \in Metrics : rejects'[k] > 0} = {k \in Metrics : rejects[k] > 0}
    BY <2>6
  <2>8. Q!QAdd(m)
    BY <1>3, <1>6, <1>7, <1>8, <1>9, <1>10, <2>4, <2>7 DEF Q!QAdd
  <2> QED
    BY <2>8, Zenon
<1>11. CASE size = Cap
  <2>1. /\ size' = size /\ metricsAdded' - size' = lo + 1 /\ size # 0
        /\ (lo + 1) + (size - 1) + 1 = m /\ (size - 1) + 1 = size
    BY <1>1, <1>2, <1>3, <1>4, <1>11 DEF min
  <2>2. IsRun(Tail(Contents), lo + 1, size - 1) /\ Head(Contents) = lo + 1
    BY <1>5, <2>1, RunTail
  <2>3. IsRun(Append(Tail(Contents), m), lo + 1, size)
    <3>1. IsRun(Append(Tail(Contents), (lo + 1) + (size - 1) + 1), lo + 1, (size - 1) + 1)
      <4>1. (lo + 1) + (size - 1) + 1 \in Metrics
        BY <2>1, Zenon
      <4> HIDE DEF lo
      <4> QED
        BY <2>2, <4>1, RunAppend
    <3> QED
      BY <2>1, <3>1, Zenon
  <2>4. Contents' = Append(Tail(Contents), m)
    <3>1. IsRun(Contents', lo + 1, size)
      BY <1>5, <2>1, Zenon
    <3> QED
      BY <2>3, <3>1, RunEqual, Zenon
  <2>5. buf[last] = lo + 1
    <3>1. last = first
      BY <1>1, <1>2, <1>11, NextBy DEF RingHoldsNewest, Slots
    <3>2. dist(first, first) = 0
      BY <1>2 DEF dist, Slots
    <3>3. buf[first] = metricsAdded - size + 1 + 0
      BY <1>1, <1>2, <2>1, <3>2 DEF RingHoldsNewest
    <3> QED
      BY <1>2, <3>1, <3>3
  <2>6. IsRun(<<lo + 1>>, lo, 1)
    <3>1. lo + 1 \in Metrics
      <4>1. Contents \in Seq(Metrics) /\ Contents # <<>>
        BY <1>5, <1>6, <2>1 DEF IsRun
      <4> QED
        BY <2>2, <4>1
    <3> QED
      BY <1>2, <3>1 DEF IsRun
  <2>7. rejects' = [k \in Metrics |-> rejects[k] + Occurrences(k, <<lo + 1>>)]
    BY <1>3, <1>11, <2>5, Zenon
  <2>8. {k \in Metrics : rejects'[k] > 0}
          = {k \in Metrics : rejects[k] > 0} \cup Q!Range(<<lo + 1>>)
    <3>1. Calls(rejects, rejects', <<lo + 1>>)
      BY <1>2, <2>6, <2>7, Zenon DEF Calls
    <3> QED
      BY <3>1, CallsSettle, Zenon
  <2>9. Q!Range(<<lo + 1>>) = {Head(Contents)}
    BY <2>2 DEF Q!Range
  <2>10. Q!QAdd(m)
    BY <1>3, <1>6, <1>7, <1>8, <1>9, <1>11, <2>4, <2>8, <2>9 DEF Q!QAdd
  <2> QED
    BY <2>10, Zenon
<1> QED
  BY <1>10, <1>11

(* Batch takes the oldest metrics from the front of the queue. *)
LEMMA BatchRefines ==
  ASSUME IInv, IInv', batch = <<>>, Batch
  PROVE  Q!QBatch
<1> DEFINE n  == min(size, MetricBatchSize)
           lo == metricsAdded - size
<1>1. /\ size \in Nat /\ size <= Cap /\ metricsAdded \in Nat
      /\ MetricBatchSize \in Nat \ {0} /\ TypeOK /\ TypeOK'
  BY Integers_, BufferAssumption DEF IInv
<1>2. n \in 0..size /\ (n = 0 => size = 0)
  BY <1>1 DEF min
<1>3. IsRun(Contents, lo, size) /\ IsRun(Contents', metricsAdded' - size', size')
  BY RingRun, NextRun DEF ContentsRun
<1>4. Len(Contents) = size /\ Q!smaller(Len(Contents), MetricBatchSize) = n
  BY <1>3 DEF IsRun, Q!smaller, min
<1>5. IsRun(SubSeq(Contents, 1, n), lo, n) /\ IsRun(SubSeq(Contents, n + 1, size), lo + n, size - n)
  BY <1>2, <1>3, RunParts
<1>6. /\ metricsAdded' = metricsAdded /\ accepts' = accepts /\ rejects' = rejects
      /\ size' = size - n
  BY <1>1, <1>2 DEF Batch, ring, stats
<1>7. Contents' = SubSeq(Contents, n + 1, size)
  <2>1. metricsAdded' - size' = lo + n
    BY <1>1, <1>2, <1>6
  <2>2. IsRun(Contents', lo + n, size - n)
    BY <1>3, <1>6, <2>1, Zenon
  <2> QED
    BY <1>5, <2>2, RunEqual, Zenon
<1>8. batch' = SubSeq(Contents, 1, n)
  <2>1. CASE n = 0
    BY <1>5, <2>1 DEF Batch, IsRun
  <2>2. CASE n # 0
    <3>1. batch' = [i \in 1..n |-> buf[nextby(first, i - 1)]]
      BY <2>2 DEF Batch
    <3>2. \A i \in 1..n : batch'[i] = Contents[i]
      BY <1>1, <1>2, <3>1 DEF Contents
    <3>3. \A i \in 1..n : Contents[i] = lo + i
      <4>1. \A i \in 1..size : Contents[i] = lo + i
        BY <1>3, Zenon DEF IsRun
      <4> QED
        BY <1>1, <1>2, <4>1
    <3>4. batch' \in Seq(Metrics)
      BY DEF IInv, TypeOK
    <3>5. DOMAIN batch' = 1..n
      BY <3>1
    <3>6. Len(batch') = n
      BY <1>1, <1>2, <3>4, <3>5
    <3>7. IsRun(batch', lo, n)
      BY <1>1, <1>2, <3>2, <3>3, <3>4, <3>6 DEF IsRun
    <3> QED
      BY <1>5, <3>7, RunEqual, Zenon
  <2> QED
    BY <2>1, <2>2
<1> QED
  BY <1>4, <1>6, <1>7, <1>8 DEF Q!QBatch

(* Accept counts the batch as written and leaves the queue alone. *)
LEMMA AcceptRefines ==
  ASSUME IInv, IInv', batch # <<>>, Accept
  PROVE  Q!QAccept
<1>1. /\ accepts' = [m \in Metrics |-> accepts[m] + Occurrences(m, batch)]
      /\ batch' = <<>> /\ rejects' = rejects
      /\ buf' = buf /\ size' = size /\ first' = first
  BY DEF Accept, metricWritten
<1>2. accepts \in [Metrics -> Nat]
  BY DEF IInv, TypeOK
<1>3. {m \in Metrics : accepts'[m] > 0} = {m \in Metrics : accepts[m] > 0} \cup Q!Range(batch)
  <2>1. \E lo, n : IsRun(batch, lo, n)
    BY BatchRun, Zenon
  <2>2. Calls(accepts, accepts', batch)
    BY <1>1, <1>2, <2>1, Zenon DEF Calls
  <2> QED
    BY <2>2, CallsSettle, Zenon
<1>4. Contents' = Contents
  BY <1>1 DEF Contents, nextby
<1> QED
  BY <1>1, <1>3, <1>4 DEF Q!QAccept

(* Reject puts the newest metrics of the batch back in front of the queue, *)
(* as many as the limit leaves room for, and drops the others.             *)
LEMMA RejectRefines ==
  ASSUME IInv, IInv', Reject
  PROVE  Q!QReject
<1> DEFINE n       == Len(batch)
           restore == min(n, Cap - size)
           skip    == n - restore
           out     == SubSeq(batch, 1, skip)
           lo      == batch[1] - 1
           all     == batch \o Contents
<1>1. /\ batch # <<>> /\ size' = min(size + restore, Cap)
      /\ rejects' = [m \in Metrics |-> rejects[m] + Occurrences(m, out)]
      /\ batch' = <<>> /\ metricsAdded' = metricsAdded /\ accepts' = accepts
  BY DEF Reject, metricDropped
<1>2. /\ size \in Nat /\ size <= Cap /\ metricsAdded \in Nat /\ Cap \in Nat \ {0}
      /\ rejects \in [Metrics -> Nat] /\ batch \in Seq(Metrics)
  BY Integers_, BufferAssumption DEF IInv, TypeOK
<1>3. /\ IsRun(batch, lo, n) /\ n \in 1..Cap
      /\ size < Cap => lo = metricsAdded - size - n
  BY <1>1, BatchRun
<1>4. IsRun(Contents, metricsAdded - size, size) /\ IsRun(Contents', metricsAdded' - size', size')
  BY RingRun, NextRun DEF ContentsRun
<1>5. Contents \in Seq(Metrics) /\ Len(Contents) = size /\ lo \in Int
  BY <1>3, <1>4 DEF IsRun
<1>6. Len(all) = n + size
  BY <1>2, <1>5, ConcatProperties, Zenon
<1>7. /\ skip \in 0..n /\ skip = IF n + size > Cap THEN n + size - Cap ELSE 0
      /\ size' = (n + size) - skip
  <2> HIDE DEF n
  <2>1. CASE Cap - size < n
    <3>1. restore = Cap - size
      BY <2>1 DEF min
    <3>2. size' = Cap
      <4>1. size + restore = Cap
        BY <1>2, <3>1
      <4> HIDE DEF restore
      <4> QED
        BY <1>1, <1>2, <4>1 DEF min
    <3> QED
      BY <1>2, <1>3, <2>1, <3>1, <3>2
  <2>2. CASE ~(Cap - size < n)
    <3>1. restore = n
      BY <2>2 DEF min
    <3>2. size' = size + n
      BY <1>1, <1>2, <1>3, <2>2, <3>1 DEF min
    <3> QED
      BY <1>2, <1>3, <2>2, <3>1, <3>2
  <2> QED
    BY <2>1, <2>2
<1>8. IsRun(out, lo, skip)
  BY <1>3, <1>7, RunParts
<1>9. {m \in Metrics : rejects'[m] > 0} = {m \in Metrics : rejects[m] > 0} \cup Q!Range(out)
  <2>1. Calls(rejects, rejects', out)
    BY <1>1, <1>2, <1>8, Zenon DEF Calls
  <2> QED
    BY <2>1, CallsSettle, Zenon
<1>10. /\ n \in Nat \ {0} /\ skip \in Nat /\ skip <= n
       /\ size' = (n + size) - skip /\ metricsAdded' = metricsAdded
       /\ n + size > Cap => skip = n + size - Cap
       /\ ~(n + size > Cap) => skip = 0
  <2>1. metricsAdded' = metricsAdded
    BY <1>1
  <2> HIDE DEF n, skip
  <2> QED
    BY <1>2, <1>3, <1>7, <2>1
<1> HIDE DEF n, restore, skip, out, lo, all
<1>11. /\ Contents' = SubSeq(all, skip + 1, n + size)
       /\ out = SubSeq(all, 1, skip)
  <2>1. CASE size < Cap
    <3>1. lo + n = metricsAdded - size
      BY <1>2, <1>3, <1>5, <2>1
    <3>2. IsRun(Contents, lo + n, size)
      BY <1>4, <3>1, Zenon
    <3>3. IsRun(all, lo, n + size)
      BY <1>3, <3>2, RunConcat, Zenon DEF all
    <3>4. skip \in 0..(n + size)
      BY <1>2, <1>3, <1>7
    <3>5. /\ IsRun(SubSeq(all, 1, skip), lo, skip)
          /\ IsRun(SubSeq(all, skip + 1, n + size), lo + skip, (n + size) - skip)
      <4> DEFINE w == n + size
      <4>1. IsRun(all, lo, w) /\ skip \in 0..w
        BY <3>3, <3>4
      <4> HIDE DEF w
      <4>2. /\ IsRun(SubSeq(all, 1, skip), lo, skip)
            /\ IsRun(SubSeq(all, skip + 1, w), lo + skip, w - skip)
        BY <4>1, RunParts
      <4> QED
        BY <4>2 DEF w
    <3>6. metricsAdded' - size' = lo + skip
      BY <1>2, <1>5, <1>10, <3>1
    <3>7. IsRun(Contents', lo + skip, (n + size) - skip)
      BY <1>4, <1>7, <3>6, Zenon
    <3> QED
      BY <1>8, <3>5, <3>7, RunEqual, Zenon
  <2>2. CASE size = Cap
    <3>1. skip = n /\ size' = size /\ metricsAdded' - size' = metricsAdded - size
      BY <1>2, <1>10, <2>2
    <3>2. Contents' = Contents
      BY <1>4, <3>1, RunEqual, Zenon
    <3>3. SubSeq(all, 1, n) = SubSeq(batch, 1, n)
      <4>1. 1 \in 1..Len(batch) /\ n \in 1..Len(batch)
        BY <1>2, <1>3 DEF n
      <4> QED
        BY <1>2, <1>5, <4>1, SubSeqOfConcat1, Zenon DEF all
    <3>4. SubSeq(all, n + 1, n + size) = SubSeq(Contents, 1, size)
      <4>1. /\ n + 1 \in (Len(batch) + 1)..(Len(batch) + Len(Contents))
            /\ n + size \in (Len(batch) + 1)..(Len(batch) + Len(Contents))
            /\ (n + 1) - Len(batch) = 1 /\ (n + size) - Len(batch) = size
        BY <1>2, <1>3, <1>5, <2>2 DEF n
      <4> DEFINE a == n + 1
                 b == n + size
      <4> HIDE DEF a, b
      <4>2. SubSeq(all, a, b) = SubSeq(Contents, a - Len(batch), b - Len(batch))
        <5>1. /\ a \in (Len(batch) + 1)..(Len(batch) + Len(Contents))
              /\ b \in (Len(batch) + 1)..(Len(batch) + Len(Contents))
          BY <4>1 DEF a, b
        <5> QED
          BY <1>2, <1>5, <5>1, SubSeqOfConcat2 DEF all
      <4> QED
        BY <4>1, <4>2, Zenon DEF a, b
    <3>5. SubSeq(Contents, 1, size) = Contents
      <4>1. size \in 0..size
        BY <1>2
      <4>2. IsRun(SubSeq(Contents, 1, size), metricsAdded - size, size)
        BY <1>4, <4>1, RunParts, Zenon
      <4> QED
        BY <1>4, <4>2, RunEqual, Zenon
    <3> QED
      BY <3>1, <3>2, <3>3, <3>4, <3>5, Zenon DEF out
  <2> QED
    BY <1>2, <2>1, <2>2
<1>12. (IF Len(all) > Cap THEN Len(all) - Cap ELSE 0) = skip
  BY <1>2, <1>6, <1>10
<1> QED
  BY <1>1, <1>6, <1>9, <1>11, <1>12, Zenon DEF Q!QReject, all

(* A step of the buffer is a step of the queue. *)
LEMMA StepRefines == IInv /\ IInv' /\ [Next]_vars => [Q!QNext]_Q!qvars
<1> SUFFICES ASSUME IInv, IInv', [Next]_vars PROVE [Q!QNext]_Q!qvars
  OBVIOUS
<1>1. CASE Add
  BY <1>1, AddRefines, Zenon DEF Q!QNext
<1>2. CASE batch = <<>> /\ Batch
  BY <1>2, BatchRefines DEF Q!QNext
<1>3. CASE batch # <<>> /\ Accept
  BY <1>3, AcceptRefines DEF Q!QNext
<1>4. CASE Reject
  BY <1>4, RejectRefines DEF Q!QNext
<1>5. CASE UNCHANGED vars
  <2>1. UNCHANGED <<buf, size, first, batch, accepts, rejects>>
    BY <1>5 DEF vars, ring
  <2> QED
    BY <2>1 DEF Q!qvars, Contents, nextby
<1> QED
  BY <1>1, <1>2, <1>3, <1>4, <1>5 DEF Next

(* A new buffer is an empty queue. *)
LEMMA InitRefines == Init => Q!QInit
<1> SUFFICES ASSUME Init PROVE Q!QInit
  OBVIOUS
<1>1. /\ size = 0 /\ batch = <<>>
      /\ accepts = [m \in Metrics |-> 0] /\ rejects = [m \in Metrics |-> 0]
  BY DEF Init, NewBuffer
<1>2. Contents = <<>>
  BY <1>1 DEF Contents
<1> QED
  BY <1>1, <1>2 DEF Q!QInit

(* The ring buffer implements the bounded queue, for every buffer limit    *)
(* and batch size.                                                         *)
THEOREM RefinementCorrect == Spec => ImplementsQueue
  BY InitRefines, StepRefines, Invariance, PTL DEF Spec, ImplementsQueue, Q!QSpec
=============================================================================
