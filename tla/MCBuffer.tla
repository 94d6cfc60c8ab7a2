------------------------------ MODULE MCBuffer ------------------------------
(* Model checking Buffer, alone and as an implementation of BufferQueue.   *)
EXTENDS Buffer

(* The queue a ring stands for: its live slots, read from first. *)
Contents == [i \in 1..size |-> buf[nextby(first, i - 1)]]

Q == INSTANCE BufferQueue WITH
       Limit      <- Cap,
       BatchLimit <- MetricBatchSize,
       Items      <- Metrics,
       queue      <- Contents,
       inFlight   <- batch,
       written    <- {m \in Metrics : accepts[m] > 0},
       dropped    <- {m \in Metrics : rejects[m] > 0}

(* The ring implements the bounded queue: every method of the buffer has   *)
(* the effect of the queue operation it stands for, on the same metrics.   *)
ImplementsQueue == Q!QSpec
=============================================================================
