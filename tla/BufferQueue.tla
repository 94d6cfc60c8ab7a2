----------------------------- MODULE BufferQueue -----------------------------
(***************************************************************************)
(* What the buffer of an output promises (models/buffer.go), without ring, *)
(* indices or counters: a bounded first-in first-out queue with one batch  *)
(* out at a time.  A full queue drops its oldest metric to admit a new     *)
(* one; a batch that could not be written goes back in front of the queue  *)
(* and gives way, oldest first, to what was added meanwhile.               *)
(***************************************************************************)
EXTENDS Integers, Sequences, Functions

CONSTANTS Limit, BatchLimit, Items

VARIABLES
  queue,     \* metrics waiting, oldest first
  inFlight,  \* the batch with the writer
  written,   \* metrics accepted so far
  dropped    \* metrics rejected so far

qvars == <<queue, inFlight, written, dropped>>

smaller(a, b) == IF b < a THEN b ELSE a

QInit ==
  /\ queue = <<>> /\ inFlight = <<>>
  /\ written = {} /\ dropped = {}

(* m is new: it was never seen before. *)
QAdd(m) ==
  LET full == Len(queue) = Limit IN
  /\ m \notin written \cup dropped \cup Range(queue) \cup Range(inFlight)
  /\ queue' = Append(IF full THEN Tail(queue) ELSE queue, m)
  /\ dropped' = IF full THEN dropped \cup {Head(queue)} ELSE dropped
  /\ UNCHANGED <<inFlight, written>>

QBatch ==
  LET n == smaller(Len(queue), BatchLimit) IN
  /\ inFlight = <<>>
  /\ inFlight' = SubSeq(queue, 1, n)
  /\ queue' = SubSeq(queue, n + 1, Len(queue))
  /\ UNCHANGED <<written, dropped>>

QAccept ==
  /\ written' = written \cup Range(inFlight)
  /\ inFlight' = <<>>
  /\ UNCHANGED <<queue, dropped>>

QReject ==
  LET all  == inFlight \o queue
      over == IF Len(all) > Limit THEN Len(all) - Limit ELSE 0
  IN
  /\ queue' = SubSeq(all, over + 1, Len(all))
  /\ dropped' = dropped \cup Range(SubSeq(all, 1, over))
  /\ inFlight' = <<>>
  /\ UNCHANGED written

QNext == (\E m \in Items : QAdd(m)) \/ QBatch \/ QAccept \/ QReject

QSpec == QInit /\ [][QNext]_qvars
=============================================================================
