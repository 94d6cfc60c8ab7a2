------------------------------ MODULE Tracking ------------------------------
(***************************************************************************)
(* Tracked metrics, from a consumer input to the outputs and back.         *)
(*   - metric/tracking.go: a group of metrics shares a reference count and *)
(*     verdict counts; whoever brings the count to zero notifies;          *)
(*   - agent/accumulator.go: the notification goes to the channel          *)
(*     delivered, which panics when it is full;                            *)
(*   - plugins/inputs/nats_consumer: the receiver lets at most             *)
(*     MaxUndelivered messages into the agent, counted by a semaphore;     *)
(*   - processors may copy a metric or drop it;                            *)
(*   - agent/agent.go runOutputs: every output but the last gets a copy.   *)
(* A group is its tracking id.  Its metrics differ only in where they are, *)
(* so a place counts the metrics of each group that are there.  Accept and *)
(* Reject count the verdict and then decrement: two steps.  notify is a    *)
(* step of its own after the decrement.  Nothing waits for the goroutine   *)
(* between those steps, so it is a count of such goroutines.               *)
(***************************************************************************)
EXTENDS Integers, Sequences, FiniteSets

CONSTANTS MaxUndelivered,   \* max_undelivered_messages
          MaxMessages,      \* bound on the messages received
          MaxGroup,         \* bound on the metrics parsed from a message
          Outputs,          \* number of outputs
          Processors        \* what the pipeline may do to a metric

ASSUME TrackingAssumption ==
  /\ MaxUndelivered \in Nat \ {0}
  /\ MaxMessages \in Nat /\ MaxGroup \in Nat
  /\ Outputs \in Nat \ {0}
  /\ Processors \subseteq {"pass", "clone", "drop"}

Ids == 1..MaxMessages
None == 0

VARIABLES
  lastID,
  rc, acceptCount, rejectCount,      \* trackingData of each group
  delivered,                         \* channel of trackingAccumulator
  sem, pcR,                          \* receiver
  hand,                              \* metrics the receiver has yet to add
  piped, ready,                      \* metrics before, after the processors
  fan, fanNext,                      \* runOutputs: group in hand, next output
  held,                              \* metrics in the buffers of the outputs
  settling,                          \* goroutines that have yet to decrement
  notifying,                         \* goroutines that have yet to notify
  panicked,                          \* "negative refcount" or "channel is full"
  report                             \* history: notifications sent for a group

dataVars == <<rc, acceptCount, rejectCount>>
recvVars == <<lastID, sem, pcR, hand>>
fanVars  == <<fan, fanNext>>
vars == <<recvVars, dataVars, delivered, piped, ready, fanVars, held,
          settling, notifying, panicked, report>>

Init ==
  /\ lastID = 0
  /\ rc = [g \in Ids |-> 0]
  /\ acceptCount = [g \in Ids |-> 0] /\ rejectCount = [g \in Ids |-> 0]
  /\ delivered = <<>> /\ sem = 0 /\ pcR = "select"
  /\ hand = [g \in Ids |-> 0] /\ piped = [g \in Ids |-> 0]
  /\ ready = [g \in Ids |-> 0]
  /\ fan = None /\ fanNext = 0
  /\ held = [g \in Ids |-> 0]
  /\ settling = [g \in Ids |-> 0] /\ notifying = [g \in Ids |-> 0]
  /\ panicked = {}
  /\ report = [g \in Ids |-> <<>>]

Inc(f, g) == [f EXCEPT ![g] = @ + 1]
Dec(f, g) == [f EXCEPT ![g] = @ - 1]

-----------------------------------------------------------------------------
(* metric/tracking.go, on a metric of group g. *)

(* Copy: count the reference before the copy exists. *)
CopyCount_Missing(g) == UNCHANGED rc
CopyCount(g) == rc' = Inc(rc, g)

(* Accept and Reject count their verdict first. *)
accept(g) == acceptCount' = Inc(acceptCount, g) /\ UNCHANGED rejectCount
reject(g) == rejectCount' = Inc(rejectCount, g) /\ UNCHANGED acceptCount

(* Drop, and the second half of Accept and Reject. *)
LastReference_Early(v) == v <= 1
LastReference_Below(v) == v < 0
LastReference(v) == v = 0

decr(g) ==
  /\ rc' = Dec(rc, g)
  /\ panicked' = IF rc'[g] < 0 THEN panicked \cup {"negative refcount"}
                               ELSE panicked
  /\ notifying' = IF LastReference(rc'[g]) THEN Inc(notifying, g) ELSE notifying

(* onDelivery: send the delivery information unless the channel is full.   *)
Notify(g) ==
  /\ notifying[g] > 0 /\ notifying' = Dec(notifying, g)
  /\ LET info == [id |-> g, accepted |-> acceptCount[g], rejected |-> rejectCount[g]]
     IN IF Len(delivered) < MaxUndelivered
          THEN /\ delivered' = Append(delivered, info)
               /\ report' = [report EXCEPT ![g] = Append(@, info)]
               /\ UNCHANGED panicked
          ELSE /\ panicked' = panicked \cup {"channel is full"}
               /\ UNCHANGED <<delivered, report>>
  /\ UNCHANGED <<recvVars, dataVars, piped, ready, fanVars, held, settling>>

(* An Accept or Reject that has counted its verdict decrements. *)
Settle(g) ==
  /\ settling[g] > 0 /\ settling' = Dec(settling, g)
  /\ decr(g)
  /\ UNCHANGED <<recvVars, acceptCount, rejectCount, delivered, piped, ready,
                 fanVars, held, report>>

-----------------------------------------------------------------------------
(* The receiver of the consumer. *)

RecvOnly == UNCHANGED <<acceptCount, rejectCount, ready, fanVars, held,
                        settling>>
RecvLocal == RecvOnly /\ UNCHANGED <<lastID, rc, hand, piped, notifying,
                                     panicked, report>>

(* Either select takes a notification.  In the inner one the receiver has  *)
(* a slot of its own to give back as well.                                 *)
Releases_Once == 1
Releases == IF pcR = "inner" THEN 2 ELSE 1

RecvDelivered ==
  /\ pcR \in {"select", "inner"} /\ delivered # <<>>
  /\ delivered' = Tail(delivered)
  /\ pcR' = IF Releases = 2 THEN "release2" ELSE "release"
  /\ UNCHANGED sem
  /\ RecvLocal

(* "<-sem" waits for a slot to give back. *)
RecvRelease ==
  /\ pcR \in {"release", "release2"} /\ sem > 0
  /\ sem' = sem - 1
  /\ pcR' = IF pcR = "release2" THEN "release" ELSE "select"
  /\ UNCHANGED delivered
  /\ RecvLocal

(* The outer select: a free slot. *)
SlotFree == sem < MaxUndelivered

RecvAcquire ==
  /\ pcR = "select" /\ pcR' = "inner"
  /\ SlotFree
  /\ sem' = sem + 1
  /\ UNCHANGED delivered
  /\ RecvLocal

(* The inner select: an error of the connection, or a message that does    *)
(* not parse.  The outer select logs an error and changes nothing.         *)
RecvError ==
  /\ pcR = "inner" /\ pcR' = "release"
  /\ UNCHANGED <<sem, delivered>>
  /\ RecvLocal

(* A message of n metrics: newTrackingMetricGroup counts them all before   *)
(* the first is added, and notifies at once when there are none.           *)
RecvMessage(n) ==
  /\ pcR = "inner" /\ pcR' = "adding"
  /\ lastID < MaxMessages /\ lastID' = lastID + 1
  /\ rc' = [rc EXCEPT ![lastID'] = n]
  /\ hand' = [hand EXCEPT ![lastID'] = n]
  /\ notifying' = IF n = 0 THEN Inc(notifying, lastID') ELSE notifying
  /\ UNCHANGED <<sem, delivered, piped, panicked, report>>
  /\ RecvOnly

(* AddMetric: MakeMetric keeps the metric or drops it. *)
RecvAdd ==
  /\ pcR = "adding" /\ hand[lastID] > 0
  /\ hand' = Dec(hand, lastID) /\ piped' = Inc(piped, lastID)
  /\ UNCHANGED <<lastID, sem, pcR, rc, notifying, panicked, delivered, report>>
  /\ RecvOnly

RecvFiltered ==
  /\ pcR = "adding" /\ hand[lastID] > 0
  /\ hand' = Dec(hand, lastID)
  /\ decr(lastID)
  /\ UNCHANGED <<lastID, sem, pcR, piped, delivered, report>>
  /\ RecvOnly

RecvAdded ==
  /\ pcR = "adding" /\ pcR' = "select"
  /\ hand[lastID] = 0
  /\ UNCHANGED <<sem, delivered>>
  /\ RecvLocal

(* Either select finds the context done. *)
RecvStop ==
  /\ pcR \in {"select", "inner"} /\ pcR' = "returned"
  /\ UNCHANGED <<sem, delivered>>
  /\ RecvLocal

-----------------------------------------------------------------------------
(* A processor does one of these to a metric it receives; n metrics go on. *)

ProcTake(g, n) ==
  /\ piped[g] > 0 /\ piped' = Dec(piped, g)
  /\ ready' = [ready EXCEPT ![g] = @ + n]
  /\ UNCHANGED <<recvVars, rejectCount, delivered, fanVars, held, report>>

ProcPass(g) ==
  /\ "pass" \in Processors /\ ProcTake(g, 1)
  /\ UNCHANGED <<rc, acceptCount, settling, notifying, panicked>>

(* clone passes the metric and a copy of it. *)
ProcClone(g) ==
  /\ "clone" \in Processors /\ ProcTake(g, 2)
  /\ CopyCount(g)
  /\ UNCHANGED <<acceptCount, settling, notifying, panicked>>

(* A filter that leaves no fields, topk, an aggregator with drop_original. *)
ProcDrop(g) ==
  /\ "drop" \in Processors /\ ProcTake(g, 0)
  /\ decr(g)
  /\ UNCHANGED <<acceptCount, settling>>

-----------------------------------------------------------------------------
(* runOutputs and the outputs. *)

OutOnly == UNCHANGED <<recvVars, delivered, piped, report>>

FanTake(g) ==
  /\ fan = None /\ fan' = g /\ fanNext' = 1
  /\ ready[g] > 0 /\ ready' = Dec(ready, g)
  /\ UNCHANGED <<dataVars, held, settling, notifying, panicked>>
  /\ OutOnly

(* The output after which runOutputs is through with the metric gets the   *)
(* metric, the others a copy.                                              *)
IsOriginal_First(i) == i = 1
IsOriginal(i) == i = Outputs

FanOut ==
  /\ fan # None
  /\ held' = Inc(held, fan)
  /\ IF IsOriginal(fanNext) THEN UNCHANGED rc ELSE CopyCount(fan)
  /\ fan' = IF fanNext = Outputs THEN None ELSE fan
  /\ fanNext' = IF fanNext = Outputs THEN 0 ELSE fanNext + 1
  /\ UNCHANGED <<acceptCount, rejectCount, ready, settling, notifying, panicked>>
  /\ OutOnly

(* The output wrote the metric, dropped it because its buffer is full, or  *)
(* filtered it.                                                            *)
OutAccept(g) ==
  /\ held[g] > 0 /\ held' = Dec(held, g)
  /\ accept(g)
  /\ settling' = Inc(settling, g)
  /\ UNCHANGED <<rc, ready, fanVars, notifying, panicked>>
  /\ OutOnly

OutReject(g) ==
  /\ held[g] > 0 /\ held' = Dec(held, g)
  /\ reject(g)
  /\ settling' = Inc(settling, g)
  /\ UNCHANGED <<rc, ready, fanVars, notifying, panicked>>
  /\ OutOnly

OutFiltered(g) ==
  /\ held[g] > 0 /\ held' = Dec(held, g)
  /\ decr(g)
  /\ UNCHANGED <<acceptCount, rejectCount, ready, fanVars, settling>>
  /\ OutOnly

-----------------------------------------------------------------------------
Receiver ==
  \/ RecvRelease \/ RecvAcquire \/ RecvAdd \/ RecvFiltered \/ RecvAdded
  \/ \E n \in 0..MaxGroup : RecvMessage(n)

Processing(g) ==
  \/ ProcPass(g) \/ ProcClone(g) \/ ProcDrop(g)

Handling(g) ==
  \/ Processing(g) \/ OutAccept(g) \/ OutReject(g) \/ OutFiltered(g)
  \/ Settle(g) \/ Notify(g)

Next ==
  \/ Receiver \/ RecvDelivered \/ RecvError \/ RecvStop
  \/ FanOut
  \/ \E g \in Ids : FanTake(g) \/ Handling(g)

Spec == Init /\ [][Next]_vars

(* Someone gets on with the metrics of each group, the outputs settle what *)
(* they hold, the channel to runOutputs is a queue, and select is fair to  *)
(* a notification.                                                         *)
FairSpec ==
  /\ Spec
  /\ WF_vars(Receiver) /\ SF_vars(RecvDelivered)
  /\ WF_vars(FanOut)
  /\ \A g \in Ids : WF_vars(Handling(g)) /\ SF_vars(FanTake(g))

-----------------------------------------------------------------------------
Created == 1..lastID
Unnotified == {g \in Created : report[g] = <<>>}
InChannel == {delivered[i].id : i \in DOMAIN delivered}

(* Counts of metrics and goroutines are never negative, and the semaphore  *)
(* of the receiver stays within its capacity.                              *)
TypeOK ==
  /\ lastID \in 0..MaxMessages
  /\ rc \in [Ids -> Int]
  /\ {acceptCount, rejectCount, hand, piped, ready, held, settling, notifying}
       \subseteq [Ids -> Nat]
  /\ delivered \in Seq([id : Ids, accepted : Nat, rejected : Nat])
  /\ sem \in 0..MaxUndelivered
  /\ pcR \in {"select", "inner", "release", "release2", "adding", "returned"}
  /\ fan \in Ids \cup {None} /\ fanNext \in 0..Outputs
  /\ panicked \subseteq {"negative refcount", "channel is full"}

(* No reference count goes below zero and onDelivery always finds room in  *)
(* the channel: neither panic of tracking.go and accumulator.go happens.   *)
NoPanic == panicked = {}

(* The references of a group are the metrics and copies of it that         *)
(* somebody has in hand and will settle: none is lost, none settled twice. *)
RefsExact ==
  \A g \in Ids :
    rc[g] = hand[g] + piped[g] + ready[g] + held[g] + settling[g]
            + (IF fan = g THEN 1 ELSE 0)

(* The input hears of a group once, when nobody has a metric of the group  *)
(* in hand any more, and what it hears are the final counts, although      *)
(* verdicts and decrements of other goroutines come in between.            *)
ReportFinal ==
  \A g \in Ids : report[g] # <<>> =>
    /\ report[g] = <<[id |-> g, accepted |-> acceptCount[g],
                      rejected |-> rejectCount[g]]>>
    /\ rc[g] = 0 /\ notifying[g] = 0
    /\ fan # g
    /\ hand[g] + piped[g] + ready[g] + held[g] + settling[g] = 0

(* Slots the receiver itself is about to use or give back. *)
Own ==
  IF pcR = "release2" THEN 2 ELSE IF pcR \in {"inner", "release"} THEN 1 ELSE 0

(* While the receiver runs, each slot of its semaphore is a message in the *)
(* agent, a notification it has not read, or one it is about to use or     *)
(* give back.  The two releases of the inner select match what was taken.  *)
SlotsExact ==
  pcR # "returned" => sem = Len(delivered) + Cardinality(Unnotified) + Own

(* Every message is reported back and its slot is freed, unless the input  *)
(* is stopped.                                                             *)
EveryGroupReported ==
  \A g \in Ids :
    g <= lastID ~> (report[g] # <<>> /\ g \notin InChannel) \/ pcR = "returned"
=============================================================================
