--------------------------- MODULE TrackingProofs ---------------------------
(***************************************************************************)
(* Tracked metrics for any number of messages, metrics, outputs and slots. *)
(* The inductive invariant says of a group which of three things holds of  *)
(* it: somebody has one of its metrics, one goroutine is about to notify,  *)
(* or the notification was sent; and of the semaphore that it covers the   *)
(* groups not notified yet together with the channel.                      *)
(***************************************************************************)
EXTENDS Tracking, FiniteSetTheorems, TLAPS

Info == [id : Ids, accepted : Nat, rejected : Nat]
InfoOf(g) == [id |-> g, accepted |-> acceptCount[g], rejected |-> rejectCount[g]]
Fanned(g) == IF fan = g THEN 1 ELSE 0

TypeInv ==
  /\ lastID \in 0..MaxMessages /\ rc \in [Ids -> Int]
  /\ acceptCount \in [Ids -> Nat] /\ rejectCount \in [Ids -> Nat]
  /\ hand \in [Ids -> Nat] /\ piped \in [Ids -> Nat] /\ ready \in [Ids -> Nat]
  /\ held \in [Ids -> Nat] /\ settling \in [Ids -> Nat] /\ notifying \in [Ids -> Nat]
  /\ delivered \in Seq(Info) /\ report \in [Ids -> Seq(Info)]
  /\ sem \in Nat
  /\ pcR \in {"select", "inner", "release", "release2", "adding", "returned"}
  /\ pcR = "adding" => lastID \in Ids
  /\ fan \in Ids \cup {None} /\ fanNext \in 0..Outputs
  /\ fan # None => fanNext # 0

(* The three stages of a group that was created. *)
Live(g) == rc[g] > 0 /\ notifying[g] = 0 /\ report[g] = <<>>
Ending(g) == rc[g] = 0 /\ notifying[g] = 1 /\ report[g] = <<>>
Reported(g) == rc[g] = 0 /\ notifying[g] = 0 /\ report[g] = <<InfoOf(g)>>

Refs(g) == rc[g] = hand[g] + piped[g] + ready[g] + held[g] + settling[g] + Fanned(g)
Stage(g) ==
  IF g <= lastID THEN Live(g) \/ Ending(g) \/ Reported(g)
                 ELSE rc[g] = 0 /\ notifying[g] = 0 /\ report[g] = <<>>

(* The slots cover what is in the agent, also after the receiver returned. *)
SlotInv ==
  /\ sem <= MaxUndelivered
  /\ Len(delivered) + Cardinality(Unnotified) + Own <= sem
  /\ pcR # "returned" => sem = Len(delivered) + Cardinality(Unnotified) + Own

GroupInv == \A g \in Ids : Refs(g) /\ Stage(g)
IInv == TypeInv /\ GroupInv /\ SlotInv /\ NoPanic

-----------------------------------------------------------------------------
(* The numbers that Inc and Dec give. *)
LEMMA IncAt ==
  ASSUME NEW f, NEW g \in Ids,
         f \in [Ids -> Int]
  PROVE  /\ Inc(f, g) \in [Ids -> Int] /\ Dec(f, g) \in [Ids -> Int]
         /\ Inc(f, g)[g] = f[g] + 1 /\ Dec(f, g)[g] = f[g] - 1
         /\ \A h \in Ids : h # g => Inc(f, g)[h] = f[h] /\ Dec(f, g)[h] = f[h]
  BY DEF Inc, Dec

(* Counts stay counts. *)
LEMMA IncNat ==
  ASSUME NEW f, NEW g \in Ids, f \in [Ids -> Nat]
  PROVE  /\ f \in [Ids -> Int] /\ f[g] \in Nat
         /\ Inc(f, g) \in [Ids -> Nat]
         /\ f[g] > 0 => Dec(f, g) \in [Ids -> Nat]
<1>1. \A h \in Ids : f[h] \in Nat
  OBVIOUS
<1> QED
  BY <1>1 DEF Inc, Dec

(* Whoever has a metric of a group in hand finds the group live. *)
LEMMA HasMetric ==
  ASSUME TypeInv, GroupInv, NEW g \in Ids,
         hand[g] > 0 \/ piped[g] > 0 \/ ready[g] > 0 \/ held[g] > 0 \/ settling[g] > 0
           \/ fan = g
  PROVE  g <= lastID /\ Live(g)
<1>1. /\ hand[g] \in Nat /\ piped[g] \in Nat /\ ready[g] \in Nat /\ held[g] \in Nat
      /\ settling[g] \in Nat /\ Fanned(g) \in Nat /\ (fan = g => Fanned(g) = 1)
  BY DEF TypeInv, Fanned
<1>2. rc[g] = hand[g] + piped[g] + ready[g] + held[g] + settling[g] + Fanned(g)
  BY DEF GroupInv, Refs
<1>3. rc[g] > 0
  BY <1>1, <1>2
<1> QED
  BY <1>3 DEF GroupInv, Stage, Ending, Reported

(* A decrement by somebody who has a metric of the group. *)
LEMMA DecrEffect ==
  ASSUME TypeInv, NEW g \in Ids, Live(g), decr(g)
  PROVE  /\ rc' \in [Ids -> Int] /\ notifying' \in [Ids -> Nat] /\ panicked' = panicked
         /\ rc'[g] = rc[g] - 1
         /\ notifying'[g] = IF rc'[g] = 0 THEN 1 ELSE 0
         /\ \A h \in Ids : h # g => rc'[h] = rc[h] /\ notifying'[h] = notifying[h]
<1>1. /\ rc' = Dec(rc, g) /\ rc' \in [Ids -> Int] /\ rc'[g] = rc[g] - 1
      /\ \A h \in Ids : h # g => rc'[h] = rc[h]
  BY IncAt, Zenon DEF decr, TypeInv
<1>2. rc[g] \in Int /\ rc[g] > 0 /\ notifying[g] = 0
  BY DEF TypeInv, Live
<1>3. panicked' = panicked
  <2>1. ~(rc'[g] < 0)
    BY <1>1, <1>2
  <2> QED
    BY <2>1 DEF decr
<1>4. /\ Inc(notifying, g) \in [Ids -> Nat] /\ Inc(notifying, g)[g] = 1
      /\ \A h \in Ids : h # g => Inc(notifying, g)[h] = notifying[h]
  <2>1. notifying \in [Ids -> Nat]
    BY DEF TypeInv
  <2>2. notifying \in [Ids -> Int] /\ Inc(notifying, g) \in [Ids -> Nat]
    BY <2>1, IncNat
  <2> QED
    BY <1>2, <2>2, IncAt
<1>5. notifying' = IF rc'[g] = 0 THEN Inc(notifying, g) ELSE notifying
  BY Zenon DEF decr, LastReference
<1> QED
  BY <1>1, <1>2, <1>3, <1>4, <1>5, Zenon DEF TypeInv

(* Count e differs from count f by n at g. *)
Shift(f, e, g, n) ==
  /\ e \in [Ids -> Nat] /\ e[g] = f[g] + n
  /\ \A h \in Ids : h # g => e[h] = f[h]

(* Inc and Dec shift a count by one. *)
LEMMA IncShift ==
  ASSUME NEW f, NEW g \in Ids, f \in [Ids -> Nat]
  PROVE  Shift(f, Inc(f, g), g, 1) /\ (f[g] > 0 => Shift(f, Dec(f, g), g, -1))
<1>1. f \in [Ids -> Int] /\ f[g] \in Nat
  BY IncNat
<1> QED
  BY <1>1, IncNat, IncAt DEF Shift

(* Nothing of the other groups changes. *)
Only(g) ==
  /\ lastID' = lastID
  /\ \A h \in Ids : h # g => rc'[h] = rc[h] /\ Fanned(h)' = Fanned(h)
  /\ \A h \in Ids : h # g => hand'[h] = hand[h] /\ piped'[h] = piped[h]
  /\ \A h \in Ids : h # g => ready'[h] = ready[h] /\ held'[h] = held[h]
  /\ \A h \in Ids : h # g => settling'[h] = settling[h] /\ notifying'[h] = notifying[h]
  /\ \A h \in Ids : h # g => report'[h] = report[h] /\ InfoOf(h)' = InfoOf(h)

(* Then they are as before. *)
LEMMA OthersStay ==
  ASSUME GroupInv, NEW g \in Ids, Only(g), Refs(g)', Stage(g)'
  PROVE  GroupInv'
<1> SUFFICES ASSUME NEW h \in Ids, h # g PROVE Refs(h)' /\ Stage(h)'
  BY DEF GroupInv
<1>1. Refs(h) /\ Stage(h)
  BY DEF GroupInv
<1>2. Refs(h)'
  BY <1>1 DEF Only, Refs
<1>3. /\ rc'[h] = rc[h] /\ notifying'[h] = notifying[h] /\ report'[h] = report[h]
      /\ InfoOf(h)' = InfoOf(h) /\ lastID' = lastID
  BY DEF Only
<1>4. Stage(h)'
  BY <1>1, <1>3 DEF Stage, Live, Ending, Reported
<1> QED
  BY <1>2, <1>4

(* The values of the counts of one group. *)
LEMMA Values ==
  ASSUME TypeInv, NEW g \in Ids
  PROVE  /\ rc[g] \in Int /\ hand[g] \in Nat /\ piped[g] \in Nat /\ ready[g] \in Nat
         /\ held[g] \in Nat /\ settling[g] \in Nat /\ notifying[g] \in Nat
         /\ Fanned(g) \in {0, 1}
  BY DEF TypeInv, Fanned

(* The steps by which somebody drops a metric of group g, or decrements    *)
(* after a verdict.                                                        *)
LEMMA GroupDrop ==
  ASSUME TypeInv, GroupInv, NEW g \in Ids,
         \/ Settle(g) \/ ProcDrop(g) \/ OutFiltered(g)
         \/ RecvFiltered /\ g = lastID
  PROVE  TypeInv' /\ GroupInv' /\ panicked' = panicked
<1>0. /\ hand \in [Ids -> Nat] /\ piped \in [Ids -> Nat] /\ ready \in [Ids -> Nat]
      /\ held \in [Ids -> Nat] /\ settling \in [Ids -> Nat]
  BY Zenon DEF TypeInv
<1>1. /\ decr(g) /\ UNCHANGED <<lastID, acceptCount, rejectCount, delivered, report, sem,
                              pcR, fan, fanNext>>
      /\ \/ /\ settling[g] > 0 /\ settling' = Dec(settling, g)
            /\ UNCHANGED <<hand, piped, ready, held>>
         \/ /\ piped[g] > 0 /\ piped' = Dec(piped, g) /\ ready' = [ready EXCEPT ![g] = @ + 0]
            /\ UNCHANGED <<hand, settling, held>>
         \/ /\ held[g] > 0 /\ held' = Dec(held, g)
            /\ UNCHANGED <<hand, piped, ready, settling>>
         \/ /\ hand[g] > 0 /\ hand' = Dec(hand, g)
            /\ UNCHANGED <<piped, ready, held, settling>>
  BY DEF Settle, ProcDrop, ProcTake, OutFiltered, RecvFiltered, RecvOnly, OutOnly,
         recvVars, fanVars
<1>2. [ready EXCEPT ![g] = @ + 0] = ready
  BY <1>0
<1>3. /\ \/ /\ settling[g] > 0 /\ Shift(settling, settling', g, -1)
            /\ UNCHANGED <<hand, piped, ready, held>>
         \/ /\ piped[g] > 0 /\ Shift(piped, piped', g, -1)
            /\ UNCHANGED <<hand, ready, settling, held>>
         \/ /\ held[g] > 0 /\ Shift(held, held', g, -1)
            /\ UNCHANGED <<hand, piped, ready, settling>>
         \/ /\ hand[g] > 0 /\ Shift(hand, hand', g, -1)
            /\ UNCHANGED <<piped, ready, held, settling>>
  BY <1>0, <1>1, <1>2, IncShift
<1>4. g <= lastID /\ Live(g)
  BY <1>3, HasMetric
<1>5. /\ rc' \in [Ids -> Int] /\ notifying' \in [Ids -> Nat] /\ panicked' = panicked
      /\ rc'[g] = rc[g] - 1 /\ notifying'[g] = IF rc'[g] = 0 THEN 1 ELSE 0
      /\ \A h \in Ids : h # g => rc'[h] = rc[h] /\ notifying'[h] = notifying[h]
  BY <1>1, <1>4, DecrEffect
<1>6. TypeInv'
  BY <1>0, <1>1, <1>3, <1>5, Zenon DEF TypeInv, Shift
<1>7. Only(g)
  BY <1>1, <1>3, <1>5 DEF Only, Shift, Fanned, InfoOf
<1>8. Refs(g)'
  <2>1. Refs(g)
    BY DEF GroupInv
  <2>2. Fanned(g)' = Fanned(g)
    BY <1>1 DEF Fanned
  <2>3. hand'[g] + piped'[g] + ready'[g] + held'[g] + settling'[g] =
          hand[g] + piped[g] + ready[g] + held[g] + settling[g] - 1
    BY <1>3, Values DEF Shift
  <2> QED
    BY <1>5, <2>1, <2>2, <2>3, Values DEF Refs
<1>9. Stage(g)'
  <2>1. rc[g] \in Int /\ rc[g] > 0 /\ report'[g] = <<>> /\ g <= lastID'
    BY <1>1, <1>4, Values DEF Live
  <2>2. rc'[g] = 0 \/ rc'[g] > 0
    BY <1>5, <2>1
  <2> QED
    BY <1>5, <2>1, <2>2 DEF Stage, Live, Ending
<1> QED
  BY <1>5, <1>6, <1>7, <1>8, <1>9, OthersStay

(* A live group whose references grow with its metrics stays live. *)
LEMMA StaysLive ==
  ASSUME TypeInv, GroupInv, NEW g \in Ids, g <= lastID, Live(g), NEW n \in Nat,
         UNCHANGED <<lastID, notifying, report>>, rc'[g] = rc[g] + n, Only(g),
         hand'[g] + piped'[g] + ready'[g] + held'[g] + settling'[g] + Fanned(g)' =
           hand[g] + piped[g] + ready[g] + held[g] + settling[g] + Fanned(g) + n
  PROVE  GroupInv'
<1>1. Refs(g)'
  <2>1. Refs(g)
    BY DEF GroupInv
  <2> QED
    BY <2>1, Values DEF Refs
<1>2. rc'[g] > 0
  BY Values DEF Live
<1>3. Stage(g)'
  BY <1>2 DEF Stage, Live
<1> QED
  BY <1>1, <1>3, OthersStay

(* The processors that pass or copy a metric. *)
LEMMA GroupProc ==
  ASSUME TypeInv, GroupInv, NEW g \in Ids, ProcPass(g) \/ ProcClone(g)
  PROVE  TypeInv' /\ GroupInv' /\ panicked' = panicked
<1>1. /\ piped[g] > 0 /\ piped' = Dec(piped, g)
      /\ UNCHANGED <<lastID, acceptCount, rejectCount, delivered, report, sem, pcR, fan,
                     fanNext, hand, held, settling, notifying, panicked>>
  BY DEF ProcPass, ProcClone, ProcTake, recvVars, fanVars
<1>2. /\ piped \in [Ids -> Nat] /\ ready \in [Ids -> Nat] /\ rc \in [Ids -> Int]
      /\ ready[g] \in Nat
  BY Zenon DEF TypeInv
<1>3. Shift(piped, piped', g, -1)
  BY <1>1, <1>2, IncShift
<1>4. g <= lastID /\ Live(g)
  BY <1>1, HasMetric
<1>5. PICK n \in {0, 1} : /\ Shift(ready, ready', g, n + 1) /\ rc' \in [Ids -> Int]
                          /\ rc'[g] = rc[g] + n /\ \A h \in Ids : h # g => rc'[h] = rc[h]
  <2>1. CASE ProcPass(g)
    <3>1. ready' = [ready EXCEPT ![g] = @ + 1] /\ rc' = rc
      BY <2>1 DEF ProcPass, ProcTake
    <3> QED
      BY <1>2, <3>1 DEF Shift
  <2>2. CASE ProcClone(g)
    <3>1. ready' = [ready EXCEPT ![g] = @ + 2] /\ rc' = Inc(rc, g)
      BY <2>2 DEF ProcClone, ProcTake, CopyCount
    <3>2. Shift(ready, ready', g, 2)
      BY <1>2, <3>1 DEF Shift
    <3> QED
      BY <1>2, <3>1, <3>2, IncAt
  <2> QED
    BY <2>1, <2>2
<1>6. TypeInv'
  BY <1>1, <1>3, <1>5, Zenon DEF TypeInv, Shift
<1>7. Only(g)
  BY <1>1, <1>3, <1>5 DEF Only, Shift, Fanned, InfoOf
<1>8. hand'[g] + piped'[g] + ready'[g] + held'[g] + settling'[g] + Fanned(g)' =
        hand[g] + piped[g] + ready[g] + held[g] + settling[g] + Fanned(g) + n
  <2>1. Fanned(g)' = Fanned(g)
    BY <1>1 DEF Fanned
  <2> QED
    BY <1>1, <1>3, <1>5, <2>1, Values DEF Shift
<1> QED
  BY <1>1, <1>4, <1>5, <1>6, <1>7, <1>8, StaysLive

(* An output gives its verdict. *)
LEMMA GroupVerdict ==
  ASSUME TypeInv, GroupInv, NEW g \in Ids, OutAccept(g) \/ OutReject(g)
  PROVE  TypeInv' /\ GroupInv' /\ panicked' = panicked
<1>1. /\ held[g] > 0 /\ held' = Dec(held, g) /\ settling' = Inc(settling, g)
      /\ UNCHANGED <<lastID, delivered, report, sem, pcR, fan, fanNext, hand, piped, ready,
                     rc, notifying, panicked>>
  BY DEF OutAccept, OutReject, OutOnly, recvVars, fanVars
<1>2. /\ held \in [Ids -> Nat] /\ settling \in [Ids -> Nat]
      /\ acceptCount \in [Ids -> Nat] /\ rejectCount \in [Ids -> Nat]
  BY Zenon DEF TypeInv
<1>3. Shift(held, held', g, -1) /\ Shift(settling, settling', g, 1)
  BY <1>1, <1>2, IncShift
<1>4. g <= lastID /\ Live(g)
  BY <1>1, HasMetric
<1>5. /\ acceptCount' \in [Ids -> Nat] /\ rejectCount' \in [Ids -> Nat]
      /\ \A h \in Ids : h # g => acceptCount'[h] = acceptCount[h] /\ rejectCount'[h] = rejectCount[h]
  <2>1. Shift(acceptCount, Inc(acceptCount, g), g, 1) /\ Shift(rejectCount, Inc(rejectCount, g), g, 1)
    BY <1>2, IncShift
  <2>2. \/ acceptCount' = Inc(acceptCount, g) /\ rejectCount' = rejectCount
        \/ rejectCount' = Inc(rejectCount, g) /\ acceptCount' = acceptCount
    BY DEF OutAccept, OutReject, accept, reject
  <2> QED
    BY <1>2, <2>1, <2>2 DEF Shift
<1>6. TypeInv'
  BY <1>1, <1>3, <1>5, Zenon DEF TypeInv, Shift
<1>7. Only(g)
  BY <1>1, <1>3, <1>5 DEF Only, Shift, Fanned, InfoOf
<1>8. hand'[g] + piped'[g] + ready'[g] + held'[g] + settling'[g] + Fanned(g)' =
        hand[g] + piped[g] + ready[g] + held[g] + settling[g] + Fanned(g) + 0
  <2>1. Fanned(g)' = Fanned(g)
    BY <1>1 DEF Fanned
  <2> QED
    BY <1>1, <1>3, <2>1, Values DEF Shift
<1>9. rc'[g] = rc[g] + 0
  BY <1>1, Values
<1> QED
  BY <1>1, <1>4, <1>6, <1>7, <1>8, <1>9, StaysLive, Zenon

(* runOutputs takes a metric. *)
LEMMA GroupFanTake ==
  ASSUME TypeInv, GroupInv, NEW g \in Ids, FanTake(g)
  PROVE  TypeInv' /\ GroupInv' /\ panicked' = panicked
<1>1. /\ ready[g] > 0 /\ ready' = Dec(ready, g) /\ fan = None /\ fan' = g /\ fanNext' = 1
      /\ UNCHANGED <<lastID, delivered, report, sem, pcR, hand, piped, held, settling,
                     rc, acceptCount, rejectCount, notifying, panicked>>
  BY DEF FanTake, OutOnly, recvVars, dataVars
<1>2. ready \in [Ids -> Nat] /\ Outputs \in Nat \ {0} /\ None \notin Ids
  BY TrackingAssumption DEF TypeInv, None, Ids
<1>3. Shift(ready, ready', g, -1)
  BY <1>1, <1>2, IncShift
<1>4. g <= lastID /\ Live(g)
  BY <1>1, HasMetric
<1>5. Fanned(g)' = 1 /\ Fanned(g) = 0 /\ \A h \in Ids : h # g => Fanned(h)' = Fanned(h)
  BY <1>1, <1>2 DEF Fanned
<1>6. TypeInv'
  <2>1. fanNext' \in 0..Outputs /\ fanNext' # 0 /\ fan' \in Ids \cup {None}
    BY <1>1, <1>2
  <2> QED
    BY <1>1, <1>3, <2>1, Zenon DEF TypeInv, Shift
<1>7. Only(g)
  BY <1>1, <1>3, <1>5 DEF Only, Shift, InfoOf
<1>8. hand'[g] + piped'[g] + ready'[g] + held'[g] + settling'[g] + Fanned(g)' =
        hand[g] + piped[g] + ready[g] + held[g] + settling[g] + Fanned(g) + 0
  BY <1>1, <1>3, <1>5, Values DEF Shift
<1>9. rc'[g] = rc[g] + 0
  BY <1>1, Values
<1> QED
  BY <1>1, <1>4, <1>6, <1>7, <1>8, <1>9, StaysLive, Zenon

(* runOutputs gives an output the metric or a copy of it. *)
LEMMA GroupFanOut ==
  ASSUME TypeInv, GroupInv, FanOut
  PROVE  TypeInv' /\ GroupInv' /\ panicked' = panicked
<1> DEFINE g == fan
<1>0. Outputs \in Nat \ {0} /\ None \notin Ids /\ g \in Ids /\ fanNext \in 1..Outputs
  BY TrackingAssumption DEF FanOut, TypeInv, None, Ids
<1>1. /\ held' = Inc(held, g)
      /\ IF fanNext = Outputs THEN rc' = rc ELSE rc' = Inc(rc, g)
      /\ fan' = IF fanNext = Outputs THEN None ELSE g
      /\ fanNext' = IF fanNext = Outputs THEN 0 ELSE fanNext + 1
      /\ UNCHANGED <<lastID, delivered, report, sem, pcR, hand, piped, ready, settling,
                     acceptCount, rejectCount, notifying, panicked>>
  BY DEF FanOut, OutOnly, recvVars, IsOriginal, CopyCount
<1>2. held \in [Ids -> Nat] /\ rc \in [Ids -> Int] /\ rc[g] \in Int
  BY <1>0 DEF TypeInv
<1>3. Shift(held, held', g, 1)
  BY <1>0, <1>1, <1>2, IncShift
<1>4. g <= lastID /\ Live(g)
  BY <1>0, HasMetric
<1>5. PICK n \in {0, 1} : /\ rc' \in [Ids -> Int] /\ rc'[g] = rc[g] + n
                          /\ \A h \in Ids : h # g => rc'[h] = rc[h]
                          /\ fan' = IF n = 0 THEN None ELSE g
  <2>1. CASE fanNext = Outputs
    <3>1. rc' = rc /\ fan' = None
      BY <1>1, <2>1
    <3> QED
      BY <1>2, <3>1
  <2>2. CASE fanNext # Outputs
    <3>1. rc' = Inc(rc, g) /\ fan' = g
      BY <1>1, <2>2
    <3> QED
      BY <1>0, <1>2, <3>1, IncAt
  <2> QED
    BY <2>1, <2>2
<1>6. fanNext' \in 0..Outputs /\ (fan' # None => fanNext' # 0) /\ fan' \in Ids \cup {None}
  BY <1>0, <1>1
<1>7. TypeInv'
  BY <1>1, <1>3, <1>5, <1>6, Zenon DEF TypeInv, Shift
<1> HIDE DEF g
<1>8. /\ \A h \in Ids : h # g => Fanned(h)' = Fanned(h)
      /\ Fanned(g) = 1 /\ (IF fan' = g THEN 1 ELSE 0) = n
  BY <1>0, <1>5 DEF Fanned, g
<1>9. ASSUME NEW e \in Ids, e = g PROVE GroupInv'
  <2>1. Only(e)
    BY <1>1, <1>3, <1>5, <1>8, <1>9 DEF Only, Shift, InfoOf
  <2>2. Fanned(e)' = n
    BY <1>8, <1>9 DEF Fanned
  <2>3. hand'[e] + piped'[e] + ready'[e] + held'[e] + settling'[e] + Fanned(e)' =
          hand[e] + piped[e] + ready[e] + held[e] + settling[e] + Fanned(e) + n
    BY <1>1, <1>3, <1>8, <1>9, <2>2, Values DEF Shift
  <2>4. e <= lastID /\ Live(e) /\ rc'[e] = rc[e] + n /\ n \in Nat
    BY <1>4, <1>5, <1>9
  <2> QED
    BY <1>1, <2>1, <2>3, <2>4, StaysLive
<1> QED
  BY <1>0, <1>1, <1>7, <1>9

-----------------------------------------------------------------------------
(* The groups not notified yet are finitely many. *)
LEMMA UnnotifiedFinite ==
  ASSUME TypeInv
  PROVE  IsFiniteSet(Unnotified) /\ Cardinality(Unnotified) \in Nat
<1>1. Unnotified \in SUBSET (1..lastID) /\ lastID \in Int /\ 1 \in Int
  BY TrackingAssumption DEF Unnotified, Created, TypeInv
<1>2. IsFiniteSet(1..lastID)
  BY <1>1, FS_Interval
<1> QED
  BY <1>1, <1>2, FS_Subset, FS_CardinalityType, Zenon

(* A group is what it is as long as its counts are. *)
LEMMA SameGroups ==
  ASSUME GroupInv,
         UNCHANGED <<lastID, rc, hand, piped, ready, held, settling, fan, notifying,
                     report, acceptCount, rejectCount>>
  PROVE  GroupInv'
  BY Zenon DEF GroupInv, Refs, Stage, Live, Ending, Reported, InfoOf, Fanned

(* The steps of the receiver that only concern its slots. *)
LEMMA SlotStep ==
  ASSUME IInv, RecvDelivered \/ RecvRelease \/ RecvAcquire \/ RecvError \/ RecvAdded \/ RecvStop
  PROVE  IInv'
<1> USE DEF IInv
<1>1. UNCHANGED <<lastID, rc, hand, piped, ready, held, settling, fan, fanNext, notifying,
                  report, acceptCount, rejectCount, panicked>>
  BY DEF RecvDelivered, RecvRelease, RecvAcquire, RecvError, RecvAdded, RecvStop, RecvLocal,
         RecvOnly, fanVars
<1>2. GroupInv' /\ NoPanic'
  BY <1>1, SameGroups DEF NoPanic
<1>3. Unnotified' = Unnotified /\ Cardinality(Unnotified) \in Nat
  BY <1>1, UnnotifiedFinite DEF Unnotified, Created
<1> DEFINE c == Cardinality(Unnotified)
<1>4. c \in Nat /\ c' = c
  BY <1>3
<1>5. /\ sem \in Nat /\ Len(delivered) \in Nat /\ MaxUndelivered \in Nat
      /\ delivered \in Seq(Info) /\ sem <= MaxUndelivered
      /\ Len(delivered) + c + Own <= sem
      /\ pcR # "returned" => sem = Len(delivered) + c + Own
  BY TrackingAssumption DEF TypeInv, SlotInv
<1>6. SUFFICES /\ sem' \in Nat /\ sem' <= MaxUndelivered /\ delivered' \in Seq(Info)
               /\ pcR' \in {"select", "inner", "release", "release2", "returned"}
               /\ Len(delivered') + c + Own' <= sem'
               /\ pcR' # "returned" => sem' = Len(delivered') + c + Own'
  BY <1>1, <1>2, <1>4 DEF TypeInv, SlotInv
<1> HIDE DEF c, IInv
<1> USE DEF Own
<1>7. CASE RecvDelivered
  <2>1. delivered # <<>> /\ delivered' = Tail(delivered) /\ sem' = sem
    BY <1>7 DEF RecvDelivered
  <2>2. Len(delivered') = Len(delivered) - 1 /\ delivered' \in Seq(Info)
    BY <1>5, <2>1
  <2>3. \/ pcR = "inner" /\ pcR' = "release2"
        \/ pcR = "select" /\ pcR' = "release"
    BY <1>7 DEF RecvDelivered, Releases
  <2> QED
    BY <1>4, <1>5, <2>1, <2>2, <2>3
<1>8. CASE RecvRelease
  <2>1. sem > 0 /\ sem' = sem - 1 /\ delivered' = delivered
    BY <1>8 DEF RecvRelease
  <2>2. \/ pcR = "release2" /\ pcR' = "release"
        \/ pcR = "release" /\ pcR' = "select"
    BY <1>8 DEF RecvRelease
  <2> QED
    BY <1>4, <1>5, <2>1, <2>2
<1>9. CASE RecvAcquire
  <2>1. /\ sem < MaxUndelivered /\ sem' = sem + 1 /\ delivered' = delivered
        /\ pcR = "select" /\ pcR' = "inner"
    BY <1>9 DEF RecvAcquire, SlotFree
  <2> QED
    BY <1>4, <1>5, <2>1
<1>10. CASE RecvError \/ RecvAdded \/ RecvStop
  <2>1. /\ sem' = sem /\ delivered' = delivered
        /\ \/ pcR = "inner" /\ pcR' = "release"
           \/ pcR = "adding" /\ pcR' = "select"
           \/ pcR \in {"select", "inner"} /\ pcR' = "returned"
    BY <1>10 DEF RecvError, RecvAdded, RecvStop
  <2> QED
    BY <1>4, <1>5, <2>1
<1> QED
  BY <1>7, <1>8, <1>9, <1>10

(* A step that leaves the channel, the slots and the reports alone. *)
LEMMA SlotsStay ==
  ASSUME SlotInv, UNCHANGED <<sem, delivered, pcR, lastID, report>>
  PROVE  SlotInv'
  BY DEF SlotInv, Own, Unnotified, Created

(* The receiver hands a metric over. *)
LEMMA GroupAdd ==
  ASSUME TypeInv, GroupInv, RecvAdd
  PROVE  TypeInv' /\ GroupInv'
<1> DEFINE g == lastID
<1>1. /\ g \in Ids /\ hand[g] > 0 /\ hand' = Dec(hand, g) /\ piped' = Inc(piped, g)
      /\ UNCHANGED <<lastID, delivered, report, sem, pcR, fan, fanNext, ready, held,
                     settling, rc, acceptCount, rejectCount, notifying>>
  BY DEF RecvAdd, RecvOnly, fanVars, TypeInv
<1>2. hand \in [Ids -> Nat] /\ piped \in [Ids -> Nat]
  BY DEF TypeInv
<1>3. Shift(hand, hand', g, -1) /\ Shift(piped, piped', g, 1)
  BY <1>1, <1>2, IncShift
<1>4. TypeInv'
  BY <1>1, <1>3, Zenon DEF TypeInv, Shift
<1> HIDE DEF g
<1>5. ASSUME NEW e \in Ids, e = g PROVE GroupInv'
  <2>1. Only(e)
    BY <1>1, <1>3, <1>5 DEF Only, Shift, InfoOf, Fanned
  <2>2. Fanned(e)' = Fanned(e)
    BY <1>1 DEF Fanned
  <2>3. hand'[e] + piped'[e] + ready'[e] + held'[e] + settling'[e] + Fanned(e)' =
          hand[e] + piped[e] + ready[e] + held[e] + settling[e] + Fanned(e) + 0
    BY <1>1, <1>3, <1>5, <2>2, Values DEF Shift
  <2>4. e <= lastID /\ Live(e)
    BY <1>1, <1>5, HasMetric
  <2>5. rc'[e] = rc[e] + 0
    BY <1>1, Values
  <2> QED
    BY <1>1, <2>1, <2>3, <2>4, <2>5, StaysLive, Zenon
<1> QED
  BY <1>1, <1>4, <1>5

(* A group without references has metrics nowhere. *)
LEMMA NoMetrics ==
  ASSUME TypeInv, NEW g \in Ids, Refs(g), rc[g] = 0
  PROVE  /\ hand[g] = 0 /\ piped[g] = 0 /\ ready[g] = 0 /\ held[g] = 0 /\ settling[g] = 0
         /\ Fanned(g) = 0
<1>1. 0 = hand[g] + piped[g] + ready[g] + held[g] + settling[g] + Fanned(g)
  BY DEF Refs
<1>2. /\ hand[g] \in Nat /\ piped[g] \in Nat /\ ready[g] \in Nat /\ held[g] \in Nat
      /\ settling[g] \in Nat /\ Fanned(g) \in Nat
  BY Values
<1>3. \A a \in Nat : a = 0 \/ a > 0
  OBVIOUS
<1>4. /\ ~(hand[g] > 0) /\ ~(piped[g] > 0) /\ ~(ready[g] > 0) /\ ~(held[g] > 0)
      /\ ~(settling[g] > 0) /\ ~(Fanned(g) > 0)
  BY <1>1, <1>2
<1> QED
  BY <1>2, <1>3, <1>4

(* A message becomes a group with a slot of its own. *)
LEMMA MessageStep ==
  ASSUME IInv, NEW n \in 0..MaxGroup, RecvMessage(n)
  PROVE  IInv'
<1> USE DEF IInv
<1> DEFINE g == lastID + 1
<1>1. /\ pcR = "inner" /\ pcR' = "adding" /\ lastID < MaxMessages /\ lastID' = g
      /\ rc' = [rc EXCEPT ![g] = n] /\ hand' = [hand EXCEPT ![g] = n]
      /\ notifying' = IF n = 0 THEN Inc(notifying, g) ELSE notifying
      /\ UNCHANGED <<sem, delivered, piped, panicked, report, acceptCount, rejectCount,
                     ready, fan, fanNext, held, settling>>
  BY DEF RecvMessage, RecvOnly, fanVars
<1>2. /\ g \in Ids /\ n \in Nat /\ lastID \in Nat /\ g > lastID /\ g \in 0..MaxMessages
      /\ MaxMessages \in Nat
  BY <1>1, TrackingAssumption DEF TypeInv, Ids
<1>3. rc[g] = 0 /\ notifying[g] = 0 /\ report[g] = <<>>
  BY <1>2 DEF GroupInv, Stage
<1>4. /\ hand[g] = 0 /\ piped[g] = 0 /\ ready[g] = 0 /\ held[g] = 0 /\ settling[g] = 0
      /\ Fanned(g) = 0
  <2>1. g \in Ids /\ Refs(g)
    BY <1>2 DEF GroupInv
  <2> HIDE DEF g
  <2> QED
    BY <1>3, <2>1, NoMetrics
<1> HIDE DEF g
<1>5. /\ rc' \in [Ids -> Int] /\ hand' \in [Ids -> Nat] /\ rc'[g] = n /\ hand'[g] = n
      /\ \A h \in Ids : h # g => rc'[h] = rc[h] /\ hand'[h] = hand[h]
  <2>1. rc \in [Ids -> Int] /\ hand \in [Ids -> Nat]
    BY DEF TypeInv
  <2>2. n \in Nat /\ n \in Int /\ g \in Ids
    BY <1>2
  <2> QED
    BY <1>1, <2>1, <2>2
<1>6. /\ notifying' \in [Ids -> Nat] /\ notifying'[g] = IF n = 0 THEN 1 ELSE 0
      /\ \A h \in Ids : h # g => notifying'[h] = notifying[h]
  <2>1. notifying \in [Ids -> Nat]
    BY DEF TypeInv
  <2>2. Shift(notifying, Inc(notifying, g), g, 1)
    BY <1>2, <2>1, IncShift
  <2> QED
    BY <1>1, <1>3, <2>1, <2>2 DEF Shift
<1>7. TypeInv'
  BY <1>1, <1>2, <1>5, <1>6, Zenon DEF TypeInv
<1>8. GroupInv'
  <2> SUFFICES ASSUME NEW h \in Ids PROVE Refs(h)' /\ Stage(h)'
    BY DEF GroupInv
  <2>0. Fanned(h)' = Fanned(h) /\ InfoOf(h)' = InfoOf(h)
    BY <1>1 DEF Fanned, InfoOf
  <2>1. CASE h = g
    <3>1. Refs(h)'
      BY <1>1, <1>2, <1>4, <1>5, <2>0, <2>1 DEF Refs
    <3>2. h <= lastID' /\ (n = 0 \/ n > 0)
      BY <1>1, <1>2, <2>1
    <3>3. Stage(h)'
      BY <1>1, <1>2, <1>3, <1>5, <1>6, <2>1, <3>2 DEF Stage, Live, Ending
    <3> QED
      BY <3>1, <3>3
  <2>2. CASE h # g
    <3>1. Refs(h) /\ Stage(h)
      BY DEF GroupInv
    <3>2. /\ rc'[h] = rc[h] /\ notifying'[h] = notifying[h] /\ report'[h] = report[h]
          /\ hand'[h] = hand[h]
      BY <1>1, <1>5, <1>6, <2>2
    <3>3. Refs(h)'
      BY <1>1, <2>0, <3>1, <3>2 DEF Refs
    <3>4. h \in Nat /\ (h <= lastID' <=> h <= lastID)
      BY <1>1, <1>2, <2>2 DEF Ids, g
    <3>5. Stage(h)'
      BY <2>0, <3>1, <3>2, <3>4 DEF Stage, Live, Ending, Reported
    <3> QED
      BY <3>3, <3>5
  <2> QED
    BY <2>1, <2>2
<1>9. SlotInv'
  <2>1. Unnotified' = Unnotified \cup {g} /\ g \notin Unnotified
    <3>1. 1..lastID' = 1..lastID \cup {g} /\ g \notin 1..lastID
      BY <1>1, <1>2 DEF g
    <3> QED
      BY <1>1, <1>3, <3>1 DEF Unnotified, Created
  <2>2. /\ Cardinality(Unnotified') = Cardinality(Unnotified) + 1
        /\ Cardinality(Unnotified) \in Nat
    BY <2>1, UnnotifiedFinite, FS_AddElement
  <2>3. Own = 1 /\ Own' = 0
    BY <1>1 DEF Own
  <2>4. Len(delivered) \in Nat /\ sem \in Nat
    BY DEF TypeInv
  <2> QED
    BY <1>1, <2>2, <2>3, <2>4 DEF SlotInv
<1> QED
  BY <1>1, <1>7, <1>8, <1>9 DEF NoPanic

(* Whoever notifies finds room: the slot of its group is still taken. *)
LEMMA NotifyStep ==
  ASSUME IInv, NEW g \in Ids, Notify(g)
  PROVE  IInv'
<1> DEFINE info == InfoOf(g)
<1>0. TypeInv /\ GroupInv /\ SlotInv /\ NoPanic
  BY DEF IInv
<1>1. g <= lastID /\ Ending(g)
  <2>1. notifying[g] > 0
    BY Zenon DEF Notify
  <2>2. notifying[g] # 0
    BY <2>1
  <2> QED
    BY <1>0, <2>2 DEF GroupInv, Stage, Live, Reported
<1>2. g \in Unnotified
  <2>1. g \in 1..lastID
    BY <1>0, <1>1 DEF Ids, TypeInv
  <2> QED
    BY <1>1, <2>1 DEF Unnotified, Created, Ending
<1>3. /\ IsFiniteSet(Unnotified) /\ Cardinality(Unnotified) \in Nat
      /\ Cardinality(Unnotified \ {g}) = Cardinality(Unnotified) - 1
      /\ Cardinality(Unnotified \ {g}) \in Nat
  BY <1>0, <1>2, UnnotifiedFinite, FS_RemoveElement, FS_CardinalityType
<1>4. /\ Len(delivered) \in Nat /\ sem \in Nat /\ MaxUndelivered \in Nat /\ Own \in Nat
      /\ delivered \in Seq(Info) /\ notifying \in [Ids -> Nat] /\ report \in [Ids -> Seq(Info)]
      /\ info \in Info
  <2>1. acceptCount[g] \in Nat /\ rejectCount[g] \in Nat
    BY <1>0 DEF TypeInv
  <2>2. info \in Info
    BY <2>1 DEF Info, InfoOf
  <2> HIDE DEF info
  <2>3. Own \in Nat
    BY DEF Own
  <2>4. /\ delivered \in Seq(Info) /\ notifying \in [Ids -> Nat]
        /\ report \in [Ids -> Seq(Info)] /\ sem \in Nat
    BY <1>0, Zenon DEF TypeInv
  <2>5. Len(delivered) \in Nat /\ MaxUndelivered \in Nat
    BY <2>4, TrackingAssumption
  <2> QED
    BY <2>2, <2>3, <2>4, <2>5, Zenon
<1>5. /\ sem <= MaxUndelivered /\ Len(delivered) + Cardinality(Unnotified) + Own <= sem
      /\ pcR # "returned" => sem = Len(delivered) + Cardinality(Unnotified) + Own
  BY <1>0 DEF SlotInv
<1>6. Len(delivered) < MaxUndelivered
  BY <1>3, <1>4, <1>5
<1>7. /\ notifying[g] > 0 /\ notifying' = Dec(notifying, g)
      /\ delivered' = Append(delivered, info)
      /\ report' = [report EXCEPT ![g] = Append(@, info)]
      /\ UNCHANGED <<panicked, lastID, sem, pcR, hand, rc, acceptCount, rejectCount, piped,
                     ready, fan, fanNext, held, settling>>
  BY <1>6 DEF Notify, InfoOf, recvVars, dataVars, fanVars
<1> HIDE DEF info
<1>8. Shift(notifying, notifying', g, -1)
  BY <1>4, <1>7, IncShift
<1>9. /\ delivered' \in Seq(Info) /\ Len(delivered') = Len(delivered) + 1
      /\ report' \in [Ids -> Seq(Info)] /\ report'[g] = <<info>>
      /\ \A h \in Ids : h # g => report'[h] = report[h]
  <2>1. report[g] = <<>> /\ Append(<<>>, info) = <<info>> /\ <<info>> \in Seq(Info)
    BY <1>1, <1>4 DEF Ending
  <2> QED
    BY <1>4, <1>7, <2>1
<1>10. TypeInv'
  BY <1>0, <1>7, <1>8, <1>9, Zenon DEF TypeInv, Shift
<1>11. GroupInv'
  <2>1. Only(g)
    BY <1>7, <1>8, <1>9, Zenon DEF Only, Shift, Fanned, InfoOf
  <2>2. Refs(g)'
    BY <1>0, <1>7 DEF GroupInv, Refs, Fanned
  <2>3. notifying'[g] = 0
    BY <1>1, <1>8 DEF Ending, Shift
  <2>4. InfoOf(g)' = info
    BY <1>7 DEF InfoOf, info
  <2>5. Stage(g)'
    BY <1>1, <1>7, <1>9, <2>3, <2>4 DEF Stage, Reported, Ending
  <2> QED
    BY <1>0, <2>1, <2>2, <2>5, OthersStay
<1>12. SlotInv'
  <2>1. Unnotified' = Unnotified \ {g}
    <3>1. Created' = Created /\ Created \subseteq Ids
      BY <1>0, <1>7, TrackingAssumption DEF Created, Ids, TypeInv
    <3>2. report'[g] # <<>>
      BY <1>9
    <3> QED
      BY <1>9, <3>1, <3>2, Zenon DEF Unnotified
  <2>2. Own' = Own
    BY <1>7 DEF Own
  <2> QED
    BY <1>3, <1>4, <1>5, <1>7, <1>9, <2>1, <2>2 DEF SlotInv
<1> QED
  BY <1>0, <1>7, <1>10, <1>11, <1>12 DEF IInv, NoPanic

-----------------------------------------------------------------------------
(* The invariant holds at first. *)
LEMMA IInvInit == Init => IInv
<1> SUFFICES ASSUME Init PROVE IInv
  OBVIOUS
<1>1. <<>> \in Seq(Info) /\ Len(<<>>) = 0 /\ Created = {} /\ Unnotified = {}
  BY DEF Init, Created, Unnotified
<1>2. TypeInv
  BY <1>1, TrackingAssumption DEF Init, TypeInv, None
<1>3. GroupInv
  <2> SUFFICES ASSUME NEW g \in Ids PROVE Refs(g) /\ Stage(g)
    BY DEF GroupInv
  <2>1. Fanned(g) = 0 /\ ~(g <= lastID)
    BY DEF Init, Fanned, None, Ids
  <2> QED
    BY <2>1 DEF Init, Refs, Stage
<1>4. SlotInv
  BY <1>1, FS_EmptySet, TrackingAssumption DEF Init, SlotInv, Own
<1> QED
  BY <1>2, <1>3, <1>4 DEF IInv, NoPanic, Init

(* Every step keeps it. *)
LEMMA IInvNext == IInv /\ [Next]_vars => IInv'
<1> SUFFICES ASSUME IInv, [Next]_vars PROVE IInv'
  OBVIOUS
<1>0. TypeInv /\ GroupInv /\ SlotInv /\ NoPanic
  BY DEF IInv
<1>1. ASSUME NEW g \in Ids,
             \/ Settle(g) \/ ProcDrop(g) \/ OutFiltered(g) \/ ProcPass(g) \/ ProcClone(g)
             \/ OutAccept(g) \/ OutReject(g) \/ FanTake(g) \/ FanOut
             \/ RecvFiltered /\ g = lastID
      PROVE  IInv'
  <2>1. TypeInv' /\ GroupInv' /\ panicked' = panicked
    BY <1>0, <1>1, GroupDrop, GroupProc, GroupVerdict, GroupFanTake, GroupFanOut
  <2>2. UNCHANGED <<sem, delivered, pcR, lastID, report>>
    BY <1>1 DEF Settle, ProcDrop, OutFiltered, ProcPass, ProcClone, ProcTake, OutAccept,
                OutReject, FanTake, FanOut, RecvFiltered, OutOnly, recvVars
  <2> QED
    BY <1>0, <2>1, <2>2, SlotsStay DEF IInv, NoPanic
<1>2. CASE RecvAdd
  <2>1. UNCHANGED <<sem, delivered, pcR, lastID, report, panicked>>
    BY <1>2 DEF RecvAdd
  <2> QED
    BY <1>0, <1>2, <2>1, GroupAdd, SlotsStay DEF IInv, NoPanic
<1>3. CASE FanOut
  <2>1. fan \in Ids
    BY <1>0, <1>3 DEF TypeInv, FanOut
  <2> QED
    BY <1>1, <1>3, <2>1
<1>4. CASE RecvFiltered
  <2>1. lastID \in Ids
    BY <1>0, <1>4 DEF TypeInv, RecvFiltered
  <2> QED
    BY <1>1, <1>4, <2>1
<1>5. CASE UNCHANGED vars
  <2>1. UNCHANGED <<lastID, rc, hand, piped, ready, held, settling, fan, fanNext, notifying,
                    report, acceptCount, rejectCount, sem, delivered, pcR, panicked>>
    BY <1>5 DEF vars, recvVars, dataVars, fanVars
  <2>2. TypeInv'
    BY <1>0, <2>1 DEF TypeInv
  <2> QED
    BY <1>0, <2>1, <2>2, SameGroups, SlotsStay DEF IInv, NoPanic
<1> QED
  BY <1>1, <1>2, <1>3, <1>4, <1>5, SlotStep, MessageStep, NotifyStep
     DEF Next, Receiver, Handling, Processing

(* What the invariant says in the terms of the model. *)
LEMMA IInvImplies == IInv => NoPanic /\ RefsExact /\ ReportFinal /\ SlotsExact
<1> SUFFICES ASSUME IInv PROVE NoPanic /\ RefsExact /\ ReportFinal /\ SlotsExact
  OBVIOUS
<1>0. TypeInv /\ GroupInv /\ SlotInv /\ NoPanic
  BY DEF IInv
<1>1. RefsExact
  BY <1>0 DEF RefsExact, GroupInv, Refs, Fanned
<1>2. SlotsExact
  BY <1>0 DEF SlotsExact, SlotInv
<1>3. ReportFinal
  <2> SUFFICES ASSUME NEW g \in Ids, report[g] # <<>>
               PROVE  /\ report[g] = <<InfoOf(g)>>
                      /\ rc[g] = 0 /\ notifying[g] = 0 /\ fan # g
                      /\ hand[g] + piped[g] + ready[g] + held[g] + settling[g] = 0
    BY DEF ReportFinal, InfoOf
  <2>1. Reported(g)
    BY <1>0 DEF GroupInv, Stage, Live, Ending
  <2>2. Refs(g) /\ rc[g] = 0
    BY <1>0, <2>1 DEF GroupInv, Reported
  <2>3. /\ hand[g] = 0 /\ piped[g] = 0 /\ ready[g] = 0 /\ held[g] = 0 /\ settling[g] = 0
        /\ Fanned(g) = 0
    BY <1>0, <2>2, NoMetrics, Zenon
  <2> QED
    BY <2>1, <2>3 DEF Reported, Fanned
<1> QED
  BY <1>0, <1>1, <1>2, <1>3

(* Every count is a number of metrics or goroutines, and the semaphore     *)
(* stays within its capacity.                                              *)
THEOREM TypeCorrect == Spec => []TypeOK
<1>1. IInv => TypeOK
  <2> SUFFICES ASSUME IInv PROVE TypeOK
    OBVIOUS
  <2>1. TypeInv /\ SlotInv /\ NoPanic
    BY DEF IInv
  <2>2. sem \in 0..MaxUndelivered
    BY <2>1, TrackingAssumption DEF TypeInv, SlotInv
  <2>3. {acceptCount, rejectCount, hand, piped, ready, held, settling, notifying}
          \subseteq [Ids -> Nat]
    BY <2>1, Zenon DEF TypeInv
  <2> QED
    BY <2>1, <2>2, <2>3, Zenon DEF TypeOK, TypeInv, Info, NoPanic
<1> QED
  BY <1>1, IInvInit, IInvNext, PTL DEF Spec

(* Neither panic happens: the reference count of trackingData is never     *)
(* negative, and onDelivery of trackingAccumulator always has room for     *)
(* max_undelivered_messages notifications.                                 *)
THEOREM NeverPanics == Spec => []NoPanic
  BY IInvInit, IInvNext, IInvImplies, PTL DEF Spec

(* The reference count of a group is the number of its metrics and copies  *)
(* that are still to be settled.                                           *)
THEOREM ReferencesExact == Spec => []RefsExact
  BY IInvInit, IInvNext, IInvImplies, PTL DEF Spec

(* A consumer is told of a message once, with final counts.                *)
THEOREM ReportsFinal == Spec => []ReportFinal
  BY IInvInit, IInvNext, IInvImplies, PTL DEF Spec

(* The semaphore of the consumer is exact while the receiver runs.         *)
THEOREM SemaphoreExact == Spec => []SlotsExact
  BY IInvInit, IInvNext, IInvImplies, PTL DEF Spec
=============================================================================
