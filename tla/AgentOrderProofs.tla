-------------------------- MODULE AgentOrderProofs -------------------------
(***************************************************************************)
(* The outputs receive the metrics of a source in the order it made them,  *)
(* with any number of plugins and any channel capacity.                    *)
(*                                                                         *)
(* The places a metric passes on its way are ranked by their distance to   *)
(* the outputs, and at any time what is in a place of lower rank is older  *)
(* than what its source has in a place of higher rank.  Originals and      *)
(* aggregates go through chains of their own, whose ranks overlap; they    *)
(* meet in the channel of the outputs.                                     *)
(***************************************************************************)
EXTENDS AgentProofs

-----------------------------------------------------------------------------
(* The places a metric passes. *)

(* The places a metric can be in, from the outputs backwards: what was     *)
(* received, the channels, the hands of the processors and the forwarder.  *)
Got     == <<"got", 0>>
Fw      == <<"fw", 0>>
Hand(u) == <<IF u[1] = "p" THEN "hand p" ELSE "hand ap", u[2]>>

(* Every place of this configuration. *)
Places == Channels \cup {Got} \cup {Hand(u) : u \in Units}
          \cup (IF NumAggregators > 0 THEN {Fw} ELSE {})

(* How far a place is from the outputs. The ranks of the processors and of *)
(* the aggregator processors overlap: they are two lanes.                  *)
Rank(p) ==
  IF p[1] = "got" THEN 0 ELSE IF p[1] = "out" THEN 1
  ELSE IF p[1] = "fw" THEN 2 ELSE IF p[1] = "agg" THEN 3
  ELSE IF p[1] = "hand p" THEN 2 * p[2] + 2 ELSE IF p[1] = "p" THEN 2 * p[2] + 3
  ELSE IF p[1] = "hand ap" THEN 2 * p[2] ELSE 2 * p[2] + 1

(* Only metrics of inputs, or only those of aggregators, come to these     *)
(* places.                                                                 *)
Originals(p)  == p[1] \in {"fw", "agg", "p", "hand p"}
Aggregates(p) == p[1] \in {"ap", "hand ap"}
Apart(p, q)   == \/ Originals(p) /\ Aggregates(q)
                 \/ Aggregates(p) /\ Originals(q)

(* What leaves p arrives at q behind everything that is ahead of p.        *)
Feeds(p, q) ==
  /\ p \in Places /\ q \in Places /\ Rank(q) < Rank(p)
  /\ \A r \in Places :
       Rank(q) < Rank(r) => r = p \/ Rank(p) < Rank(r) \/ Apart(p, r)
  /\ Originals(q) => Originals(p)
  /\ Aggregates(q) => Aggregates(p)

(* Every place, with its rank and lane. *)
LEMMA PlaceRows ==
  /\ Rank(Got) = 0 /\ ~Originals(Got) /\ ~Aggregates(Got)
  /\ Rank(OutC) = 1 /\ ~Originals(OutC) /\ ~Aggregates(OutC)
  /\ Rank(Fw) = 2 /\ Originals(Fw) /\ ~Aggregates(Fw)
  /\ Rank(AggC) = 3 /\ Originals(AggC) /\ ~Aggregates(AggC)
  BY Zenon DEF Got, OutC, Fw, AggC, Rank, Originals, Aggregates

(* The rank and lane of a processor's channel and hand. *)
LEMMA UnitRows ==
  ASSUME NEW i
  PROVE     /\ Rank(<<"hand p", i>>) = 2 * i + 2
            /\ Originals(<<"hand p", i>>) /\ ~Aggregates(<<"hand p", i>>)
            /\ Rank(<<"p", i>>) = 2 * i + 3
            /\ Originals(<<"p", i>>) /\ ~Aggregates(<<"p", i>>)
            /\ Rank(<<"hand ap", i>>) = 2 * i
            /\ Aggregates(<<"hand ap", i>>) /\ ~Originals(<<"hand ap", i>>)
            /\ Rank(<<"ap", i>>) = 2 * i + 1
            /\ Aggregates(<<"ap", i>>) /\ ~Originals(<<"ap", i>>)
  BY DEF Got, OutC, Fw, AggC, Rank, Originals, Aggregates

(* The two lanes: row i of the processors and of those of the aggregators. *)
OrigRow(r, i) ==
  /\ Originals(r) /\ ~Aggregates(r)
  /\ \/ r = <<"p", i>> /\ Rank(r) = 2 * i + 3
     \/ r = <<"hand p", i>> /\ Rank(r) = 2 * i + 2

AggRow(r, i) ==
  /\ Aggregates(r) /\ ~Originals(r)
  /\ \/ r = <<"ap", i>> /\ Rank(r) = 2 * i + 1
     \/ r = <<"hand ap", i>> /\ Rank(r) = 2 * i

(* A unit is a processor or an aggregator processor. *)
LEMMA UnitCases ==
  ASSUME NEW u \in Units
  PROVE  \/ \E i \in 1..NumProcessors :
              /\ u = <<"p", i>> /\ Hand(u) = <<"hand p", i>>
              /\ OrigRow(u, i) /\ OrigRow(Hand(u), i)
         \/ /\ NumAggregators > 0
            /\ \E i \in 1..NumAggProcessors :
                 /\ u = <<"ap", i>> /\ Hand(u) = <<"hand ap", i>>
                 /\ AggRow(u, i) /\ AggRow(Hand(u), i)
<1>1. NumProcessors \in Nat /\ NumAggregators \in Nat /\ NumAggProcessors \in Nat
  BY AgentAssumption
<1>2. \/ \E i \in 1..NumProcessors : u = <<"p", i>>
      \/ NumAggregators > 0 /\ \E i \in 1..NumAggProcessors : u = <<"ap", i>>
  BY <1>1 DEF Units
<1>3. ASSUME NEW i \in 1..NumProcessors, u = <<"p", i>>
      PROVE  /\ u = <<"p", i>> /\ Hand(u) = <<"hand p", i>>
             /\ OrigRow(u, i) /\ OrigRow(Hand(u), i)
  <2>1. Hand(u) = <<"hand p", i>>
    BY <1>3 DEF Hand
  <2> QED
    BY <1>3, <2>1, UnitRows, Zenon DEF OrigRow
<1>4. ASSUME NumAggregators > 0, NEW i \in 1..NumAggProcessors, u = <<"ap", i>>
      PROVE  /\ u = <<"ap", i>> /\ Hand(u) = <<"hand ap", i>>
             /\ AggRow(u, i) /\ AggRow(Hand(u), i)
  <2>1. Hand(u) = <<"hand ap", i>>
    BY <1>4 DEF Hand
  <2> QED
    BY <1>4, <2>1, UnitRows, Zenon DEF AggRow
<1> QED
  BY <1>2, <1>3, <1>4, Zenon

(* A place is one of the four single ones or belongs to a unit. *)
LEMMA PlaceCases == \A r \in Places :
    \/ r = Got \/ r = OutC
    \/ NumAggregators > 0 /\ r \in {Fw, AggC}
    \/ \E i \in 1..NumProcessors : OrigRow(r, i)
    \/ NumAggregators > 0 /\ \E i \in 1..NumAggProcessors : AggRow(r, i)
<1>0. NumAggregators \in Nat
  BY AgentAssumption
<1>1. ASSUME NEW r \in Places
      PROVE  \/ r \in Channels \/ r = Got \/ \E u \in Units : r = Hand(u)
             \/ NumAggregators > 0 /\ r = Fw
  BY <1>0, SMT DEF Places
<1>2. ASSUME NEW r \in Channels
      PROVE  r = OutC \/ r \in Units \/ (NumAggregators > 0 /\ r = AggC)
  BY <1>0 DEF Channels
<1>3. ASSUME NEW u \in Units, NEW r \in {u, Hand(u)}
      PROVE  \/ \E i \in 1..NumProcessors : OrigRow(r, i)
             \/ NumAggregators > 0 /\ \E i \in 1..NumAggProcessors : AggRow(r, i)
  <2>1. r = u \/ r = Hand(u)
    OBVIOUS
  <2> QED
    BY <2>1, UnitCases, ZenonT(60)
<1> QED
  BY <1>1, <1>2, <1>3, Zenon

(* The first rows of the lanes follow the outputs and the forwarder. *)
LEMMA FirstRanks == 2 * 1 + 2 = 4 /\ 2 * 1 = 2 /\ 3 + 1 = 4 /\ 1 + 1 = 2
  OBVIOUS

(* Ranks of the two lanes. *)
LEMMA RowRanks ==
  ASSUME NEW r
  PROVE  /\ \A i \in 1..NumProcessors :
              OrigRow(r, i) => Rank(r) \in Nat /\ Rank(r) >= 4 /\ Originals(r)
         /\ \A i \in 1..NumAggProcessors :
              AggRow(r, i) => Rank(r) \in Nat /\ Rank(r) >= 2 /\ Aggregates(r)
<1>1. NumProcessors \in Nat /\ NumAggProcessors \in Nat
  BY AgentAssumption, Zenon
<1>2. ASSUME NEW i \in 1..NumProcessors, OrigRow(r, i)
      PROVE  Originals(r) /\ Rank(r) \in Nat /\ Rank(r) >= 4
  <2>1. Originals(r) /\ (Rank(r) = 2 * i + 3 \/ Rank(r) = 2 * i + 2)
    BY <1>2, Zenon DEF OrigRow
  <2> QED
    BY <1>1, <2>1
<1>3. ASSUME NEW i \in 1..NumAggProcessors, AggRow(r, i)
      PROVE  Aggregates(r) /\ Rank(r) \in Nat /\ Rank(r) >= 2
  <2>1. Aggregates(r) /\ (Rank(r) = 2 * i + 1 \/ Rank(r) = 2 * i)
    BY <1>3, Zenon DEF AggRow
  <2> QED
    BY <1>1, <2>1
<1> QED
  BY <1>2, <1>3, Zenon

(* Behind the outputs' channel a place has a lane. *)
LEMMA LaneFacts ==
  ASSUME NEW r \in Places
  PROVE  /\ Rank(r) \in Nat
         /\ r = Got \/ Rank(r) >= 1
         /\ r = Got \/ r = OutC \/ Rank(r) >= 2
         /\ Rank(r) >= 2 => Originals(r) \/ Aggregates(r)
         /\ NumAggregators = 0 => Rank(r) < 2 \/ Rank(r) >= 4
<1>0. NumAggregators \in Nat
  BY AgentAssumption
<1>1. CASE r = Got \/ r = OutC
  BY <1>1, PlaceRows
<1>2. CASE NumAggregators > 0 /\ r \in {Fw, AggC}
  BY <1>0, <1>2, PlaceRows
<1>3. CASE \E i \in 1..NumProcessors : OrigRow(r, i)
  <2>1. Rank(r) \in Nat /\ Rank(r) >= 4 /\ Originals(r)
    BY <1>3, RowRanks, Zenon
  <2> QED
    BY <2>1
<1>4. CASE NumAggregators > 0 /\ \E i \in 1..NumAggProcessors : AggRow(r, i)
  <2>1. Rank(r) \in Nat /\ Rank(r) >= 2 /\ Aggregates(r)
    BY <1>4, RowRanks, Zenon
  <2> QED
    BY <1>0, <1>4, <2>1
<1> QED
  BY <1>1, <1>2, <1>3, <1>4, PlaceCases, Zenon

(* In one lane a rank is one place. *)
LEMMA RankPlace ==
  ASSUME NEW r \in Places, NEW s \in Places, Rank(r) = Rank(s)
  PROVE  r = s \/ Apart(r, s)
<1>0. NumProcessors \in Nat /\ NumAggProcessors \in Nat
  BY AgentAssumption
<1>1. CASE r = Got \/ r = OutC \/ s = Got \/ s = OutC
  BY <1>1, PlaceRows, LaneFacts, Zenon
<1>2. CASE r \in {Fw, AggC} /\ s \in {Fw, AggC}
  BY <1>2, PlaceRows
<1>3. ASSUME NEW i \in 1..NumProcessors, NEW j \in 1..NumProcessors,
             OrigRow(r, i), OrigRow(s, j)
      PROVE  r = s
  <2>1. i \in Nat /\ j \in Nat
    BY <1>0
  <2>2. /\ 2 * i + 3 = 2 * j + 3 => i = j
        /\ 2 * i + 2 = 2 * j + 2 => i = j
        /\ 2 * i + 3 # 2 * j + 2 /\ 2 * i + 2 # 2 * j + 3
    BY <2>1
  <2> QED
    BY <1>3, <2>2, Zenon DEF OrigRow
<1>4. ASSUME NEW i \in 1..NumAggProcessors, NEW j \in 1..NumAggProcessors,
             AggRow(r, i), AggRow(s, j)
      PROVE  r = s
  <2>1. i \in Nat /\ j \in Nat
    BY <1>0
  <2>2. /\ 2 * i + 1 = 2 * j + 1 => i = j
        /\ 2 * i = 2 * j => i = j
        /\ 2 * i + 1 # 2 * j /\ 2 * i # 2 * j + 1
    BY <2>1
  <2> QED
    BY <1>4, <2>2, Zenon DEF AggRow
<1>5. ASSUME NEW x \in {Fw, AggC}, NEW i \in 1..NumProcessors, NEW y, OrigRow(y, i)
      PROVE  Rank(x) # Rank(y)
  <2>1. Rank(x) = 2 \/ Rank(x) = 3
    BY PlaceRows, Zenon
  <2> QED
    BY <1>5, <2>1, RowRanks
<1>6. \A x \in {Fw, AggC} : Originals(x) /\ ~Aggregates(x)
  BY PlaceRows, Zenon
<1>7. \A x : /\ (\E i \in 1..NumProcessors : OrigRow(x, i)) => Originals(x)
             /\ (\E i \in 1..NumAggProcessors : AggRow(x, i)) => Aggregates(x)
  BY Zenon DEF OrigRow, AggRow
<1>8. ASSUME NEW x \in Places
      PROVE  \/ x = Got \/ x = OutC \/ x \in {Fw, AggC}
             \/ \E i \in 1..NumProcessors : OrigRow(x, i)
             \/ \E i \in 1..NumAggProcessors : AggRow(x, i)
  BY PlaceCases, Zenon
<1>9. CASE r \in {Fw, AggC}
  BY <1>1, <1>2, <1>5, <1>6, <1>7, <1>8, <1>9, Zenon DEF Apart
<1>10. CASE \E i \in 1..NumProcessors : OrigRow(r, i)
  BY <1>1, <1>3, <1>5, <1>7, <1>8, <1>10, Zenon DEF Apart
<1>11. CASE \E i \in 1..NumAggProcessors : AggRow(r, i)
  BY <1>1, <1>4, <1>6, <1>7, <1>8, <1>11, Zenon DEF Apart
<1> QED
  BY <1>1, <1>8, <1>9, <1>10, <1>11, Zenon

(* The next rank of the same lane feeds a place. *)
LEMMA FeedRule ==
  ASSUME NEW p \in Places, NEW q \in Places, Rank(p) = Rank(q) + 1,
         Originals(q) => Originals(p), Aggregates(q) => Aggregates(p)
  PROVE  Feeds(p, q)
<1>1. Rank(p) \in Nat /\ Rank(q) \in Nat
  BY LaneFacts, Zenon
<1>2. ASSUME NEW r \in Places, Rank(q) < Rank(r)
      PROVE  r = p \/ Rank(p) < Rank(r) \/ Apart(p, r)
  <2>1. Rank(r) \in Nat
    BY LaneFacts, Zenon
  <2>2. Rank(p) < Rank(r) \/ Rank(p) = Rank(r)
    BY <1>1, <1>2, <2>1
  <2> QED
    BY <2>2, RankPlace, Zenon
<1> QED
  BY <1>1, <1>2 DEF Feeds

(* The places of every stage are among the places. *)
LEMMA PlacesHold ==
  /\ Channels \subseteq Places /\ Got \in Places /\ OutC \in Places
  /\ \A u \in Units : u \in Places /\ Hand(u) \in Places /\ Dst(u) \in Places
  /\ NumAggregators > 0 => Fw \in Places /\ AggC \in Places
  BY ChannelFacts, Zenon DEF Places

(* Each stage hands metrics to the place next to its own. *)
LEMMA FeedFacts ==
  /\ Feeds(OutC, Got)
  /\ NumAggregators > 0 => Feeds(AggC, Fw) /\ Feeds(Fw, OutC)
  /\ \A u \in Units : Feeds(u, Hand(u)) /\ Feeds(Hand(u), Dst(u))
<1>1. NumProcessors \in Nat /\ NumAggregators \in Nat /\ NumAggProcessors \in Nat
  BY AgentAssumption
<1>2. Feeds(OutC, Got) /\ (NumAggregators > 0 => Feeds(AggC, Fw) /\ Feeds(Fw, OutC))
  BY FeedRule, PlaceRows, PlacesHold
<1>3. ASSUME NEW u \in Units PROVE Feeds(u, Hand(u))
  <2>1. Rank(u) = Rank(Hand(u)) + 1 /\ (Originals(u) <=> Originals(Hand(u)))
        /\ (Aggregates(u) <=> Aggregates(Hand(u)))
    <3>1. ASSUME NEW i \in 1..NumProcessors, u = <<"p", i>>, Hand(u) = <<"hand p", i>>
          PROVE  /\ Rank(u) = Rank(Hand(u)) + 1
                 /\ Originals(u) /\ Originals(Hand(u))
                 /\ ~Aggregates(u) /\ ~Aggregates(Hand(u))
      <4>1. 2 * i + 3 = (2 * i + 2) + 1
        BY <1>1
      <4> QED
        BY <3>1, <4>1, UnitRows, Zenon
    <3>2. ASSUME NEW i \in 1..NumAggProcessors, u = <<"ap", i>>,
                 Hand(u) = <<"hand ap", i>>
          PROVE  /\ Rank(u) = Rank(Hand(u)) + 1
                 /\ ~Originals(u) /\ ~Originals(Hand(u))
                 /\ Aggregates(u) /\ Aggregates(Hand(u))
      BY <3>2, UnitRows, Zenon
    <3> QED
      BY <3>1, <3>2, UnitCases, Zenon
  <2> QED
    BY <2>1, PlacesHold, FeedRule, Zenon
<1>4. ASSUME NEW i \in 1..NumProcessors, <<"p", i>> \in Units
      PROVE  Feeds(<<"hand p", i>>, Dst(<<"p", i>>))
  <2>1. Hand(<<"p", i>>) = <<"hand p", i>>
    BY DEF Hand
  <2>2. CASE i > 1
    <3>1. Dst(<<"p", i>>) = <<"p", i - 1>>
      BY <2>2, Zenon DEF Dst
    <3>2. /\ Rank(<<"hand p", i>>) = 2 * i + 2 /\ Rank(<<"p", i - 1>>) = 2 * (i - 1) + 3
          /\ Originals(<<"hand p", i>>) /\ ~Aggregates(<<"p", i - 1>>)
      BY UnitRows, Zenon
    <3>3. Rank(<<"hand p", i>>) = Rank(<<"p", i - 1>>) + 1
      <4>1. 2 * i + 2 = (2 * (i - 1) + 3) + 1
        BY <1>1
      <4> QED
        BY <3>2, <4>1, Zenon
    <3> QED
      BY <1>4, <2>1, <3>1, <3>2, <3>3, FeedRule, PlacesHold, Zenon
  <2>3. CASE i = 1 /\ NumAggregators > 0
    <3>1. Dst(<<"p", 1>>) = AggC
      BY <2>3 DEF Dst
    <3>2. Rank(<<"hand p", 1>>) = 4 /\ Originals(<<"hand p", 1>>)
      BY UnitRows, FirstRanks, Zenon
    <3> QED
      BY <1>4, <2>1, <2>3, <3>1, <3>2, FeedRule, PlaceRows, PlacesHold, FirstRanks, Zenon
  <2>4. CASE i = 1 /\ NumAggregators = 0
    <3>1. Dst(<<"p", 1>>) = OutC
      BY <2>4 DEF Dst
    <3>2. Rank(<<"hand p", 1>>) = 4 /\ Originals(<<"hand p", 1>>)
      BY UnitRows, FirstRanks, Zenon
    <3>3. <<"hand p", 1>> \in Places
      BY <1>4, <2>1, <2>4, PlacesHold, Zenon
    <3>4. ASSUME NEW r \in Places, 1 < Rank(r)
          PROVE  r = <<"hand p", 1>> \/ 4 < Rank(r) \/ Apart(<<"hand p", 1>>, r)
      <4>1. Rank(r) \in Nat /\ Rank(r) >= 4
        BY <2>4, <3>4, LaneFacts
      <4>2. 4 < Rank(r) \/ Rank(r) = 4
        BY <4>1
      <4> QED
        BY <3>2, <3>3, <4>2, RankPlace, Zenon
    <3>5. Feeds(<<"hand p", 1>>, OutC)
      <4>1. 1 < 4
        OBVIOUS
      <4> QED
        BY <3>2, <3>3, <3>4, <4>1, PlaceRows, PlacesHold, Zenon DEF Feeds
    <3> QED
      BY <2>4, <3>1, <3>5, Zenon
  <2>5. i > 1 \/ (i = 1 /\ NumAggregators > 0) \/ (i = 1 /\ NumAggregators = 0)
    BY <1>1
  <2> QED
    BY <2>2, <2>3, <2>4, <2>5, Zenon
<1>5. ASSUME NumAggregators > 0, NEW i \in 1..NumAggProcessors, <<"ap", i>> \in Units
      PROVE  Feeds(<<"hand ap", i>>, Dst(<<"ap", i>>))
  <2>1. Hand(<<"ap", i>>) = <<"hand ap", i>>
    BY DEF Hand
  <2>2. CASE i > 1
    <3>1. Dst(<<"ap", i>>) = <<"ap", i - 1>>
      BY <2>2, Zenon DEF Dst
    <3>2. /\ Rank(<<"hand ap", i>>) = 2 * i /\ Rank(<<"ap", i - 1>>) = 2 * (i - 1) + 1
          /\ Aggregates(<<"hand ap", i>>) /\ ~Originals(<<"ap", i - 1>>)
      BY UnitRows, Zenon
    <3>3. Rank(<<"hand ap", i>>) = Rank(<<"ap", i - 1>>) + 1
      <4>1. 2 * i = (2 * (i - 1) + 1) + 1
        BY <1>1
      <4> QED
        BY <3>2, <4>1, Zenon
    <3> QED
      BY <1>5, <2>1, <3>1, <3>2, <3>3, FeedRule, PlacesHold, Zenon
  <2>3. CASE i = 1
    <3>1. Dst(<<"ap", 1>>) = OutC
      BY DEF Dst
    <3>2. Rank(<<"hand ap", 1>>) = 2 /\ Aggregates(<<"hand ap", 1>>)
      BY UnitRows, FirstRanks, Zenon
    <3> QED
      BY <1>5, <2>1, <2>3, <3>1, <3>2, FeedRule, PlaceRows, PlacesHold, FirstRanks, Zenon
  <2>4. i > 1 \/ i = 1
    BY <1>1
  <2> QED
    BY <2>2, <2>3, <2>4, Zenon
<1>6. ASSUME NEW u \in Units PROVE Feeds(Hand(u), Dst(u))
  BY <1>4, <1>5, UnitCases, Zenon
<1> QED
  BY <1>2, <1>3, <1>6, Zenon

-----------------------------------------------------------------------------
(* What a move of a metric keeps. *)

(* Order of metrics: A is what every place holds. *)
Older(S, T) == \A m \in S, n \in T : m[1] = n[1] => m[2] < n[2]
Sorted(s) == \A j, k \in DOMAIN s : j < k /\ s[j][1] = s[k][1] => s[j][2] < s[k][2]

(* What places can hold. *)
Filled == [Places -> Seq(Metrics)]

(* No metric strays into the other lane. *)
Lanes(A) == \A p \in Places : \A m \in Range(A[p]) :
              /\ Originals(p) => m[1] \in Inputs
              /\ Aggregates(p) => m[1] \notin Inputs

(* Each place is sorted, and what is nearer to the outputs is older. *)
InOrder(A) ==
  /\ \A p \in Places : Sorted(A[p])
  /\ \A p, q \in Places : Rank(p) < Rank(q) => Older(Range(A[p]), Range(A[q]))

(* The head of p is dropped. *)
Loses(A, B, p) ==
  /\ p \in Places /\ A[p] # <<>> /\ B[p] = Tail(A[p])
  /\ \A r \in Places : r # p => B[r] = A[r]

(* The head of p goes to q. *)
Moves(A, B, p, q) ==
  /\ A[p] # <<>> /\ B[p] = Tail(A[p]) /\ B[q] = Append(A[q], Head(A[p]))
  /\ \A r \in Places : r \notin {p, q} => B[r] = A[r]

(* A new metric m comes to q. *)
Gains(A, B, q, m) ==
  /\ q \in Places /\ m \in Metrics /\ B[q] = Append(A[q], m)
  /\ \A r \in Places : r # q => B[r] = A[r]

(* m is younger than all of its source, and q is the last place of m's lane. *)
Newest(A, q, m) ==
  /\ Originals(q) => m[1] \in Inputs
  /\ Aggregates(q) => m[1] \notin Inputs
  /\ \A r \in Places : Older(Range(A[r]), {m})
  /\ \A r \in Places : Rank(q) < Rank(r) => \A n \in Range(A[r]) : m[1] # n[1]

(* Without its head a sorted sequence is sorted, and the head is older     *)
(* than the rest.                                                          *)
LEMMA TailOrder ==
  ASSUME NEW s \in Seq(Metrics), s # <<>>
  PROVE  /\ Tail(s) \in Seq(Metrics) /\ Range(Tail(s)) \subseteq Range(s)
         /\ Head(s) \in Range(s) /\ Head(s) \in Metrics
         /\ Sorted(s) => Sorted(Tail(s)) /\ Older({Head(s)}, Range(Tail(s)))
<1>1. PICK t \in Seq(Metrics) :
        /\ t = Tail(s) /\ Len(t) = Len(s) - 1
        /\ \A i \in 1..Len(t) : t[i] = s[i + 1]
  <2>1. /\ Tail(s) \in Seq(Metrics) /\ Len(Tail(s)) = Len(s) - 1
        /\ \A i \in 1..Len(Tail(s)) : Tail(s)[i] = s[i + 1]
    BY HeadTailProperties, Zenon
  <2> QED
    BY <2>1, Zenon
<1>2. PICK l \in Nat : l = Len(t) /\ Len(s) = l + 1 /\ DOMAIN t = 1..l /\ DOMAIN s = 1..(l + 1)
  <2>1. Len(s) \in Nat \ {0} /\ DOMAIN s = 1..Len(s)
    BY LenProperties, EmptySeq, Zenon
  <2>2. Len(t) \in Nat /\ DOMAIN t = 1..Len(t)
    BY <1>1, LenProperties, Zenon
  <2>3. Len(s) = Len(t) + 1
    BY <1>1, <2>1, <2>2
  <2> QED
    BY <2>1, <2>2, <2>3, Zenon
<1>3. \A i \in 1..l : t[i] = s[i + 1] /\ i + 1 \in 1..(l + 1)
  BY <1>1, <1>2
<1>4. Head(s) = s[1] /\ 1 \in DOMAIN s
  BY <1>2
<1>5. Range(t) \subseteq Range(s)
  BY <1>2, <1>3, Zenon DEF Range
<1>6. Head(s) \in Range(s) /\ Head(s) \in Metrics
  BY <1>4, HeadTailProperties, Zenon DEF Range
<1>7. ASSUME Sorted(s) PROVE Sorted(t)
  <2> SUFFICES ASSUME NEW j \in 1..l, NEW k \in 1..l, j < k, t[j][1] = t[k][1]
               PROVE  t[j][2] < t[k][2]
    BY <1>2, Zenon DEF Sorted
  <2>1. j + 1 \in DOMAIN s /\ k + 1 \in DOMAIN s /\ j + 1 < k + 1
    BY <1>2
  <2>2. t[j] = s[j + 1] /\ t[k] = s[k + 1]
    BY <1>3, Zenon
  <2> QED
    BY <1>7, <2>1, <2>2, Zenon DEF Sorted
<1>8. ASSUME Sorted(s) PROVE Older({Head(s)}, Range(t))
  <2>1. ASSUME NEW i \in 1..l, s[1][1] = t[i][1] PROVE s[1][2] < t[i][2]
    <3>1. i + 1 \in DOMAIN s /\ 1 < i + 1 /\ t[i] = s[i + 1]
      BY <1>2, <1>3
    <3> QED
      BY <1>4, <1>8, <2>1, <3>1, Zenon DEF Sorted
  <2> QED
    BY <1>2, <1>4, <2>1, Zenon DEF Older, Range
<1> QED
  BY <1>1, <1>5, <1>6, <1>7, <1>8, Zenon

(* A younger metric at the end keeps a sequence sorted. *)
LEMMA AppendOrder ==
  ASSUME NEW s \in Seq(Metrics), NEW m \in Metrics
  PROVE  /\ Append(s, m) \in Seq(Metrics) /\ Range(Append(s, m)) = Range(s) \cup {m}
         /\ Sorted(s) /\ Older(Range(s), {m}) => Sorted(Append(s, m))
<1>1. PICK t \in Seq(Metrics) :
        /\ t = Append(s, m) /\ Len(t) = Len(s) + 1
        /\ \A i \in 1..Len(s) : t[i] = s[i]
        /\ t[Len(s) + 1] = m
  <2>1. /\ Append(s, m) \in Seq(Metrics) /\ Len(Append(s, m)) = Len(s) + 1
        /\ \A i \in 1..Len(s) : Append(s, m)[i] = s[i]
        /\ Append(s, m)[Len(s) + 1] = m
    BY AppendProperties
  <2> QED
    BY <2>1, Zenon
<1>2. PICK l \in Nat : l = Len(s) /\ DOMAIN s = 1..l /\ DOMAIN t = 1..(l + 1)
  BY <1>1, LenProperties, Zenon
<1>3. ASSUME Sorted(s), Older(Range(s), {m}) PROVE Sorted(t)
  <2> SUFFICES ASSUME NEW j \in 1..(l + 1), NEW k \in 1..(l + 1), j < k, t[j][1] = t[k][1]
               PROVE  t[j][2] < t[k][2]
    BY <1>2, Zenon DEF Sorted
  <2>1. j \in 1..l /\ t[j] = s[j] /\ (k \in 1..l \/ k = l + 1)
    BY <1>1, <1>2
  <2>2. CASE k \in 1..l
    <3>1. t[k] = s[k]
      BY <1>1, <1>2, <2>2, Zenon
    <3> QED
      BY <1>2, <1>3, <2>1, <2>2, <3>1, Zenon DEF Sorted
  <2>3. CASE k = l + 1
    <3>1. t[k] = m /\ s[j] \in Range(s)
      BY <1>1, <1>2, <2>1, <2>3, Zenon DEF Range
    <3> QED
      BY <1>3, <2>1, <3>1, Zenon DEF Older
  <2> QED
    BY <2>1, <2>2, <2>3, Zenon
<1> QED
  BY <1>1, <1>3, RangeAppend

(* A metric that leaves the pipeline disturbs no order. *)
LEMMA LoseKeeps ==
  ASSUME NEW A \in Filled, NEW B, NEW p, Loses(A, B, p), Lanes(A), InOrder(A)
  PROVE  /\ Lanes(B) /\ InOrder(B)
         /\ \A r \in Places : Range(B[r]) \subseteq Range(A[r])
<1>1. p \in Places /\ A[p] \in Seq(Metrics) /\ A[p] # <<>>
  BY Zenon DEF Loses, Filled
<1>2. /\ Range(B[p]) \subseteq Range(A[p])
      /\ Sorted(A[p]) => Sorted(B[p])
  BY <1>1, TailOrder, Zenon DEF Loses
<1>3. \A r \in Places : Range(B[r]) \subseteq Range(A[r]) /\ Sorted(B[r])
  BY <1>2, Zenon DEF Loses, InOrder
<1>4. Lanes(B)
  BY <1>3, Zenon DEF Lanes
<1>5. InOrder(B)
  BY <1>3, Zenon DEF InOrder, Older
<1> QED
  BY <1>3, <1>4, <1>5, Zenon

(* Neither does one that goes from a place to the place it feeds. *)
LEMMA MoveKeeps ==
  ASSUME NEW A \in Filled, NEW B, NEW p, NEW q, Feeds(p, q), Moves(A, B, p, q),
         Lanes(A), InOrder(A)
  PROVE  /\ Lanes(B) /\ InOrder(B)
         /\ \A r \in Places : \A m \in Range(B[r]) : \E s \in Places : m \in Range(A[s])
<1>0. /\ p \in Places /\ q \in Places /\ Rank(q) < Rank(p) /\ p # q
      /\ \A r \in Places : Rank(r) \in Nat
  <2>1. \A r \in Places : Rank(r) \in Nat
    BY LaneFacts, Zenon
  <2> QED
    BY <2>1 DEF Feeds
<1>1. A[p] \in Seq(Metrics) /\ A[p] # <<>> /\ A[q] \in Seq(Metrics)
  BY <1>0, Zenon DEF Moves, Filled
<1>2. Sorted(A[p]) /\ Sorted(A[q]) /\ Older(Range(A[q]), Range(A[p]))
  BY <1>0, Zenon DEF InOrder
<1>3. PICK h : h = Head(A[p])
  OBVIOUS
<1>4. /\ Range(B[p]) \subseteq Range(A[p]) /\ h \in Range(A[p]) /\ h \in Metrics
      /\ Sorted(B[p]) /\ Older({h}, Range(B[p]))
  BY <1>1, <1>2, <1>3, TailOrder, Zenon DEF Moves
<1>5. Range(B[q]) = Range(A[q]) \cup {h} /\ Sorted(B[q])
  <2>1. Older(Range(A[q]), {h})
    BY <1>2, <1>4, Zenon DEF Older
  <2>2. B[q] = Append(A[q], h)
    BY <1>3, Zenon DEF Moves
  <2> QED
    BY <1>1, <1>2, <1>4, <2>1, <2>2, AppendOrder, Zenon
<1>6. \A r \in Places : r \notin {p, q} => Range(B[r]) = Range(A[r]) /\ Sorted(B[r])
  BY Zenon DEF Moves, InOrder
<1>7. Lanes(B)
  <2>1. /\ Originals(q) => h[1] \in Inputs
        /\ Aggregates(q) => h[1] \notin Inputs
    BY <1>0, <1>4, Zenon DEF Lanes, Feeds
  <2>2. ASSUME NEW r \in Places, NEW m \in Range(B[r])
        PROVE  (Originals(r) => m[1] \in Inputs) /\ (Aggregates(r) => m[1] \notin Inputs)
    <3>1. CASE m \in Range(A[r])
      BY <3>1, Zenon DEF Lanes
    <3>2. CASE m \notin Range(A[r])
      <4>1. r = q /\ m = h
        BY <1>4, <1>5, <1>6, <2>2, <3>2, Zenon
      <4> QED
        BY <2>1, <4>1, Zenon
    <3> QED
      BY <3>1, <3>2, Zenon
  <2> QED
    BY <2>2, Zenon DEF Lanes
<1>8. ASSUME NEW r \in Places, NEW s \in Places, Rank(r) < Rank(s)
      PROVE  Older(Range(B[r]), Range(B[s]))
  <2>1. Older(Range(A[r]), Range(A[s]))
    BY <1>8, Zenon DEF InOrder
  <2>2. CASE r # q /\ s # q
    <3>1. Range(B[r]) \subseteq Range(A[r]) /\ Range(B[s]) \subseteq Range(A[s])
      BY <1>4, <1>6, <2>2, Zenon
    <3> QED
      BY <2>1, <3>1, Zenon DEF Older
  <2>3. CASE s = q
    <3>1. Rank(r) < Rank(p) /\ r # p /\ r # q
      BY <1>0, <1>8, <2>3
    <3>2. Older(Range(A[r]), Range(A[p]))
      BY <1>0, <3>1, Zenon DEF InOrder
    <3>3. Range(B[r]) = Range(A[r])
      BY <1>6, <3>1, Zenon
    <3> QED
      BY <1>4, <1>5, <2>1, <2>3, <3>2, <3>3, Zenon DEF Older
  <2>4. CASE r = q
    <3>1. s # q /\ Range(B[s]) \subseteq Range(A[s])
      BY <1>0, <1>4, <1>6, <1>8, <2>4
    <3>2. s = p \/ Rank(p) < Rank(s) \/ Apart(p, s)
      BY <1>8, <2>4, Zenon DEF Feeds
    <3>3. Older({h}, Range(B[s]))
      <4>1. CASE s = p
        BY <1>4, <4>1, Zenon
      <4>2. CASE Rank(p) < Rank(s)
        <5>1. Older(Range(A[p]), Range(A[s]))
          BY <1>0, <4>2, Zenon DEF InOrder
        <5> QED
          BY <1>4, <3>1, <5>1, Zenon DEF Older
      <4>3. CASE Apart(p, s)
        <5>1. \A m \in Range(A[s]) : h[1] # m[1]
          BY <1>0, <1>4, <4>3, Zenon DEF Apart, Lanes
        <5> QED
          BY <3>1, <5>1, Zenon DEF Older
      <4> QED
        BY <3>2, <4>1, <4>2, <4>3, Zenon
    <3> QED
      BY <1>5, <2>1, <2>4, <3>1, <3>3, Zenon DEF Older
  <2> QED
    BY <2>2, <2>3, <2>4, Zenon
<1>9. InOrder(B)
  BY <1>4, <1>5, <1>6, <1>8, Zenon DEF InOrder
<1>10. \A r \in Places : \A m \in Range(B[r]) : \E s \in Places : m \in Range(A[s])
  BY <1>0, <1>4, <1>5, <1>6, Zenon
<1> QED
  BY <1>7, <1>9, <1>10, Zenon

(* A new metric, younger than all of its source, comes behind its lane. *)
LEMMA GainKeeps ==
  ASSUME NEW A \in Filled, NEW B, NEW q, NEW m, Gains(A, B, q, m),
         Lanes(A), InOrder(A), Newest(A, q, m)
  PROVE  /\ Lanes(B) /\ InOrder(B)
         /\ \A r \in Places : Range(B[r]) \subseteq Range(A[r]) \cup {m}
<1>0. q \in Places /\ A[q] \in Seq(Metrics) /\ m \in Metrics /\ Rank(q) \in Nat
  BY LaneFacts, Zenon DEF Gains, Filled
<1>1. Range(B[q]) = Range(A[q]) \cup {m} /\ Sorted(B[q])
  <2>1. Sorted(A[q]) /\ Older(Range(A[q]), {m})
    BY <1>0, Zenon DEF InOrder, Newest
  <2> QED
    BY <1>0, <2>1, AppendOrder, Zenon DEF Gains
<1>2. \A r \in Places : r # q => Range(B[r]) = Range(A[r]) /\ Sorted(B[r])
  BY Zenon DEF Gains, InOrder
<1>3. Lanes(B)
  <2>2. ASSUME NEW r \in Places, NEW n \in Range(B[r])
        PROVE  (Originals(r) => n[1] \in Inputs) /\ (Aggregates(r) => n[1] \notin Inputs)
    <3>1. CASE n \in Range(A[r])
      BY <3>1, Zenon DEF Lanes
    <3>2. CASE n \notin Range(A[r])
      <4>1. r = q /\ n = m
        BY <1>1, <1>2, <2>2, <3>2, Zenon
      <4> QED
        BY <4>1, Zenon DEF Newest
    <3> QED
      BY <3>1, <3>2, Zenon
  <2> QED
    BY <2>2, Zenon DEF Lanes
<1>4. ASSUME NEW r \in Places, NEW s \in Places, Rank(r) < Rank(s)
      PROVE  Older(Range(B[r]), Range(B[s]))
  <2>1. Older(Range(A[r]), Range(A[s])) /\ r # s
    <3>1. Rank(r) \in Nat
      BY LaneFacts, Zenon
    <3> QED
      BY <1>4, <3>1 DEF InOrder
  <2>2. CASE r # q /\ s # q
    BY <1>2, <2>1, <2>2, Zenon
  <2>3. CASE s = q
    <3>1. Range(B[r]) = Range(A[r])
      BY <1>2, <2>1, <2>3, Zenon
    <3> QED
      BY <1>1, <2>1, <2>3, <3>1, Zenon DEF Older, Newest
  <2>4. CASE r = q
    <3>1. Range(B[s]) = Range(A[s])
      BY <1>2, <2>1, <2>4, Zenon
    <3>2. \A n \in Range(A[s]) : m[1] # n[1]
      BY <1>4, <2>4, Zenon DEF Newest
    <3> QED
      BY <1>1, <2>1, <2>4, <3>1, <3>2, Zenon DEF Older
  <2> QED
    BY <2>2, <2>3, <2>4, Zenon
<1>5. InOrder(B)
  BY <1>1, <1>2, <1>4, Zenon DEF InOrder
<1> QED
  BY <1>1, <1>2, <1>3, <1>5, Zenon

-----------------------------------------------------------------------------
(* The steps of the agent as moves. *)

(* What every place holds. *)
HandHolds(u) == IF pcP[u] = "emit" THEN <<procHand[u]>> ELSE <<>>
FwHolds      == IF fwPc \in {"add", "send"} THEN <<fwHand[1]>> ELSE <<>>

At == [p \in Places |->
        IF p = Got THEN got ELSE IF p = Fw THEN FwHolds
        ELSE IF p[1] = "hand p" THEN HandHolds(<<"p", p[2]>>)
        ELSE IF p[1] = "hand ap" THEN HandHolds(<<"ap", p[2]>>)
        ELSE chan[p]]

(* What each place holds, by its kind. *)
AtIs ==
  /\ At[Got] = got /\ (NumAggregators > 0 => At[Fw] = FwHolds)
  /\ \A c \in Channels : At[c] = chan[c]
  /\ \A u \in Units : At[Hand(u)] = HandHolds(u)

(* The names of places tell them apart. *)
LEMMA PlaceNames ==
  /\ Got # Fw /\ Got[1] = "got" /\ Fw[1] = "fw"
  /\ \A c \in Channels : c[1] \in {"out", "agg", "p", "ap"}
  /\ \A u \in Units : /\ u \in Channels
                      /\ u = <<"p", u[2]>> \/ u = <<"ap", u[2]>>
                      /\ Hand(u)[2] = u[2]
                      /\ Hand(u)[1] = IF u[1] = "p" THEN "hand p" ELSE "hand ap"
                      /\ u[1] = "p" \/ u[1] = "ap"
  /\ \A u, v \in Units : Hand(u) = Hand(v) => u = v
<1>1. NumProcessors \in Nat /\ NumAggregators \in Nat /\ NumAggProcessors \in Nat
  BY AgentAssumption, Zenon
<1>2. ASSUME NEW u \in Units
      PROVE  /\ u \in Channels
             /\ u = <<"p", u[2]>> \/ u = <<"ap", u[2]>>
             /\ Hand(u)[2] = u[2]
             /\ Hand(u)[1] = IF u[1] = "p" THEN "hand p" ELSE "hand ap"
             /\ u[1] = "p" \/ u[1] = "ap"
  BY <1>1 DEF Units, Hand, Channels
<1>3. ASSUME NEW u \in Units, NEW v \in Units, Hand(u) = Hand(v) PROVE u = v
  BY <1>2, <1>3, Zenon
<1>4. ASSUME NEW c \in Channels PROVE c[1] \in {"out", "agg", "p", "ap"}
  <2>1. c = OutC \/ c \in Units \/ c = AggC
    BY <1>1, Zenon DEF Channels
  <2>2. OutC[1] = "out" /\ AggC[1] = "agg"
    BY DEF OutC, AggC
  <2> QED
    BY <1>2, <2>1, <2>2, Zenon
<1> QED
  BY <1>2, <1>3, <1>4, Zenon DEF Got, Fw

(* The places by their kinds. *)
LEMMA PlaceKinds ==
  \A r \in Places : \/ r \in Channels \/ r = Got
                    \/ \E u \in Units : r = Hand(u)
                    \/ NumAggregators > 0 /\ r = Fw
<1>0. NumAggregators \in Nat
  BY AgentAssumption, Zenon
<1> QED
  BY <1>0, SMT DEF Places

(* At reads the channels and hands, before and after a step. *)
LEMMA AtFacts == AtIs /\ AtIs'
<1> USE PlaceNames, PlacesHold
<1>1. AtIs
  <2>1. At[Got] = got /\ (NumAggregators > 0 => At[Fw] = FwHolds)
    BY Zenon DEF At
  <2>2. \A c \in Channels : At[c] = chan[c]
    BY Zenon DEF At
  <2>3. ASSUME NEW u \in Units PROVE At[Hand(u)] = HandHolds(u)
    <3>1. Hand(u) \in Places /\ Hand(u) # Got /\ Hand(u) # Fw
      OBVIOUS
    <3>2. CASE u[1] = "p"
      BY <3>1, <3>2, Zenon DEF At
    <3>3. CASE u[1] = "ap"
      <4>1. Hand(u)[1] = "hand ap" /\ Hand(u)[1] # "hand p" /\ Hand(u)[2] = u[2]
            /\ u = <<"ap", u[2]>>
        BY <3>3
      <4> HIDE PlaceNames, PlacesHold
      <4> QED
        BY <3>1, <4>1, Zenon DEF At
    <3> QED
      BY <3>2, <3>3, Zenon
  <2> QED
    BY <2>1, <2>2, <2>3, Zenon DEF AtIs
<1>2. AtIs'
  <2>1. At'[Got] = got' /\ (NumAggregators > 0 => At'[Fw] = FwHolds')
    BY Zenon DEF At
  <2>2. \A c \in Channels : At'[c] = chan'[c]
    BY Zenon DEF At
  <2>3. ASSUME NEW u \in Units PROVE At'[Hand(u)] = HandHolds(u)'
    <3>1. Hand(u) \in Places /\ Hand(u) # Got /\ Hand(u) # Fw
      OBVIOUS
    <3>2. CASE u[1] = "p"
      BY <3>1, <3>2, Zenon DEF At
    <3>3. CASE u[1] = "ap"
      <4>1. Hand(u)[1] = "hand ap" /\ Hand(u)[1] # "hand p" /\ Hand(u)[2] = u[2]
            /\ u = <<"ap", u[2]>>
        BY <3>3
      <4> HIDE PlaceNames, PlacesHold
      <4> QED
        BY <3>1, <4>1, Zenon DEF At
    <3> QED
      BY <3>2, <3>3, Zenon
  <2> QED
    BY <2>1, <2>2, <2>3, Zenon DEF AtIs
<1> QED
  BY <1>1, <1>2, Zenon

(* A place keeps its content if what it reads stays. *)
LEMMA PlaceSame ==
  \A r \in Places :
    /\ r \in Channels => chan'[r] = chan[r]
    /\ r = Got => got' = got
    /\ r = Fw => FwHolds' = FwHolds
    /\ \A u \in Units : r = Hand(u) => HandHolds(u)' = HandHolds(u)
    => At'[r] = At[r]
<1> SUFFICES ASSUME NEW r \in Places,
                    r \in Channels => chan'[r] = chan[r], r = Got => got' = got,
                    r = Fw => FwHolds' = FwHolds,
                    \A u \in Units : r = Hand(u) => HandHolds(u)' = HandHolds(u)
             PROVE  At'[r] = At[r]
  BY Zenon
<1>1. CASE r \in Channels
  BY <1>1, AtFacts, Zenon DEF AtIs
<1>2. CASE r = Got
  BY <1>2, AtFacts, Zenon DEF AtIs
<1>3. CASE \E u \in Units : r = Hand(u)
  BY <1>3, AtFacts, Zenon DEF AtIs
<1>4. CASE NumAggregators > 0 /\ r = Fw
  BY <1>4, AtFacts, Zenon DEF AtIs
<1> QED
  BY <1>1, <1>2, <1>3, <1>4, PlaceKinds, Zenon

(* Every place holds metrics. *)
LEMMA AtFilled == FlowType => At \in Filled
<1> SUFFICES ASSUME FlowType PROVE At \in Filled
  OBVIOUS
<1>1. <<>> \in Seq(Metrics) /\ \A m \in Metrics : <<m>> \in Seq(Metrics)
  OBVIOUS
<1>2. FwHolds \in Seq(Metrics) /\ \A u \in Units : HandHolds(u) \in Seq(Metrics)
  BY <1>1, Zenon DEF FlowType, FwHolds, HandHolds
<1>3. got \in Seq(Metrics) /\ \A c \in Channels : chan[c] \in Seq(Metrics)
  BY Zenon DEF FlowType
<1>4. \A r \in Places : At[r] \in Seq(Metrics)
  BY <1>2, <1>3, AtFacts, PlaceKinds, Zenon DEF AtIs
<1> QED
  BY <1>4, Zenon DEF At, Filled

(* A step at the level of places: nothing moves, one metric is dropped, or *)
(* one goes to the place it feeds.                                         *)
Same(A, B) == \A r \in Places : B[r] = A[r]

Flows(A, B) ==
  \/ Same(A, B)
  \/ \E p \in Places : Loses(A, B, p)
  \/ \E p, q \in Places : Feeds(p, q) /\ Moves(A, B, p, q)

(* A flow keeps the order and brings nothing new. *)
LEMMA FlowKeeps ==
  ASSUME NEW A \in Filled, NEW B, Flows(A, B), Lanes(A), InOrder(A)
  PROVE  /\ Lanes(B) /\ InOrder(B)
         /\ \A r \in Places : \A m \in Range(B[r]) : \E s \in Places : m \in Range(A[s])
<1>1. CASE Same(A, B)
  BY <1>1, Zenon DEF Same, Lanes, InOrder
<1>2. ASSUME NEW p \in Places, Loses(A, B, p)
      PROVE  /\ Lanes(B) /\ InOrder(B)
             /\ \A r \in Places : Range(B[r]) \subseteq Range(A[r])
  BY <1>2, LoseKeeps, Zenon
<1>3. ASSUME NEW p \in Places, NEW q \in Places, Feeds(p, q), Moves(A, B, p, q)
      PROVE  /\ Lanes(B) /\ InOrder(B)
             /\ \A r \in Places : \A m \in Range(B[r]) : \E s \in Places : m \in Range(A[s])
  BY <1>3, MoveKeeps, Zenon
<1> QED
  BY <1>1, <1>2, <1>3, Zenon DEF Flows

(* The steps of the goroutines as moves: many move nothing. *)
LEMMA AtSame ==
  ASSUME UNCHANGED <<chan, got, FwHolds>>,
         \A u \in Units : HandHolds(u)' = HandHolds(u)
  PROVE  Same(At, At')
  BY PlaceSame, Zenon DEF Same

(* runOutputs receives from its channel. *)
LEMMA OutMoves == Types /\ OutRecv => Moves(At, At', OutC, Got)
<1> SUFFICES ASSUME Types, OutRecv PROVE Moves(At, At', OutC, Got)
  OBVIOUS
<1>1. /\ chan[OutC] # <<>> /\ chan'[OutC] = Tail(chan[OutC])
      /\ \A c \in Channels : c # OutC => chan'[c] = chan[c]
      /\ got' = Append(got, Head(chan[OutC]))
      /\ UNCHANGED <<fwPc, fwHand, pcP, procHand>>
  BY ChannelFacts, Zenon DEF OutRecv, Recv, Types, FlowType, aggVars, procVars
<1>2. UNCHANGED FwHolds /\ \A u \in Units : HandHolds(u)' = HandHolds(u)
  BY <1>1, Zenon DEF FwHolds, HandHolds
<1>3. Got \notin Channels
  BY PlaceNames, Zenon
<1>4. ASSUME NEW r \in Places, r # OutC, r # Got PROVE At'[r] = At[r]
  BY <1>1, <1>2, <1>4, PlaceSame, Zenon
<1> QED
  BY <1>1, <1>4, AtFacts, ChannelFacts, Zenon DEF AtIs, Moves

(* The forwarder of runAggregators receives from its channel. *)
LEMMA FwMoves == Types /\ FwRecv => Moves(At, At', AggC, Fw)
<1> SUFFICES ASSUME Types, FwRecv PROVE Moves(At, At', AggC, Fw)
  OBVIOUS
<1>1. /\ chan[AggC] # <<>> /\ chan'[AggC] = Tail(chan[AggC])
      /\ \A c \in Channels : c # AggC => chan'[c] = chan[c]
      /\ NumAggregators > 0 /\ fwPc = "recv" /\ fwPc' = "add"
      /\ fwHand'[1] = Head(chan[AggC])
      /\ UNCHANGED <<got, pcP, procHand>>
  BY ChannelFacts, Zenon DEF FwRecv, Recv, Types, FlowType, AggOnly, outVars, procVars
<1>2. /\ FwHolds = <<>> /\ FwHolds' = <<Head(chan[AggC])>>
      /\ \A u \in Units : HandHolds(u)' = HandHolds(u)
  BY <1>1, Zenon DEF FwHolds, HandHolds
<1>3. \A x : Append(<<>>, x) = <<x>>
  OBVIOUS
<1>4. ASSUME NEW r \in Places, r # AggC, r # Fw PROVE At'[r] = At[r]
  BY <1>1, <1>2, <1>4, PlaceSame, Zenon
<1>5. At[AggC] = chan[AggC] /\ At'[AggC] = chan'[AggC] /\ At[Fw] = <<>>
      /\ At'[Fw] = <<Head(chan[AggC])>>
  BY <1>1, <1>2, AtFacts, ChannelFacts, Zenon DEF AtIs
<1> QED
  BY <1>1, <1>3, <1>4, <1>5, Zenon DEF Moves

(* A processor takes a metric into its hand. *)
LEMMA PassMoves ==
  ASSUME Types, NEW u \in Units, ProcPass(u)
  PROVE  Moves(At, At', u, Hand(u))
<1>1. /\ chan[u] # <<>> /\ chan'[u] = Tail(chan[u])
      /\ \A c \in Channels : c # u => chan'[c] = chan[c]
      /\ pcP[u] = "recv" /\ pcP'[u] = "emit" /\ procHand'[u] = Head(chan[u])
      /\ \A v \in Units : v # u => pcP'[v] = pcP[v] /\ procHand'[v] = procHand[v]
      /\ UNCHANGED <<got, fwPc, fwHand>>
  BY ChannelFacts, Zenon DEF ProcPass, Recv, Types, FlowType, UnitType, ProcOnly, outVars, aggVars, Src
<1>2. /\ HandHolds(u) = <<>> /\ HandHolds(u)' = <<Head(chan[u])>>
      /\ \A v \in Units : v # u => HandHolds(v)' = HandHolds(v)
      /\ UNCHANGED FwHolds
  BY <1>1, Zenon DEF FwHolds, HandHolds
<1>3. \A x : Append(<<>>, x) = <<x>>
  OBVIOUS
<1>4. ASSUME NEW r \in Places, r # u, r # Hand(u) PROVE At'[r] = At[r]
  BY <1>1, <1>2, <1>4, PlaceSame, Zenon
<1>5. At[u] = chan[u] /\ At'[u] = chan'[u] /\ At[Hand(u)] = <<>>
      /\ At'[Hand(u)] = <<Head(chan[u])>>
  BY <1>1, <1>2, AtFacts, ChannelFacts, Zenon DEF AtIs
<1> QED
  BY <1>1, <1>3, <1>4, <1>5, Zenon DEF Moves

(* A processor drops the metric it received. *)
LEMMA DropLoses ==
  ASSUME Types, NEW u \in Units, ProcDrop(u)
  PROVE  Loses(At, At', u)
<1>1. /\ chan[u] # <<>> /\ chan'[u] = Tail(chan[u])
      /\ \A c \in Channels : c # u => chan'[c] = chan[c]
      /\ UNCHANGED <<got, fwPc, fwHand, pcP, procHand>>
  BY ChannelFacts, Zenon DEF ProcDrop, Recv, Types, FlowType, ProcOnly, outVars, aggVars, Src, procVars
<1>2. /\ \A v \in Units : HandHolds(v)' = HandHolds(v)
      /\ UNCHANGED FwHolds
  BY <1>1, Zenon DEF FwHolds, HandHolds
<1>4. ASSUME NEW r \in Places, r # u PROVE At'[r] = At[r]
  BY <1>1, <1>2, <1>4, PlaceSame, Zenon
<1>5. At[u] = chan[u] /\ At'[u] = chan'[u]
  BY <1>1, <1>2, AtFacts, ChannelFacts, Zenon DEF AtIs
<1> QED
  BY <1>1, <1>4, <1>5, PlacesHold, Zenon DEF Loses

(* A send that succeeds, and one that panics. *)
LEMMA SendMoves ==
  ASSUME FlowType, NEW c \in Channels, NEW m, Send(c, m)
  PROVE  \/ UNCHANGED chan
         \/ /\ chan'[c] = Append(chan[c], m)
            /\ \A d \in Channels : d # c => chan'[d] = chan[d]
  BY Zenon DEF Send, FlowType

(* A processor emits the metric in its hand. *)
LEMMA EmitMoves ==
  ASSUME Types, NEW u \in Units, ProcEmit(u)
  PROVE  Loses(At, At', Hand(u)) \/ Moves(At, At', Hand(u), Dst(u))
<1>1. /\ Send(Dst(u), procHand[u]) /\ Dst(u) \in Channels
      /\ pcP[u] = "emit" /\ pcP'[u] = "recv"
      /\ \A v \in Units : v # u => pcP'[v] = pcP[v] /\ procHand'[v] = procHand[v]
      /\ UNCHANGED <<got, fwPc, fwHand>>
  BY ChannelFacts, Zenon DEF ProcEmit, Types, FlowType, UnitType, ProcOnly, outVars, aggVars
<1>2. /\ HandHolds(u) = <<procHand[u]>> /\ HandHolds(u)' = <<>>
      /\ \A v \in Units : v # u => HandHolds(v)' = HandHolds(v)
      /\ UNCHANGED FwHolds
  BY <1>1, Zenon DEF FwHolds, HandHolds
<1>3. ASSUME NEW x PROVE <<x>> # <<>> /\ Head(<<x>>) = x /\ Tail(<<x>>) = <<>>
  OBVIOUS
<1>4. At[Hand(u)] = <<procHand[u]>> /\ At'[Hand(u)] = <<>> /\ Hand(u) \in Places
  BY <1>2, AtFacts, PlacesHold, Zenon DEF AtIs
<1>5. CASE UNCHANGED chan
  <2>1. ASSUME NEW r \in Places, r # Hand(u) PROVE At'[r] = At[r]
    BY <1>1, <1>2, <1>5, <2>1, PlaceSame, Zenon
  <2> QED
    BY <1>3, <1>4, <2>1, Zenon DEF Loses
<1>6. CASE /\ chan'[Dst(u)] = Append(chan[Dst(u)], procHand[u])
           /\ \A d \in Channels : d # Dst(u) => chan'[d] = chan[d]
  <2>1. ASSUME NEW r \in Places, r # Hand(u), r # Dst(u) PROVE At'[r] = At[r]
    BY <1>1, <1>2, <1>6, <2>1, PlaceSame, Zenon
  <2>2. At[Dst(u)] = chan[Dst(u)] /\ At'[Dst(u)] = chan'[Dst(u)]
    BY <1>1, AtFacts, Zenon DEF AtIs
  <2> QED
    BY <1>3, <1>4, <1>6, <2>1, <2>2, Zenon DEF Moves
<1> QED
  BY <1>1, <1>5, <1>6, SendMoves, Zenon DEF Types

(* The forwarder passes the original on to the outputs. *)
LEMMA FwSendMoves ==
  ASSUME Types, NumAggregators > 0, FwSend
  PROVE  Loses(At, At', Fw) \/ Moves(At, At', Fw, OutC)
<1>1. /\ Send(OutC, fwHand[1]) /\ OutC \in Channels
      /\ fwPc = "send" /\ fwPc' = "recv"
      /\ UNCHANGED <<got, pcP, procHand>>
  BY ChannelFacts, Zenon DEF FwSend, AggOnly, outVars, procVars
<1>2. /\ FwHolds = <<fwHand[1]>> /\ FwHolds' = <<>>
      /\ \A v \in Units : HandHolds(v)' = HandHolds(v)
  BY <1>1, Zenon DEF FwHolds, HandHolds
<1>3. ASSUME NEW x PROVE <<x>> # <<>> /\ Head(<<x>>) = x /\ Tail(<<x>>) = <<>>
  OBVIOUS
<1>4. At[Fw] = <<fwHand[1]>> /\ At'[Fw] = <<>> /\ Fw \in Places
  BY <1>2, AtFacts, PlacesHold, Zenon DEF AtIs
<1>5. CASE UNCHANGED chan
  <2>1. ASSUME NEW r \in Places, r # Fw PROVE At'[r] = At[r]
    BY <1>1, <1>2, <1>5, <2>1, PlaceSame, Zenon
  <2> QED
    BY <1>3, <1>4, <2>1, Zenon DEF Loses
<1>6. CASE /\ chan'[OutC] = Append(chan[OutC], fwHand[1])
           /\ \A d \in Channels : d # OutC => chan'[d] = chan[d]
  <2>1. ASSUME NEW r \in Places, r # Fw, r # OutC PROVE At'[r] = At[r]
    BY <1>1, <1>2, <1>6, <2>1, PlaceSame, Zenon
  <2>2. At[OutC] = chan[OutC] /\ At'[OutC] = chan'[OutC]
    BY <1>1, AtFacts, Zenon DEF AtIs
  <2> QED
    BY <1>3, <1>4, <1>6, <2>1, <2>2, Zenon DEF Moves
<1> QED
  BY <1>1, <1>5, <1>6, SendMoves, Zenon DEF Types

(* The forwarder drops the original. *)
LEMMA FwDropLoses ==
  ASSUME Types, NumAggregators > 0, FwDropped
  PROVE  Loses(At, At', Fw)
<1>1. /\ fwPc = "send" /\ fwPc' = "recv"
      /\ UNCHANGED <<chan, got, pcP, procHand>>
  BY Zenon DEF FwDropped, AggOnly, outVars, procVars, chanVars
<1>2. /\ FwHolds = <<fwHand[1]>> /\ FwHolds' = <<>>
      /\ \A v \in Units : HandHolds(v)' = HandHolds(v)
  BY <1>1, Zenon DEF FwHolds, HandHolds
<1>3. ASSUME NEW x PROVE <<x>> # <<>> /\ Tail(<<x>>) = <<>>
  OBVIOUS
<1>4. At[Fw] = <<fwHand[1]>> /\ At'[Fw] = <<>> /\ Fw \in Places
  BY <1>2, AtFacts, PlacesHold, Zenon DEF AtIs
<1>5. ASSUME NEW r \in Places, r # Fw PROVE At'[r] = At[r]
  BY <1>1, <1>2, <1>5, PlaceSame, Zenon
<1> QED
  BY <1>3, <1>4, <1>5, Zenon DEF Loses

(* An input or aggregator sends a new metric. *)
LEMMA SendGains ==
  ASSUME FlowType, NEW c \in Channels, NEW m \in Metrics, Send(c, m),
         UNCHANGED <<got, fwPc, fwHand, pcP, procHand>>
  PROVE  Same(At, At') \/ Gains(At, At', c, m)
<1>1. UNCHANGED FwHolds /\ \A u \in Units : HandHolds(u)' = HandHolds(u)
  BY Zenon DEF FwHolds, HandHolds
<1>2. CASE UNCHANGED chan
  BY <1>1, <1>2, AtSame, Zenon
<1>3. CASE /\ chan'[c] = Append(chan[c], m)
           /\ \A d \in Channels : d # c => chan'[d] = chan[d]
  <2>1. ASSUME NEW r \in Places, r # c PROVE At'[r] = At[r]
    BY <1>1, <1>3, <2>1, PlaceSame, Zenon
  <2>2. At[c] = chan[c] /\ At'[c] = chan'[c] /\ c \in Places
    BY AtFacts, PlacesHold, Zenon DEF AtIs
  <2> QED
    BY <1>3, <2>1, <2>2, Zenon DEF Gains
<1> QED
  BY <1>2, <1>3, SendMoves, Zenon

(* Without background processors every step that makes no metric is a flow. *)
LEMMA StepFlows ==
  ASSUME Types, StartInv, [Next]_vars, ~Async, \A u \in Units : kept[u] = {},
         ~ \E i \in Inputs : Sending(i), ~ \E a \in Aggregators : PushSend(a)
  PROVE  Flows(At, At')
<1>0. /\ \A a, b : NumAggregators > 0 => Feeds(AggC, Fw) /\ Feeds(Fw, OutC)
      /\ Feeds(OutC, Got) /\ OutC \in Places /\ Got \in Places
      /\ \A u \in Units : /\ Feeds(u, Hand(u)) /\ Feeds(Hand(u), Dst(u))
                          /\ u \in Places /\ Hand(u) \in Places /\ Dst(u) \in Places
  BY FeedFacts, PlacesHold, Zenon
<1>1. CASE StartOk \/ ProcessorFails
  <2>1. /\ UNCHANGED <<chan, got, fwPc, fwHand, procHand>>
        /\ \A u \in Units : pcP[u] # "emit" /\ pcP'[u] # "emit"
    <3>1. CASE StartOk
      BY <3>1, Zenon DEF StartOk, Starting, StartInv, Early, Types, UnitType, chanVars,
                  outVars, aggVars
    <3>2. CASE ProcessorFails
      BY <3>2, Zenon DEF ProcessorFails, Close, Starting, StartInv, Early, Types, UnitType,
                  outVars, aggVars
    <3> QED
      BY <1>1, <3>1, <3>2, Zenon
  <2>2. UNCHANGED FwHolds /\ \A u \in Units : HandHolds(u)' = HandHolds(u)
    BY <2>1, Zenon DEF FwHolds, HandHolds
  <2> QED
    BY <2>1, <2>2, AtSame, Zenon DEF Flows
<1>2. CASE OutRecv
  BY <1>0, <1>2, OutMoves, Zenon DEF Flows
<1>3. CASE Forwarding
  <2>0. CASE NumAggregators = 0
    <3>1. fwPc = "recv" /\ aggClosed
      BY <2>0, Zenon DEF Types, AggEnd
    <3> QED
      BY <1>3, <2>0, <3>1, AgentAssumption
         DEF Forwarding, FwRecv, FwSend, FwDropped, FwCancel, CloseAggregators, FwAdd
  <2>1. CASE NumAggregators > 0
    <3>1. Feeds(AggC, Fw) /\ Feeds(Fw, OutC) /\ AggC \in Places /\ Fw \in Places
      BY <1>0, <2>1, PlacesHold, Zenon
    <3>2. CASE FwRecv
      BY <3>1, <3>2, FwMoves, Zenon DEF Flows
    <3>3. CASE FwSend
      BY <1>0, <2>1, <3>1, <3>3, FwSendMoves, Zenon DEF Flows
    <3>4. CASE FwDropped
      BY <2>1, <3>1, <3>4, FwDropLoses, Zenon DEF Flows
    <3>5. CASE FwCancel \/ CloseAggregators \/ \E taken, drop \in BOOLEAN : FwAdd(taken, drop)
      <4>1. UNCHANGED <<chan, got, pcP, procHand>> /\ FwHolds' = FwHolds
        BY <3>5 DEF FwCancel, CloseAggregators, Close, FwAdd, AggOnly, chanVars,
                    outVars, procVars, FwHolds
      <4>2. \A u \in Units : HandHolds(u)' = HandHolds(u)
        BY <4>1, Zenon DEF HandHolds
      <4> QED
        BY <4>1, <4>2, AtSame, Zenon DEF Flows
    <3> QED
      BY <1>3, <3>2, <3>3, <3>4, <3>5, Zenon DEF Forwarding
  <2> QED
    BY <2>0, <2>1, AgentAssumption
<1>4. ASSUME NEW u \in Units, UnitActs(u) PROVE Flows(At, At')
  <2>1. CASE ProcPass(u)
    BY <1>0, <2>1, PassMoves, Zenon DEF Flows
  <2>2. CASE ProcDrop(u)
    BY <1>0, <2>2, DropLoses, Zenon DEF Flows
  <2>3. CASE ProcEmit(u)
    BY <1>0, <2>3, EmitMoves, Zenon DEF Flows
  <2>4. CASE ProcStop(u) \/ ProcClose(u)
    <3>1. /\ UNCHANGED <<chan, got, fwPc, fwHand, procHand>>
          /\ \A v \in Units : pcP[v] = "emit" <=> pcP'[v] = "emit"
      BY <2>4, Zenon DEF ProcStop, ProcClose, Close, ProcOnly, Types, UnitType, chanVars,
                  outVars, aggVars
    <3>2. UNCHANGED FwHolds /\ \A v \in Units : HandHolds(v)' = HandHolds(v)
      BY <3>1, Zenon DEF FwHolds, HandHolds
    <3> QED
      BY <3>1, <3>2, AtSame, Zenon DEF Flows
  <2>5. ~ProcKeep(u) /\ ~ProcBackground(u)
    BY Zenon DEF ProcKeep, ProcBackground
  <2> QED
    BY <1>4, <2>1, <2>2, <2>3, <2>4, <2>5, Zenon DEF UnitActs, Processing
<1>5. CASE UNCHANGED <<chan, procVars, fwPc, fwHand, got, dropped>>
  <2>1. UNCHANGED FwHolds /\ \A u \in Units : HandHolds(u)' = HandHolds(u)
    BY <1>5, Zenon DEF FwHolds, HandHolds, procVars
  <2> QED
    BY <1>5, <2>1, AtSame, Zenon DEF Flows
<1> QED
  BY <1>1, <1>2, <1>3, <1>4, <1>5, FlowFrame, Zenon

(* Numbers given out: a metric in the pipeline is not newer than the last  *)
(* its source made, and older than the one a push is about to send.        *)
Fresh(m) ==
  /\ m[1] \in Inputs => m[2] <= made[m[1]]
  /\ \A a \in Aggregators :
       m[1] = NumInputs + a =>
         /\ m[2] <= pushes[a]
         /\ pcA[a] \in {"push", "lastpush"} /\ aggSum[a] > 0 => m[2] < pushes[a]

(* An input numbers its metrics upwards. *)
LEMMA MadeGrows ==
  ASSUME Types, [Next]_vars, NEW i \in Inputs
  PROVE  made[i] \in Nat /\ made'[i] \in Nat /\ made[i] <= made'[i]
<1>1. made \in [Inputs -> Nat]
  BY Zenon DEF Types, InputType
<1>2. ASSUME NEW j \in Inputs, Sending(j) PROVE made' = [made EXCEPT ![j] = @ + 1]
  BY <1>2, Zenon DEF Sending, ServiceSend, GatherSend, Make
<1> QED
  BY <1>1, <1>2, MadeFrame

(* An aggregator numbers its pushes upwards, and sends at most one metric  *)
(* for each.                                                               *)
LEMMA PushGrows ==
  ASSUME Types, [Next]_vars, NEW a \in Aggregators
  PROVE  /\ pushes[a] \in Nat /\ pushes'[a] \in Nat /\ pushes[a] <= pushes'[a]
         /\ \/ pushes[a] < pushes'[a]
            \/ ~(pcA'[a] \in {"push", "lastpush"} /\ aggSum'[a] > 0)
            \/ /\ pushes'[a] = pushes[a]
               /\ pcA[a] \in {"push", "lastpush"} /\ aggSum[a] > 0
<1> USE DEF Types, AggType
<1>1. CASE Forwarding
  <2>1. CASE FwRecv \/ FwSend \/ FwDropped \/ FwCancel \/ CloseAggregators
    BY <2>1 DEF FwRecv, FwSend, FwDropped, FwCancel, CloseAggregators
  <2>2. ASSUME NEW taken \in BOOLEAN, NEW drop \in BOOLEAN, FwAdd(taken, drop)
        PROVE  /\ UNCHANGED <<pushes, pcA>>
               /\ aggSum'[a] = aggSum[a] \/ pcA[a] \in {"wait", "done"}
    BY <2>2, Zenon DEF FwAdd, Unlocked
  <2> QED
    BY <1>1, <2>1, <2>2 DEF Forwarding
<1>2. ASSUME NEW b \in Aggregators, PushActs(b)
      PROVE  /\ pushes'[a] \in Nat /\ pushes[a] <= pushes'[a]
         /\ \/ pushes[a] < pushes'[a]
            \/ ~(pcA'[a] \in {"push", "lastpush"} /\ aggSum'[a] > 0)
            \/ /\ pushes'[a] = pushes[a]
               /\ pcA[a] \in {"push", "lastpush"} /\ aggSum[a] > 0
  BY <1>2 DEF PushActs, Pushing, PushPeriod, PushLast, PushSend, PushEnd
<1>3. CASE UNCHANGED aggVars
  BY <1>3 DEF aggVars
<1> QED
  BY <1>1, <1>2, <1>3, AggFrame, Zenon

(* A metric in the pipeline stays older than what its source will make. *)
LEMMA FreshStays ==
  ASSUME Types, [Next]_vars, NEW m \in Metrics, Fresh(m)
  PROVE  Fresh(m)'
<1>0. m[2] \in Nat
  BY AgentAssumption DEF Metrics
<1>1. ASSUME m[1] \in Inputs PROVE m[2] <= made'[m[1]]
  BY <1>0, <1>1, MadeGrows DEF Fresh
<1>2. ASSUME NEW a \in Aggregators, m[1] = NumInputs + a
      PROVE  /\ m[2] <= pushes'[a]
             /\ pcA'[a] \in {"push", "lastpush"} /\ aggSum'[a] > 0 => m[2] < pushes'[a]
  <2>1. /\ m[2] <= pushes[a]
        /\ pcA[a] \in {"push", "lastpush"} /\ aggSum[a] > 0 => m[2] < pushes[a]
    BY <1>2, Zenon DEF Fresh
  <2> QED
    BY <1>0, <2>1, PushGrows
<1> QED
  BY <1>1, <1>2, Zenon DEF Fresh

(* The inputs write to the last place of the originals, the aggregators to *)
(* the last one of the aggregates.                                         *)
LEMMA LastPlaces ==
  /\ ~Aggregates(InputC)
  /\ \A r \in Places : Rank(InputC) < Rank(r) => Aggregates(r)
  /\ NumAggregators > 0 =>
       /\ ~Originals(PushC)
       /\ \A r \in Places : Rank(PushC) < Rank(r) => Originals(r)
<1>0. NumProcessors \in Nat /\ NumAggregators \in Nat /\ NumAggProcessors \in Nat
  BY AgentAssumption, Zenon
<1>1. ASSUME NEW r \in Places, Rank(InputC) < Rank(r) PROVE Aggregates(r)
  <2>1. CASE NumProcessors > 0
    <3>1. Rank(InputC) = 2 * NumProcessors + 3
      BY <2>1, UnitRows, Zenon DEF InputC
    <3>2. CASE r \in {Got, OutC, Fw, AggC}
      BY <1>0, <1>1, <3>1, <3>2, PlaceRows
    <3>3. ASSUME NEW i \in 1..NumProcessors, OrigRow(r, i) PROVE FALSE
      <4>1. Rank(r) = 2 * i + 3 \/ Rank(r) = 2 * i + 2
        BY <3>3, Zenon DEF OrigRow
      <4> QED
        BY <1>0, <1>1, <3>1, <4>1
    <3> QED
      BY <3>2, <3>3, PlaceCases, Zenon DEF AggRow
  <2>2. CASE NumProcessors = 0
    <3>1. \A i \in 1..NumProcessors : FALSE
      BY <2>2
    <3>2. CASE NumAggregators > 0
      <4>1. Rank(InputC) = 3
        BY <2>2, <3>2, PlaceRows DEF InputC
      <4>2. r \notin {Got, OutC, Fw, AggC}
        BY <1>1, <4>1, PlaceRows
      <4> QED
        BY <3>1, <4>2, PlaceCases, Zenon DEF AggRow
    <3>3. CASE ~(NumAggregators > 0)
      <4>1. Rank(InputC) = 1
        BY <2>2, <3>3, PlaceRows DEF InputC
      <4>2. r \notin {Got, OutC}
        BY <1>1, <4>1, PlaceRows
      <4> QED
        BY <3>1, <3>3, <4>2, PlaceCases, Zenon
    <3> QED
      BY <3>2, <3>3, Zenon
  <2> QED
    BY <1>0, <2>1, <2>2
<1>2. ~Aggregates(InputC)
  BY UnitRows, PlaceRows, Zenon DEF InputC
<1>3. ~Originals(PushC)
  BY UnitRows, PlaceRows, Zenon DEF PushC
<1>4. ASSUME NumAggregators > 0, NEW r \in Places, Rank(PushC) < Rank(r) PROVE Originals(r)
  <2>1. CASE NumAggProcessors > 0
    <3>1. Rank(PushC) = 2 * NumAggProcessors + 1
      BY <2>1, UnitRows, Zenon DEF PushC
    <3>2. CASE r \in {Got, OutC}
      BY <1>0, <1>4, <3>1, <3>2, PlaceRows
    <3>3. ASSUME NEW i \in 1..NumAggProcessors, AggRow(r, i) PROVE FALSE
      <4>1. Rank(r) = 2 * i + 1 \/ Rank(r) = 2 * i
        BY <3>3, Zenon DEF AggRow
      <4> QED
        BY <1>0, <1>4, <3>1, <4>1
    <3> QED
      BY <3>2, <3>3, PlaceCases, PlaceRows, Zenon DEF OrigRow
  <2>2. CASE NumAggProcessors = 0
    <3>1. \A i \in 1..NumAggProcessors : FALSE
      BY <2>2
    <3>2. Rank(PushC) = 1
      BY <2>2, PlaceRows DEF PushC
    <3>3. r \notin {Got, OutC}
      BY <1>4, <3>2, PlaceRows
    <3> QED
      BY <3>1, <3>3, PlaceCases, PlaceRows, Zenon DEF OrigRow
  <2> QED
    BY <1>0, <2>1, <2>2
<1> QED
  BY <1>1, <1>2, <1>3, <1>4, Zenon

-----------------------------------------------------------------------------
(* The invariant. *)

(* All metrics in the pipeline are fresh. *)
FreshInv == \A r \in Places : \A m \in Range(At[r]) : Fresh(m)

(* Without background processors nothing is kept back, and the pipeline is *)
(* in order.                                                               *)
OrderInv ==
  ~Async => /\ Lanes(At) /\ InOrder(At) /\ FreshInv
            /\ \A u \in Units : kept[u] = {}

(* What places hold are metrics. *)
LEMMA HeldMetrics == FlowType => \A r \in Places : Range(At[r]) \subseteq Metrics
<1> SUFFICES ASSUME FlowType, NEW r \in Places PROVE Range(At[r]) \subseteq Metrics
  OBVIOUS
<1>1. At[r] \in Seq(Metrics)
  BY AtFilled, Zenon DEF Filled
<1> QED
  BY <1>1, RangeOfSeq, Zenon

(* Without background processors no processor keeps a metric back. *)
LEMMA KeptFrame ==
  ASSUME [Next]_vars, ~Async, \A u \in Units : kept[u] = {}
  PROVE  UNCHANGED kept
<1> USE DEF procVars
<1>1. CASE StartOk \/ ProcessorFails
  BY <1>1, Zenon DEF StartOk, ProcessorFails
<1>2. CASE OutRecv
  BY <1>2, Zenon DEF OutRecv
<1>3. CASE Forwarding
  BY <1>3, Zenon DEF Forwarding, FwRecv, FwSend, FwDropped, FwCancel, CloseAggregators, FwAdd,
              AggOnly
<1>4. CASE \E i \in Inputs : Sending(i)
  BY <1>4, Zenon DEF Sending, ServiceSend, GatherSend, InputOnly
<1>5. CASE \E a \in Aggregators : PushSend(a)
  BY <1>5, Zenon DEF PushSend, AggOnly
<1>6. ASSUME NEW u \in Units, UnitActs(u) PROVE UNCHANGED kept
  BY <1>6, Zenon DEF UnitActs, Processing, ProcPass, ProcDrop, ProcKeep, ProcEmit, ProcStop,
              ProcClose, ProcBackground
<1> QED
  BY <1>1, <1>2, <1>3, <1>4, <1>5, <1>6, FlowFrame, Zenon

(* A new metric comes to the end of its lane and is the newest of its      *)
(* source.                                                                 *)
LEMMA GainStep ==
  ASSUME Types, [Next]_vars, Lanes(At), InOrder(At), FreshInv,
         NEW c \in Channels, NEW m \in Metrics, Send(c, m),
         UNCHANGED <<got, fwPc, fwHand, pcP, procHand>>,
         Originals(c) => m[1] \in Inputs, Aggregates(c) => m[1] \notin Inputs,
         \A r \in Places : Rank(c) < Rank(r) =>
           IF m[1] \in Inputs THEN Aggregates(r) ELSE Originals(r),
         \A n \in Metrics : Fresh(n) /\ n[1] = m[1] => n[2] < m[2],
         Fresh(m)'
  PROVE  (Lanes(At) /\ InOrder(At) /\ FreshInv)'
<1>0. At \in Filled /\ FlowType
  BY AtFilled, Zenon DEF Types
<1>1. \A r \in Places : \A n \in Range(At[r]) : n \in Metrics /\ Fresh(n) /\ Fresh(n)'
  BY <1>0, HeldMetrics, FreshStays, Zenon DEF FreshInv
<1>2. CASE Same(At, At')
  BY <1>1, <1>2, Zenon DEF Same, Lanes, InOrder, FreshInv
<1>3. CASE Gains(At, At', c, m)
  <2>1. \A r \in Places : Older(Range(At[r]), {m})
    BY <1>1, Zenon DEF Older
  <2>2. ASSUME NEW r \in Places, Rank(c) < Rank(r), NEW n \in Range(At[r])
        PROVE  m[1] # n[1]
    BY <2>2, Zenon DEF Lanes
  <2>3. /\ Lanes(At') /\ InOrder(At')
        /\ \A r \in Places : Range(At'[r]) \subseteq Range(At[r]) \cup {m}
    <3>1. Newest(At, c, m)
      BY <2>1, <2>2, Zenon DEF Newest
    <3> QED
      BY <1>0, <1>3, <3>1, GainKeeps, Zenon
  <2>4. FreshInv'
    BY <1>1, <2>3, Zenon DEF FreshInv
  <2> QED
    BY <2>3, <2>4, Zenon DEF Lanes, InOrder
<1> QED
  BY <1>0, <1>2, <1>3, SendGains, Zenon

(* Every step keeps the pipeline in order. *)
LEMMA OrderStep == Types /\ StartInv /\ OrderInv /\ [Next]_vars => OrderInv'
<1> SUFFICES ASSUME Types, StartInv, OrderInv, [Next]_vars, ~Async'
             PROVE  /\ (Lanes(At) /\ InOrder(At) /\ FreshInv)'
                    /\ \A u \in Units : kept'[u] = {}
  BY Zenon DEF OrderInv
<1>0. ~Async
  <2>1. CASE Startup \/ RunReturn
    BY <2>1, Zenon DEF Startup, StartOk, InitFails, ConnectFails, ProcessorFails, InputFails,
                InputFailsLogged, UnwindStop, UnwindEnd, StartNext, RunReturn, startVars,
                Async
  <2>2. CASE UNCHANGED startVars
    BY <2>2, Zenon DEF startVars, Async
  <2> QED
    BY <2>1, <2>2, StartFrame, Zenon
<1>1. /\ Lanes(At) /\ InOrder(At) /\ FreshInv /\ \A u \in Units : kept[u] = {}
      /\ At \in Filled
  BY <1>0, AtFilled, Zenon DEF OrderInv, Types
<1>2. \A u \in Units : kept'[u] = {}
  BY <1>0, <1>1, KeptFrame, Zenon
<1>n. /\ NumInputs \in Nat /\ NumAggregators \in Nat
      /\ \A a \in Aggregators : NumAggregators > 0 /\ NumInputs + a \notin Inputs
                                /\ a \in Nat
  BY AgentAssumption DEF Aggregators, Inputs
<1>3. ASSUME NEW i \in Inputs, Sending(i) PROVE (Lanes(At) /\ InOrder(At) /\ FreshInv)'
  <2>1. made[i] < MaxMetrics /\ made[i] \in Nat /\ made \in [Inputs -> Nat]
    BY <1>3, SendRoom, Zenon DEF Types, InputType
  <2>2. /\ made' = [made EXCEPT ![i] = @ + 1] /\ Send(InputC, <<i, made'[i]>>)
        /\ UNCHANGED <<got, fwPc, fwHand, pcP, procHand>>
    BY <1>3, Zenon DEF Sending, ServiceSend, GatherSend, Make, InputOnly, outVars, aggVars,
                procVars
  <2>3. PICK m \in Metrics : m = <<i, made'[i]>> /\ m[1] = i /\ m[2] = made[i] + 1
    BY <2>1, <2>2, NewMetrics, Zenon
  <2>4. \A n \in Metrics : Fresh(n) /\ n[1] = m[1] => n[2] < m[2]
    <3>1. \A n \in Metrics : n[2] \in Nat
      BY AgentAssumption DEF Metrics
    <3> QED
      BY <2>1, <2>3, <3>1 DEF Fresh
  <2>5. Fresh(m)'
    BY <1>n, <2>1, <2>2, <2>3 DEF Fresh
  <2> QED
    BY <1>1, <2>2, <2>3, <2>4, <2>5, GainStep, LastPlaces, ChannelFacts, Zenon
<1>4. ASSUME NEW a \in Aggregators, PushSend(a)
      PROVE  (Lanes(At) /\ InOrder(At) /\ FreshInv)'
  <2>1. /\ pushes[a] \in Nat /\ 0 < pushes[a] /\ pushes[a] <= MaxPushes + 1
        /\ pcA[a] \in {"push", "lastpush"} /\ aggSum[a] > 0
        /\ aggSum \in [Aggregators -> Nat]
    BY <1>4, Zenon DEF PushSend, Types, AggType
  <2>2. /\ Send(PushC, <<NumInputs + a, pushes[a]>>)
        /\ aggSum' = [aggSum EXCEPT ![a] = 0] /\ UNCHANGED <<pushes, pcA>>
        /\ UNCHANGED <<got, fwPc, fwHand, pcP, procHand>>
    BY <1>4, Zenon DEF PushSend, AggOnly, outVars, procVars
  <2>3. PICK m \in Metrics : m = <<NumInputs + a, pushes[a]>> /\ m[1] = NumInputs + a
                             /\ m[2] = pushes[a] /\ m[1] \notin Inputs
    BY <1>n, <2>1, NewMetrics, Zenon
  <2>4. \A n \in Metrics : Fresh(n) /\ n[1] = m[1] => n[2] < m[2]
    BY <2>1, <2>3, Zenon DEF Fresh
  <2>5. Fresh(m)'
    <3>1. aggSum'[a] = 0 /\ pushes'[a] = m[2]
      BY <2>1, <2>2, <2>3, Zenon
    <3>2. \A b \in Aggregators : m[1] = NumInputs + b => b = a
      BY <1>n, <2>3
    <3> QED
      BY <2>1, <2>3, <3>1, <3>2 DEF Fresh
  <2> QED
    BY <1>1, <1>n, <2>2, <2>3, <2>4, <2>5, GainStep, LastPlaces, ChannelFacts, Zenon
<1>5. CASE /\ ~ \E i \in Inputs : Sending(i)
           /\ ~ \E a \in Aggregators : PushSend(a)
  <2>1. Flows(At, At')
    BY <1>0, <1>1, <1>5, StepFlows, Zenon
  <2>2. /\ Lanes(At') /\ InOrder(At')
        /\ \A r \in Places : \A m \in Range(At'[r]) : \E s \in Places : m \in Range(At[s])
    BY <1>1, <2>1, FlowKeeps, Zenon
  <2>3. ASSUME NEW s \in Places, NEW m \in Range(At[s]) PROVE Fresh(m)'
    BY <1>1, HeldMetrics, FreshStays, Zenon DEF FreshInv, Types
  <2>4. FreshInv'
    BY <2>2, <2>3, Zenon DEF FreshInv
  <2>5. (Lanes(At) /\ InOrder(At))'
    BY <2>2, Zenon DEF Lanes, InOrder
  <2> QED
    BY <1>2, <2>4, <2>5, Zenon
<1> QED
  BY <1>2, <1>3, <1>4, <1>5, Zenon

(* An empty pipeline is in order. *)
LEMMA OrderInit == Init => OrderInv
<1> SUFFICES ASSUME Init PROVE OrderInv
  OBVIOUS
<1>1. got = <<>> /\ FwHolds = <<>> /\ (\A c \in Channels : chan[c] = <<>>)
      /\ \A u \in Units : HandHolds(u) = <<>> /\ kept[u] = {}
  BY Zenon DEF Init, FwHolds, HandHolds
<1>2. \A r \in Places : At[r] = <<>>
  BY <1>1, AtFacts, PlaceKinds, Zenon DEF AtIs
<1>3. \A r \in Places : Range(At[r]) = {} /\ DOMAIN At[r] = {}
  BY <1>2 DEF Range
<1> QED
  BY <1>1, <1>3, Zenon DEF OrderInv, Lanes, InOrder, FreshInv, Older, Sorted

(* The outputs receive the metrics of each source in the order it made     *)
(* them, for every number of plugins and channel capacity, unless          *)
(* processors work in the background.                                      *)
THEOREM OrderCorrect == Spec => []SourceOrderKept
<1>1. OrderInv => SourceOrderKept
  <2>1. At[Got] = got /\ Got \in Places
    BY AtFacts, PlacesHold, Zenon DEF AtIs
  <2> QED
    BY <2>1, Zenon DEF OrderInv, InOrder, Sorted, SourceOrderKept
<1> QED
  BY <1>1, OrderInit, OrderStep, CloseInvHolds, PTL DEF Spec
=============================================================================
