--------------------------- MODULE CirconusProofs ---------------------------
(***************************************************************************)
(* The circonus output with any number of workers and plugins: a plugin    *)
(* has at most one destination per worker, and when the workers are idle   *)
(* nothing that was recorded waits for a flush.                            *)
(***************************************************************************)
EXTENDS Circonus, FiniteSetTheorems, TLAPS

Metric == [key : Keys, kind : Kinds]
Dest == [key : Keys, queued : BOOLEAN, pending : SUBSET Nat]
Made == 1..Len(metrics)
Created == 1..Len(dests)

TypeInv ==
  /\ process \in {"start", "connected", "run", "returned", "exited"}
  /\ metrics \in Seq(Metric) /\ offered \in Seq(Made)
  /\ batch \in [Workers -> Seq(Made)]
  /\ pcW \in [Workers -> {"none", "idle", "metric", "init", "relook", "record",
                          "count", "store", "flush", "done"}]
  /\ reg \in [Workers -> BOOLEAN]
  /\ dests \in Seq(Dest)
  /\ dest \in [Workers -> {Nil} \cup Created]
  /\ destMap \in [Keys -> {Nil} \cup Created]
  /\ todo \in [Workers -> SUBSET Created]
  /\ flushers \subseteq [w : Workers, d : Created, pc : {"zero", "send"}]

(* What the position of a worker says of the rest of its state. *)
WorkerInv ==
  /\ \A w \in Workers :
       /\ pcW[w] \in {"init", "relook", "record", "count", "store"} => batch[w] # <<>>
       /\ pcW[w] \in {"record", "count", "store"} => dest[w] # Nil
       /\ todo[w] # {} => pcW[w] = "flush"
  /\ \A f \in flushers : pcW[f.w] = "flush"
  /\ process \in {"start", "connected"} =>
       /\ \A w \in Workers : pcW[w] \in {"none", "idle"}
       /\ \A d \in Created : dests[d].pending = {}
       /\ offered = <<>>

(* A worker of a pool has a number, and the keys have one of the agent. *)
LEMMA Constants == PoolSize \in Nat \ {0} /\ "agent" \in Keys /\ Nil \notin Created
  BY CirconusAssumption DEF Keys, Nil, Created

(* A sequence of metrics made so far is one when more are made. *)
LEMMA SeqGrows ==
  ASSUME NEW a \in Nat, NEW b \in Nat, a <= b, NEW s \in Seq(1..a)
  PROVE  s \in Seq(1..b)
<1>1. Len(s) \in Nat /\ s \in [1..Len(s) -> 1..a]
  OBVIOUS
<1>2. s \in [1..Len(s) -> 1..b]
  BY <1>1
<1> QED
  BY <1>1, <1>2

(* The pool starts with nothing in hand. *)
LEMMA PoolInit == Init => TypeInv /\ WorkerInv
<1> SUFFICES ASSUME Init PROVE TypeInv /\ WorkerInv
  OBVIOUS
<1>1. /\ <<>> \in Seq(Metric) /\ <<>> \in Seq(Dest) /\ <<>> \in Seq(1..0)
      /\ Len(<<>>) = 0
  OBVIOUS
<1>2. Made = 1..0 /\ Created = 1..0
  BY <1>1 DEF Init, Made, Created
<1> QED
  BY <1>1, <1>2, Constants DEF Init, TypeInv, WorkerInv, Nil

-----------------------------------------------------------------------------
(* What the steps do to destinations. *)

(* ds and es have the same destinations, in an order given by creation. *)
SameKeys(ds, es) ==
  /\ ds \in Seq(Dest) /\ es \in Seq(Dest) /\ Len(es) = Len(ds)
  /\ \A d \in 1..Len(ds) : es[d].key = ds[d].key

(* Only the counter, or only the pending metrics, of d differ. *)
QueuedOf(ds, es, d) ==
  /\ SameKeys(ds, es)
  /\ \A e \in 1..Len(ds) : es[e].pending = ds[e].pending
  /\ \A e \in 1..Len(ds) : e # d => es[e] = ds[e]
PendingOf(ds, es, d) ==
  /\ SameKeys(ds, es)
  /\ \A e \in 1..Len(ds) : es[e].queued = ds[e].queued
  /\ \A e \in 1..Len(ds) : e # d => es[e] = ds[e]

(* The counter of one destination is set. *)
LEMMA QueuedSet ==
  ASSUME NEW ds \in Seq(Dest), NEW d \in 1..Len(ds), NEW b \in BOOLEAN,
         NEW es, es = SetQueued(ds, d, b)
  PROVE  QueuedOf(ds, es, d) /\ es[d].queued = b
<1>1. \A e \in 1..Len(ds) : ds[e] \in Dest
  OBVIOUS
<1>2. DOMAIN ds = 1..Len(ds) /\ Len(ds) \in Nat
  OBVIOUS
<1>3. es = [e \in 1..Len(ds) |-> IF e = d THEN [ds[e] EXCEPT !.queued = b] ELSE ds[e]]
  BY <1>2, Zenon DEF SetQueued
<1>4. \A e \in 1..Len(ds) : es[e] \in Dest
  BY <1>1, <1>3, Zenon DEF Dest
<1>5. es \in Seq(Dest) /\ Len(es) = Len(ds)
  BY <1>2, <1>3, <1>4
<1>6. \A e \in 1..Len(ds) : es[e].key = ds[e].key /\ es[e].pending = ds[e].pending
  BY <1>1, <1>3 DEF Dest
<1>7. es[d].queued = b
  BY <1>1, <1>3 DEF Dest
<1> QED
  BY <1>3, <1>5, <1>6, <1>7, Zenon DEF SameKeys, QueuedOf

(* The metrics that wait in one destination are set. *)
LEMMA PendingSet ==
  ASSUME NEW ds \in Seq(Dest), NEW d \in 1..Len(ds), NEW S \in SUBSET Nat,
         NEW es, es = SetPending(ds, d, S)
  PROVE  PendingOf(ds, es, d) /\ es[d].pending = S
<1>1. \A e \in 1..Len(ds) : ds[e] \in Dest
  OBVIOUS
<1>2. DOMAIN ds = 1..Len(ds) /\ Len(ds) \in Nat
  OBVIOUS
<1>3. es = [e \in 1..Len(ds) |-> IF e = d THEN [ds[e] EXCEPT !.pending = S] ELSE ds[e]]
  BY <1>2, Zenon DEF SetPending
<1>4. \A e \in 1..Len(ds) : es[e] \in Dest
  BY <1>1, <1>3, Zenon DEF Dest
<1>5. es \in Seq(Dest) /\ Len(es) = Len(ds)
  BY <1>2, <1>3, <1>4
<1>6. \A e \in 1..Len(ds) : es[e].key = ds[e].key /\ es[e].queued = ds[e].queued
  BY <1>1, <1>3 DEF Dest
<1>7. es[d].pending = S
  BY <1>1, <1>3 DEF Dest
<1> QED
  BY <1>3, <1>5, <1>6, <1>7, Zenon DEF SameKeys, PendingOf

(* ds becomes es by nothing but statistics of the agent. *)
Counted(ds, es) ==
  /\ SameKeys(ds, es)
  /\ \A d \in 1..Len(ds) : es[d].pending = ds[d].pending
  /\ \A d \in 1..Len(ds) : ds[d].queued => es[d].queued

(* The statistics of the agent only make its counter positive. *)
LEMMA AgentStatCounts ==
  ASSUME TypeInv, NEW ds \in Seq(Dest), Len(ds) = Len(dests)
  PROVE  Counted(ds, AgentStat(ds))
<1> DEFINE a == destMap["agent"]
<1>1. a \in {Nil} \cup 1..Len(ds)
  BY Constants DEF TypeInv, Created
<1>2. CASE a = Nil
  BY <1>2 DEF AgentStat, Counted, SameKeys
<1>3. CASE a # Nil
  <2>1. a \in 1..Len(ds) /\ TRUE \in BOOLEAN
    BY <1>1, <1>3
  <2>2. AgentStat(ds) = SetQueued(ds, a, TRUE)
    BY <1>3 DEF AgentStat
  <2> DEFINE es == AgentStat(ds)
  <2> HIDE DEF a, es
  <2>3. QueuedOf(ds, es, a) /\ es[a].queued = TRUE
    BY <2>1, <2>2, QueuedSet, Zenon DEF es
  <2>4. \A d \in 1..Len(ds) : ds[d].queued => es[d].queued
    BY <2>3 DEF QueuedOf
  <2> QED
    BY <2>3, <2>4, Zenon DEF QueuedOf, Counted, es
<1> QED
  BY <1>2, <1>3

-----------------------------------------------------------------------------
(* Types, and the positions of the workers. *)

PoolInv == TypeInv /\ WorkerInv

(* A step that only changes counters and pending metrics keeps the types   *)
(* of what refers to destinations.                                         *)
LEMMA SameCreated ==
  ASSUME TypeInv, SameKeys(dests, dests')
  PROVE  Created' = Created /\ dests' \in Seq(Dest)
  BY DEF SameKeys, Created

(* What was made are metrics. *)
LEMMA MetricType ==
  ASSUME TypeInv, NEW m \in Made
  PROVE  metrics[m].key \in Keys /\ metrics[m].kind \in Kinds
<1>1. metrics[m] \in Metric
  BY DEF TypeInv, Made
<1> QED
  BY <1>1 DEF Metric

(* What was created are destinations. *)
LEMMA DestType ==
  ASSUME TypeInv, NEW d \in Created
  PROVE  dests[d].queued \in BOOLEAN /\ dests[d].pending \in SUBSET Nat
<1>1. dests[d] \in Dest
  BY DEF TypeInv, Created
<1> QED
  BY <1>1 DEF Dest

(* The position of one worker changes. *)
LEMMA GoType ==
  ASSUME TypeInv, NEW w \in Workers, NEW pc, Go(w, pc),
         pc \in {"none", "idle", "metric", "init", "relook", "record", "count",
                 "store", "flush", "done"}
  PROVE  /\ pcW' \in [Workers -> {"none", "idle", "metric", "init", "relook", "record",
                                  "count", "store", "flush", "done"}]
         /\ pcW'[w] = pc /\ \A v \in Workers : v # w => pcW'[v] = pcW[v]
  BY DEF TypeInv, Go

(* Before the agent runs nothing is flushed. *)
LEMMA NoFlush ==
  ASSUME PoolInv, process \in {"start", "connected"}
  PROVE  flushers = {} /\ \A w \in Workers : todo[w] = {}
<1>1. \A w \in Workers : pcW[w] # "flush"
  BY DEF PoolInv, WorkerInv
<1>2. ASSUME NEW f \in flushers PROVE FALSE
  <2>1. f.w \in Workers
    BY DEF PoolInv, TypeInv
  <2>2. pcW[f.w] = "flush"
    BY DEF PoolInv, WorkerInv
  <2> QED
    BY <1>1, <2>1, <2>2, Zenon
<1>3. \A w \in Workers : todo[w] = {}
  BY <1>1 DEF PoolInv, WorkerInv
<1> QED
  BY <1>2, <1>3

(* The steps of the agent around the pool. *)
LEMMA PoolEnv ==
  ASSUME PoolInv,
         Connect \/ ConnectFails \/ Started \/ Close \/ Emit \/ Return \/ Exit
           \/ (\E b \in Batches : WriteCall(b)) \/ (\E w \in Workers : InitFails(w))
  PROVE  PoolInv'
<1> USE DEF PoolInv
<1>1. CASE Connect
  <2>1. /\ process' = "connected" /\ process = "start"
        /\ pcW' = [w \in Workers |-> "idle"]
        /\ UNCHANGED <<metrics, offered, batch, dest, reg, todo, flushers>>
    BY <1>1, Zenon DEF Connect
  <2>2. /\ dests' \in Seq(Dest) /\ Len(dests') \in {Len(dests), Len(dests) + 1}
        /\ \A d \in Created' : dests'[d].pending = {}
        /\ destMap' \in [Keys -> {Nil} \cup Created']
    <3>1. CASE subOutput
      BY <1>1, <2>1, <3>1, Zenon DEF Connect, TypeInv, WorkerInv, Created
    <3>2. CASE ~subOutput
      <4> DEFINE n == NewDest("agent", TRUE)
      <4>1. n \in Dest /\ n.pending = {}
        BY Constants, Zenon DEF NewDest, Dest
      <4> HIDE DEF n
      <4>2. dests' = Append(dests, n) /\ destMap' = [destMap EXCEPT !["agent"] = Len(dests')]
        BY <1>1, <3>2, Zenon DEF Connect, n
      <4>3. /\ dests' \in Seq(Dest) /\ Len(dests') = Len(dests) + 1
            /\ \A d \in Created : dests'[d] = dests[d]
            /\ dests'[Len(dests) + 1] = n
        BY <4>1, <4>2 DEF TypeInv, Created
      <4>4. Created' = Created \cup {Len(dests')}
        BY <4>3 DEF Created, TypeInv
      <4>5. \A d \in Created' : dests'[d].pending = {}
        BY <2>1, <4>1, <4>3, <4>4, Zenon DEF WorkerInv
      <4>6. destMap' \in [Keys -> {Nil} \cup Created']
        BY <4>2, <4>4, Zenon DEF TypeInv
      <4> QED
        BY <4>3, <4>5, <4>6, Zenon
    <3> QED
      BY <3>1, <3>2, Zenon
  <2>3. Created \subseteq Created' /\ Made' = Made
    BY <2>1, <2>2 DEF Created, TypeInv, Made
  <2>4. flushers = {} /\ \A w \in Workers : todo[w] = {}
    BY <2>1, NoFlush, Zenon
  <2>5. TypeInv'
    BY <2>1, <2>2, <2>3, <2>4, Zenon DEF TypeInv
  <2>6. WorkerInv'
    BY <2>1, <2>2, <2>4, Zenon DEF WorkerInv
  <2> QED
    BY <2>5, <2>6
<1>2. CASE ConnectFails \/ Started \/ Return \/ Exit \/ \E w \in Workers : InitFails(w)
  BY <1>2, Zenon DEF ConnectFails, Started, Return, Exit, InitFails, poolVars, history, TypeInv,
              WorkerInv, Made, Created
<1>3. CASE Close
  <2>1. flushers = {} /\ \A w \in Workers : todo[w] = {}
    BY <1>3, NoFlush, Zenon DEF Close
  <2>2. TypeInv'
    BY <1>3, Zenon DEF Close, TypeInv, Made, Created
  <2> QED
    BY <1>3, <2>1, <2>2, Zenon DEF Close, WorkerInv, Created
<1>4. CASE Emit
  <2>1. Counted(dests, dests')
    BY <1>4, AgentStatCounts, Zenon DEF Emit, TypeInv
  <2>2. Created' = Created /\ dests' \in Seq(Dest)
    BY <2>1, SameCreated, Zenon DEF Counted
  <2>3. TypeInv'
    BY <1>4, <2>2, Zenon DEF Emit, TypeInv, envVars, Made
  <2>4. WorkerInv'
    <3>1. \A d \in Created : dests'[d].pending = dests[d].pending
      BY <2>1, Zenon DEF Counted, Created
    <3> QED
      BY <1>4, <2>2, <3>1, Zenon DEF Emit, WorkerInv, envVars
  <2> QED
    BY <2>3, <2>4
<1>5. CASE \E b \in Batches : WriteCall(b)
  <2>1. PICK b \in Batches : WriteCall(b)
    BY <1>5
  <2>2. b \in Seq(Metric) /\ Len(b) \in Nat
    <3>1. PICK n \in 1..MaxBatch : b \in [1..n -> Metric]
      BY DEF Batches, Metric
    <3>2. n \in Nat
      BY CirconusAssumption
    <3> QED
      BY <3>1, <3>2
  <2>3. /\ metrics' \in Seq(Metric) /\ Len(metrics') = Len(metrics) + Len(b)
        /\ Len(metrics) \in Nat
    BY <2>1, <2>2 DEF WriteCall, TypeInv
  <2>4. offered' \in Seq(Made')
    <3>1. offered' = [i \in 1..Len(b) |-> Len(metrics) + i]
      BY <2>1, Zenon DEF WriteCall
    <3>2. \A i \in 1..Len(b) : Len(metrics) + i \in Made'
      BY <2>2, <2>3 DEF Made
    <3>3. offered' \in [1..Len(b) -> Made']
      BY <3>1, <3>2, Zenon
    <3> QED
      BY <2>2, <3>3
  <2>5. \A w \in Workers : batch[w] \in Seq(Made')
    BY <2>2, <2>3, SeqGrows DEF TypeInv, Made
  <2>6. TypeInv'
    BY <2>1, <2>3, <2>4, <2>5, Zenon DEF WriteCall, TypeInv, Created
  <2> QED
    BY <2>1, <2>6, Zenon DEF WriteCall, WorkerInv, Created
<1> QED
  BY <1>1, <1>2, <1>3, <1>4, <1>5, Zenon

(* What Record does to destinations: the metric waits in the one at hand. *)
LEMMA RecordEffect ==
  ASSUME PoolInv, NEW w \in Workers, Record(w)
  PROVE  /\ SameKeys(dests, dests')
         /\ \A d \in Created : dests'[d].queued = dests[d].queued
         /\ \A d \in Created : d # dest[w] => dests'[d].pending = dests[d].pending
<1> DEFINE m == Head(batch[w])
           d == dest[w]
           S == dests[d].pending \cup {m}
<1>1. d \in 1..Len(dests) /\ batch[w] # <<>> /\ dests \in Seq(Dest)
  BY Zenon DEF Record, PoolInv, WorkerInv, TypeInv, Created
<1>2. S \in SUBSET Nat
  <2>1. m \in Nat
    BY <1>1 DEF PoolInv, TypeInv, Made
  <2>2. dests[d] \in Dest
    BY <1>1
  <2> QED
    BY <2>1, <2>2, Zenon DEF Dest
<1>3. CASE dests' = dests
  BY <1>1, <1>3, Zenon DEF SameKeys, Created
<1>4. CASE dests' = SetPending(dests, d, S)
  <2>1. PendingOf(dests, dests', d)
    <3> HIDE DEF d, S
    <3> QED
      BY <1>1, <1>2, <1>4, PendingSet, Zenon
  <2> QED
    BY <1>1, <2>1, Zenon DEF PendingOf, Created
<1> QED
  BY <1>3, <1>4, Zenon DEF Record

(* What Store does: it sets the counter of the destination at hand, to     *)
(* something positive if the metric is one that is recorded.               *)
LEMMA StoreEffect ==
  ASSUME PoolInv, NEW w \in Workers, Store(w)
  PROVE  /\ QueuedOf(dests, dests', dest[w])
         /\ dests'[dest[w]].queued = Stored(w)
<1> DEFINE d == dest[w]
           q == Stored(w)
<1>1. d \in 1..Len(dests) /\ dests \in Seq(Dest)
  BY Zenon DEF Store, PoolInv, WorkerInv, TypeInv, Created
<1>2. q \in BOOLEAN
  BY Zenon DEF Stored, PoolInv, TypeInv
<1>3. dests' = SetQueued(dests, d, q)
  BY Zenon DEF Store
<1> HIDE DEF d, q
<1>4. QueuedOf(dests, dests', d) /\ dests'[d].queued = q
  BY <1>1, <1>2, <1>3, QueuedSet, Zenon
<1> QED
  BY <1>4, Zenon DEF d, q

(* The flushes of a worker stay in its flush when another one moves, or    *)
(* when it has none.                                                       *)
LEMMA FlushersStay ==
  ASSUME PoolInv, NEW w \in Workers, pcW[w] # "flush" \/ (\A f \in flushers : f.w # w),
         \A v \in Workers : v # w => pcW'[v] = pcW[v]
  PROVE  \A f \in flushers : pcW'[f.w] = "flush"
<1> SUFFICES ASSUME NEW f \in flushers PROVE pcW'[f.w] = "flush"
  OBVIOUS
<1>1. f.w \in Workers /\ pcW[f.w] = "flush"
  BY Zenon DEF PoolInv, TypeInv, WorkerInv
<1> QED
  BY <1>1, Zenon

(* A worker moves outside its flush. *)
LEMMA WorkerMoves ==
  ASSUME PoolInv, NEW w \in Workers,
         process \notin {"start", "connected"}, process' = process,
         UNCHANGED <<flushers, todo>>, pcW[w] # "flush",
         \A v \in Workers : v # w =>
           pcW'[v] = pcW[v] /\ batch'[v] = batch[v] /\ dest'[v] = dest[v],
         pcW'[w] \in {"init", "relook", "record", "count", "store"} => batch'[w] # <<>>,
         pcW'[w] \in {"record", "count", "store"} => dest'[w] # Nil
  PROVE  WorkerInv'
<1>1. \A f \in flushers : pcW'[f.w] = "flush"
  BY FlushersStay, Zenon
<1>2. todo[w] = {}
  BY Zenon DEF PoolInv, WorkerInv
<1> QED
  BY <1>1, <1>2, Zenon DEF PoolInv, WorkerInv

(* A worker between its channel and its flush: it takes a batch, looks up  *)
(* or creates a destination, and records.                                  *)
LEMMA PoolWork ==
  ASSUME PoolInv, NEW w \in Workers,
         WorkerTake(w) \/ Lookup(w) \/ InitDest(w) \/ Relook(w) \/ Record(w)
           \/ Count(w) \/ Store(w)
  PROVE  PoolInv'
<1> USE DEF PoolInv
<1>0. /\ pcW[w] \in {"idle", "metric", "init", "relook", "record", "count", "store"}
      /\ process' = process /\ UNCHANGED <<metrics, todo, flushers>> /\ Made' = Made
      /\ process \notin {"start", "connected"}
  <2>1. pcW[w] = "idle" => offered # <<>>
    BY Zenon DEF WorkerTake, Lookup, InitDest, Relook, Record, Count, Store
  <2>2. process \notin {"start", "connected"}
    BY <2>1, Zenon
       DEF WorkerTake, Lookup, InitDest, Relook, Record, Count, Store, WorkerInv
  <2> QED
    BY <2>2, Zenon
       DEF WorkerTake, Lookup, InitDest, Relook, Record, Count, Store, envVars, Made
<1>1. CASE WorkerTake(w)
  <2>1. /\ offered # <<>> /\ batch' = [batch EXCEPT ![w] = offered] /\ offered' = <<>>
        /\ Go(w, "metric") /\ UNCHANGED <<dest, reg, dests, destMap>>
    BY <1>1, Zenon DEF WorkerTake
  <2>2. TypeInv'
    BY <1>0, <2>1, GoType DEF TypeInv, Created
  <2>3. pcW'[w] = "metric" /\ \A v \in Workers : v # w => pcW'[v] = pcW[v]
    BY <2>1, GoType, Zenon
  <2>4. \A v \in Workers : v # w => batch'[v] = batch[v]
    BY <2>1, Zenon DEF TypeInv
  <2>5. WorkerInv'
    BY <1>0, <2>1, <2>3, <2>4, WorkerMoves, Zenon
  <2> QED
    BY <2>2, <2>5, Zenon
<1>2. ASSUME Found(w), pcW[w] \in {"metric", "relook"}, batch[w] # <<>>,
             InMap(Head(batch[w])) # Nil, UNCHANGED <<offered, reg, dests, destMap>>
      PROVE  PoolInv'
  <2>1. Head(batch[w]) \in Made
    BY <1>2 DEF TypeInv
  <2>2. metrics[Head(batch[w])].key \in Keys
    BY <2>1, MetricType, Zenon
  <2>3. InMap(Head(batch[w])) \in Created
    BY <1>2, <2>2, Zenon DEF InMap, TypeInv
  <2>4. dest' = [dest EXCEPT ![w] = InMap(Head(batch[w]))] /\ Go(w, "record") /\ batch' = batch
    BY <1>2, Zenon DEF Found
  <2>5. TypeInv'
    BY <1>0, <1>2, <2>3, <2>4, GoType, Zenon DEF TypeInv, Created
  <2>6. dest'[w] # Nil
    BY <2>3, <2>4, Constants, Zenon DEF TypeInv
  <2>7. WorkerInv'
    BY <1>0, <1>2, <2>4, <2>6, GoType, WorkerMoves, Zenon DEF TypeInv
  <2> QED
    BY <2>5, <2>7
<1>3. ASSUME NoDestination(w), pcW[w] \in {"metric", "relook"}, batch[w] # <<>>,
             UNCHANGED <<offered, reg, dests, destMap>>
      PROVE  PoolInv'
  <2>1. batch' = [batch EXCEPT ![w] = Tail(@)] /\ Go(w, "metric") /\ dest' = dest
    BY <1>3, Zenon DEF NoDestination
  <2>2. Tail(batch[w]) \in Seq(Made)
    BY <1>3 DEF TypeInv
  <2>3. TypeInv'
    BY <1>0, <1>3, <2>1, <2>2, GoType, Zenon DEF TypeInv, Created
  <2>4. pcW'[w] = "metric" /\ \A v \in Workers : v # w => pcW'[v] = pcW[v]
    BY <2>1, GoType, Zenon
  <2>5. \A v \in Workers : v # w => batch'[v] = batch[v]
    BY <2>1, Zenon DEF TypeInv
  <2>6. WorkerInv'
    BY <1>0, <1>3, <2>1, <2>4, <2>5, WorkerMoves, Zenon
  <2> QED
    BY <2>3, <2>6
<1>4. CASE Lookup(w)
  <2>1. pcW[w] = "metric" /\ batch[w] # <<>> /\ UNCHANGED <<offered, reg, dests, destMap>>
    BY <1>4, Zenon DEF Lookup
  <2>2. CASE Go(w, "init") /\ UNCHANGED <<batch, dest>>
    <3>1. TypeInv'
      BY <1>0, <2>1, <2>2, GoType, Zenon DEF TypeInv, Created
    <3>2. pcW'[w] = "init" /\ \A v \in Workers : v # w => pcW'[v] = pcW[v]
      BY <2>2, GoType, Zenon
    <3>3. WorkerInv'
      BY <1>0, <2>1, <2>2, <3>2, WorkerMoves, Zenon
    <3> QED
      BY <3>1, <3>3
  <2> QED
    BY <1>2, <1>3, <1>4, <2>1, <2>2, Zenon DEF Lookup
<1>5. CASE Relook(w)
  BY <1>2, <1>3, <1>5, Zenon DEF Relook, WorkerInv
<1>6. CASE InitDest(w)
  <2> DEFINE k == metrics[Head(batch[w])].key
             n == NewDest(k, FALSE)
  <2>1. /\ pcW[w] = "init" /\ Go(w, "relook")
        /\ dests' = Append(dests, n) /\ destMap' = [destMap EXCEPT ![k] = Len(dests')]
        /\ UNCHANGED <<offered, batch, dest, reg>>
    BY <1>6, Zenon DEF InitDest
  <2>2. batch[w] # <<>>
    BY <2>1, Zenon DEF WorkerInv
  <2>3. k \in Keys
    <3>1. Head(batch[w]) \in Made
      BY <2>2 DEF TypeInv
    <3> QED
      BY <3>1, MetricType, Zenon
  <2>4. n \in Dest
    BY <2>3, Zenon DEF NewDest, Dest
  <2> HIDE DEF n, k
  <2>5. dests' \in Seq(Dest) /\ Len(dests') = Len(dests) + 1 /\ Len(dests) \in Nat
    BY <2>1, <2>4 DEF TypeInv
  <2>6. Created \subseteq Created' /\ Len(dests') \in Created'
    BY <2>5 DEF Created
  <2>7. flushers' \subseteq [w : Workers, d : Created', pc : {"zero", "send"}]
    BY <1>0, <2>6, Zenon DEF TypeInv
  <2>8. TypeInv'
    BY <1>0, <2>1, <2>3, <2>5, <2>6, <2>7, GoType, Zenon DEF TypeInv
  <2>9. WorkerInv'
    BY <1>0, <2>1, <2>2, GoType, WorkerMoves
  <2> QED
    BY <2>8, <2>9
<1>7. CASE Count(w)
  <2>1. /\ pcW[w] = "count" /\ Go(w, "store")
        /\ reg' = [reg EXCEPT ![w] = dests[dest[w]].queued]
        /\ UNCHANGED <<offered, batch, dest, dests, destMap>>
    BY <1>7, Zenon DEF Count
  <2>2. dest[w] \in Created /\ dest[w] # Nil /\ batch[w] # <<>>
    BY <2>1, Zenon DEF TypeInv, WorkerInv
  <2>3. dests[dest[w]].queued \in BOOLEAN
    BY <2>2, DestType, Zenon
  <2>4. TypeInv'
    BY <1>0, <2>1, <2>3, GoType, Zenon DEF TypeInv, Created
  <2>5. WorkerInv'
    BY <1>0, <2>1, <2>2, GoType, WorkerMoves, Zenon
  <2> QED
    BY <2>4, <2>5
<1>8. CASE Record(w)
  <2>1. pcW[w] = "record" /\ Go(w, "count") /\ UNCHANGED <<offered, batch, dest, reg, destMap>>
    BY <1>8, Zenon DEF Record
  <2>2. dest[w] \in Created /\ dest[w] # Nil /\ batch[w] # <<>>
    BY <2>1, Zenon DEF TypeInv, WorkerInv
  <2>3. SameKeys(dests, dests')
    BY <1>8, RecordEffect, Zenon
  <2>4. Created' = Created /\ dests' \in Seq(Dest)
    BY <2>3, SameCreated, Zenon
  <2>5. TypeInv'
    BY <1>0, <2>1, <2>4, GoType, Zenon DEF TypeInv
  <2>6. WorkerInv'
    BY <1>0, <2>1, <2>2, GoType, WorkerMoves, Zenon
  <2> QED
    BY <2>5, <2>6
<1>9. CASE Store(w)
  <2>1. /\ pcW[w] = "store" /\ Go(w, "metric") /\ batch' = [batch EXCEPT ![w] = Tail(@)]
        /\ UNCHANGED <<offered, dest, reg, destMap>>
    BY <1>9, Zenon DEF Store
  <2>2. batch[w] # <<>>
    BY <2>1, Zenon DEF WorkerInv
  <2>3. Tail(batch[w]) \in Seq(Made)
    BY <2>2 DEF TypeInv
  <2>4. SameKeys(dests, dests')
    BY <1>9, StoreEffect, Zenon DEF QueuedOf
  <2>5. Created' = Created /\ dests' \in Seq(Dest)
    BY <2>4, SameCreated
  <2>6. TypeInv'
    BY <1>0, <2>1, <2>3, <2>5, GoType, Zenon DEF TypeInv
  <2>7. pcW'[w] = "metric" /\ \A v \in Workers : v # w => pcW'[v] = pcW[v]
    BY <2>1, GoType, Zenon
  <2>8. \A v \in Workers : v # w => batch'[v] = batch[v]
    BY <2>1, Zenon DEF TypeInv
  <2>9. WorkerInv'
    BY <1>0, <2>1, <2>7, <2>8, WorkerMoves, Zenon
  <2> QED
    BY <2>6, <2>9
<1> QED
  BY <1>1, <1>4, <1>5, <1>6, <1>7, <1>8, <1>9, Zenon

(* A flush changes destinations without creating any. *)
LEMMA FlushEffect ==
  ASSUME PoolInv, NEW f \in flushers, FlushZero(f) \/ FlushSend(f) \/ FlushFails(f)
  PROVE  /\ SameKeys(dests, dests')
         /\ \A d \in Created : dests'[d].pending \in {dests[d].pending, {}}
         /\ \A d \in Created : d # f.d => dests'[d].pending = dests[d].pending
<1>1. f.d \in 1..Len(dests) /\ dests \in Seq(Dest) /\ Created = 1..Len(dests)
  BY Zenon DEF PoolInv, TypeInv, Created
<1> DEFINE es == SetPending(dests, f.d, {})
<1>2. PendingOf(dests, es, f.d) /\ es[f.d].pending = {}
  BY <1>1, PendingSet
<1>3. CASE FlushZero(f)
  <2>1. QueuedOf(dests, dests', f.d)
    BY <1>1, <1>3, QueuedSet, Zenon DEF FlushZero
  <2> QED
    BY <1>1, <2>1, Zenon DEF QueuedOf
<1> HIDE DEF es
<1>4. CASE FlushSend(f)
  <2>1. es \in Seq(Dest) /\ Len(es) = Len(dests)
    BY <1>2, Zenon DEF PendingOf, SameKeys
  <2>2. dests' = AgentStat(es)
    BY <1>4, Zenon DEF FlushSend, es
  <2>3. Counted(es, dests')
    BY <2>1, <2>2, AgentStatCounts, Zenon DEF PoolInv
  <2>4. \A d \in Created : dests'[d].pending = es[d].pending
    BY <1>1, <2>1, <2>3, Zenon DEF Counted
  <2>5. SameKeys(dests, dests')
    BY <1>2, <2>1, <2>3, Zenon DEF Counted, PendingOf, SameKeys
  <2> QED
    BY <1>1, <1>2, <2>4, <2>5, Zenon DEF PendingOf
<1>5. CASE FlushFails(f)
  <2>1. dests' = dests \/ dests' = es
    BY <1>5, Zenon DEF FlushFails, es
  <2> QED
    BY <1>1, <1>2, <2>1, Zenon DEF PendingOf, SameKeys
<1> QED
  BY <1>3, <1>4, <1>5, Zenon

(* A flush moves on or ends. *)
LEMMA PoolFlusher ==
  ASSUME PoolInv, NEW f \in flushers, FlushZero(f) \/ FlushSend(f) \/ FlushFails(f)
  PROVE  PoolInv'
<1>1. /\ process' = process /\ Made' = Made
      /\ UNCHANGED <<metrics, offered, pcW, batch, dest, reg, todo, destMap>>
  BY Zenon DEF FlushZero, FlushSend, FlushFails, envVars, Made
<1>2. Created' = Created /\ dests' \in Seq(Dest)
  BY FlushEffect, SameCreated, Zenon DEF PoolInv
<1>3. f \in [w : Workers, d : Created, pc : {"zero", "send"}]
  BY Zenon DEF PoolInv, TypeInv
<1>4. \A g \in flushers' : /\ g \in [w : Workers, d : Created, pc : {"zero", "send"}]
                           /\ \E h \in flushers : g.w = h.w
  <2>1. CASE FlushZero(f)
    <3> DEFINE g == [f EXCEPT !.pc = "send"]
    <3>1. g \in [w : Workers, d : Created, pc : {"zero", "send"}] /\ g.w = f.w
      BY <1>3
    <3>2. flushers' = (flushers \ {f}) \cup {g}
      BY <2>1 DEF FlushZero, Step
    <3> HIDE DEF g
    <3> QED
      BY <3>1, <3>2, Zenon DEF PoolInv, TypeInv
  <2>2. CASE FlushSend(f) \/ FlushFails(f)
    BY <2>2, Zenon DEF FlushSend, FlushFails, End, PoolInv, TypeInv
  <2> QED
    BY <2>1, <2>2, Zenon
<1>5. TypeInv'
  BY <1>1, <1>2, <1>4, Zenon DEF PoolInv, TypeInv
<1>6. process \notin {"start", "connected"}
  BY NoFlush, Zenon
<1>7. WorkerInv'
  <2>1. \A g \in flushers' : pcW'[g.w] = "flush"
    <3> SUFFICES ASSUME NEW g \in flushers' PROVE pcW'[g.w] = "flush"
      OBVIOUS
    <3>1. PICK h \in flushers : g.w = h.w
      BY <1>4, Zenon
    <3> QED
      BY <1>1, <3>1, Zenon DEF PoolInv, WorkerInv
  <2> QED
    BY <1>1, <1>6, <2>1, Zenon DEF PoolInv, WorkerInv
<1> QED
  BY <1>5, <1>7, Zenon DEF PoolInv

(* A worker begins its flush, starts the flush of a destination, and ends. *)
LEMMA PoolFlush ==
  ASSUME PoolInv, NEW w \in Workers,
         FlushBegin(w) \/ (\E d \in todo[w] : FlushDest(w, d)) \/ FlushEnd(w)
  PROVE  PoolInv'
<1>1. /\ process' = process /\ Made' = Made
      /\ UNCHANGED <<metrics, offered, batch, dest, reg, destMap>>
  BY Zenon DEF FlushBegin, FlushDest, FlushEnd, envVars, Made
<1>2. Created' = Created /\ dests' \in Seq(Dest)
  <2>1. dests \in Seq(Dest)
    BY Zenon DEF PoolInv, TypeInv
  <2>2. dests' = dests \/ dests' = AgentStat(dests)
    BY Zenon DEF FlushBegin, FlushDest, FlushEnd
  <2>3. CASE dests' = AgentStat(dests)
    BY <2>1, <2>3, AgentStatCounts, SameCreated, Zenon DEF PoolInv, Counted
  <2> QED
    BY <2>1, <2>2, <2>3, Zenon DEF Created
<1>3. pcW[w] \in {"metric", "flush"}
  BY Zenon DEF FlushBegin, FlushDest, FlushEnd, PoolInv, WorkerInv
<1>4. process \notin {"start", "connected"}
  BY <1>3, Zenon DEF PoolInv, WorkerInv
<1>5. CASE FlushBegin(w)
  <2>1. pcW'[w] = "flush" /\ \A v \in Workers : v # w => pcW'[v] = pcW[v]
    BY <1>5, GoType, Zenon DEF FlushBegin, PoolInv
  <2>2. pcW[w] = "metric" /\ flushers' = flushers
        /\ todo' = [todo EXCEPT ![w] = {destMap[k] : k \in Keys} \ {Nil}]
    BY <1>5, Zenon DEF FlushBegin
  <2>3. {destMap[k] : k \in Keys} \ {Nil} \subseteq Created
    BY Zenon DEF PoolInv, TypeInv
  <2>4. TypeInv'
    BY <1>1, <1>2, <1>5, <2>2, <2>3, GoType DEF FlushBegin, PoolInv, TypeInv
  <2>5. \A f \in flushers : pcW'[f.w] = "flush"
    BY <2>1, <2>2, FlushersStay, Zenon
  <2>6. WorkerInv'
    BY <1>1, <1>4, <2>1, <2>2, <2>5, Zenon DEF PoolInv, WorkerInv, TypeInv
  <2> QED
    BY <2>4, <2>6, Zenon DEF PoolInv
<1>6. ASSUME NEW d \in todo[w], FlushDest(w, d) PROVE PoolInv'
  <2> DEFINE f == [w |-> w, d |-> d, pc |-> "zero"]
  <2>1. /\ pcW' = pcW /\ todo' = [todo EXCEPT ![w] = @ \ {d}]
        /\ flushers' \in {flushers, flushers \cup {f}}
    BY <1>6, Zenon DEF FlushDest
  <2>2. d \in Created /\ pcW[w] = "flush"
    BY <1>6, Zenon DEF PoolInv, TypeInv, WorkerInv
  <2>3. f \in [w : Workers, d : Created, pc : {"zero", "send"}] /\ f.w = w
    BY <2>2, Zenon
  <2> HIDE DEF f
  <2>4. TypeInv'
    BY <1>1, <1>2, <2>1, <2>3, Zenon DEF PoolInv, TypeInv
  <2>5. WorkerInv'
    BY <1>1, <1>4, <2>1, <2>2, <2>3, Zenon DEF PoolInv, WorkerInv, TypeInv
  <2> QED
    BY <2>4, <2>5, Zenon DEF PoolInv
<1>7. CASE FlushEnd(w)
  <2>1. pcW'[w] = "idle" /\ \A v \in Workers : v # w => pcW'[v] = pcW[v]
    BY <1>7, GoType, Zenon DEF FlushEnd, PoolInv
  <2>2. /\ pcW[w] = "flush" /\ todo[w] = {} /\ (\A f \in flushers : f.w # w)
        /\ flushers' = flushers /\ todo' = todo
    BY <1>7, Zenon DEF FlushEnd
  <2>3. TypeInv'
    BY <1>1, <1>2, <1>7, <2>2, GoType, Zenon DEF FlushEnd, PoolInv, TypeInv
  <2>4. \A f \in flushers : pcW'[f.w] = "flush"
    BY <2>1, <2>2, FlushersStay, Zenon
  <2>5. WorkerInv'
    BY <1>1, <1>4, <2>1, <2>2, <2>4, Zenon DEF PoolInv, WorkerInv
  <2> QED
    BY <2>3, <2>5 DEF PoolInv
<1> QED
  BY <1>5, <1>6, <1>7, Zenon

(* The steps of the pool, one by one. *)
LEMMA NextCases ==
  ASSUME [Next]_vars
  PROVE  \/ Connect \/ ConnectFails \/ Started \/ Close \/ Emit \/ Return \/ Exit
         \/ \E b \in Batches : WriteCall(b)
         \/ \E w \in Workers :
              \/ InitFails(w)
              \/ WorkerTake(w) \/ Lookup(w) \/ InitDest(w) \/ Relook(w) \/ Record(w)
              \/ Count(w) \/ Store(w)
              \/ FlushBegin(w) \/ (\E d \in todo[w] : FlushDest(w, d)) \/ FlushEnd(w)
         \/ \E f \in flushers : FlushZero(f) \/ FlushSend(f) \/ FlushFails(f)
         \/ UNCHANGED vars
  BY Zenon DEF Next, Worker, Flusher

(* Types and positions hold in every state. *)
LEMMA PoolNext == PoolInv /\ [Next]_vars => PoolInv'
<1> SUFFICES ASSUME PoolInv, [Next]_vars PROVE PoolInv'
  OBVIOUS
<1>1. CASE UNCHANGED vars
  BY <1>1, Zenon DEF vars, poolVars, PoolInv, TypeInv, WorkerInv, Made, Created
<1> QED
  BY <1>1, NextCases, PoolEnv, PoolWork, PoolFlush, PoolFlusher, Zenon

-----------------------------------------------------------------------------
(***************************************************************************)
(* No metric of the circonus output waits for a flush that nobody will     *)
(* make, but where += 0 reset the counter.                                 *)
(*                                                                         *)
(* The invariant names, for a destination with metrics that are neither    *)
(* submitted nor failed, who will see to them: a flush that has reset the  *)
(* counter and is about to submit, a worker that is about to count what it *)
(* recorded, or, when the counter is positive, a worker or flush that has  *)
(* yet to look at it.  A worker that recorded nothing only adds zero, so   *)
(* it does not see to them.                                                *)
(***************************************************************************)

Mapped == {destMap[k] : k \in Keys} \ {Nil}
Unsettled(d) == ~(dests[d].pending \subseteq failed)
Submitting(d) == \E f \in flushers : f.d = d /\ f.pc = "send"
Recorded(w) == metrics[Head(batch[w])].kind = "ok"
Counting(d) ==
  \E w \in Workers : pcW[w] \in {"count", "store"} /\ dest[w] = d /\ Recorded(w)
Busy(w) == pcW[w] \in {"metric", "init", "relook", "record", "count", "store"}
Coming(d) == \/ \E w \in Workers : Busy(w) \/ d \in todo[w]
             \/ \E f \in flushers : f.d = d /\ f.pc = "zero"
Due(d) == dests[d].queued /\ Coming(d)

FlushInv ==
  \A d \in Mapped :
    Unsettled(d) => Submitting(d) \/ Counting(d) \/ Due(d) \/ d \in erased

(* What is mapped was created. *)
LEMMA MappedCreated == PoolInv => Mapped \subseteq Created
  BY Zenon DEF PoolInv, TypeInv, Mapped

(* The steps of the agent. *)
LEMMA FlushEnv ==
  ASSUME PoolInv, FlushInv,
         Connect \/ ConnectFails \/ Started \/ Close \/ Emit \/ Return \/ Exit
           \/ (\E b \in Batches : WriteCall(b)) \/ (\E w \in Workers : InitFails(w))
  PROVE  FlushInv'
<1>1. CASE Connect
  <2>1. PoolInv' /\ process' = "connected"
    BY <1>1, PoolEnv, Zenon DEF Connect
  <2>2. \A d \in Created' : dests'[d].pending = {}
    BY <2>1, Zenon DEF PoolInv, WorkerInv
  <2>3. Mapped' \subseteq Created'
    BY <2>1, MappedCreated, Zenon DEF PoolInv, TypeInv, Mapped
  <2> QED
    BY <2>2, <2>3, Zenon DEF FlushInv, Unsettled
<1>2. CASE Close
  <2>1. \A d \in Created : dests[d].pending = {}
    BY <1>2, Zenon DEF Close, PoolInv, WorkerInv
  <2>2. dests' = dests /\ Mapped' = Mapped
    BY <1>2, Zenon DEF Close, Mapped
  <2> QED
    BY <2>1, <2>2, MappedCreated, Zenon DEF FlushInv, Unsettled
<1>3. CASE Emit
  <2>1. Counted(dests, dests')
    BY <1>3, AgentStatCounts, Zenon DEF Emit, PoolInv, TypeInv
  <2>2. \A d \in Mapped : d \in 1..Len(dests)
    BY MappedCreated DEF Created
  <2>3. \A d \in Mapped : /\ dests'[d].pending = dests[d].pending
                          /\ dests[d].queued => dests'[d].queued
    BY <2>1, <2>2, Zenon DEF Counted
  <2>4. /\ UNCHANGED <<pcW, batch, metrics, dest, todo, flushers, destMap, failed, erased>>
        /\ Mapped' = Mapped
    BY <1>3, Zenon DEF Emit, envVars, history, Mapped
  <2>5. \A d : Counting(d) => Counting(d)'
    BY <2>4, Zenon DEF Counting, Recorded
  <2>6. \A d : Submitting(d) => Submitting(d)'
    BY <2>4, Zenon DEF Submitting
  <2>7. \A d \in Mapped : (Due(d) => Due(d)') /\ (Unsettled(d)' => Unsettled(d))
    BY <2>3, <2>4, Zenon DEF Due, Coming, Busy, Unsettled
  <2> QED
    BY <2>4, <2>5, <2>6, <2>7, Zenon DEF FlushInv
<1>4. CASE UNCHANGED <<pcW, batch, metrics, dest, todo, flushers, dests, destMap, failed, erased>>
  BY <1>4 DEF FlushInv, Mapped, Unsettled, Submitting, Counting, Recorded, Due, Coming, Busy
<1>5. CASE \E b \in Batches : WriteCall(b)
  <2>1. PICK b \in Batches : WriteCall(b)
    BY <1>5
  <2>2. /\ UNCHANGED <<pcW, batch, dest, todo, flushers, dests, destMap, failed, erased>>
        /\ metrics' = metrics \o b /\ Mapped' = Mapped
    BY <2>1, Zenon DEF WriteCall, history, Mapped
  <2>3. \A m \in Made : metrics'[m] = metrics[m]
    <3>1. b \in Seq(Metric)
      <4>1. PICK n \in 1..MaxBatch : b \in [1..n -> Metric]
        BY DEF Batches, Metric
      <4>2. n \in Nat
        BY CirconusAssumption
      <4> QED
        BY <4>1, <4>2
    <3> QED
      BY <2>2, <3>1 DEF PoolInv, TypeInv, Made
  <2>4. \A w \in Workers : pcW[w] \in {"count", "store"} => Head(batch[w]) \in Made
    BY DEF PoolInv, TypeInv, WorkerInv
  <2>5. \A d : Counting(d) => Counting(d)'
    BY <2>2, <2>3, <2>4, Zenon DEF Counting, Recorded
  <2>6. \A d : /\ Submitting(d) => Submitting(d)'
               /\ Due(d) => Due(d)'
               /\ Unsettled(d)' => Unsettled(d)
    BY <2>2, Zenon DEF Submitting, Due, Coming, Busy, Unsettled
  <2> QED
    BY <2>2, <2>5, <2>6, Zenon DEF FlushInv
<1> QED
  BY <1>1, <1>2, <1>3, <1>4, <1>5, Zenon
     DEF ConnectFails, Started, Return, Exit, InitFails, poolVars, history

(* A worker moves from one busy position to another. *)
LEMMA BusyMoves ==
  ASSUME TypeInv, NEW w \in Workers, NEW pc, Go(w, pc), UNCHANGED <<todo, flushers>>,
         pc \in {"metric", "init", "relook", "record", "count", "store"}
  PROVE  /\ pcW'[w] = pc /\ \A v \in Workers : v # w => pcW'[v] = pcW[v]
         /\ \A d : Coming(d) => Coming(d)'
         /\ \A d : Submitting(d) => Submitting(d)'
<1>1. pcW'[w] = pc /\ \A v \in Workers : v # w => pcW'[v] = pcW[v]
  BY GoType, Zenon
<1>2. \A v \in Workers : Busy(v) => Busy(v)'
  BY <1>1, Zenon DEF Busy
<1> QED
  BY <1>1, <1>2, Zenon DEF Coming, Submitting

(* A worker takes a batch or finds its destination. *)
LEMMA FlushLookup ==
  ASSUME PoolInv, FlushInv, NEW w \in Workers, WorkerTake(w) \/ Lookup(w) \/ Relook(w)
  PROVE  FlushInv'
<1>1. /\ UNCHANGED <<todo, flushers, dests, destMap>> /\ Mapped' = Mapped
      /\ pcW[w] \in {"idle", "metric", "relook"} /\ failed \subseteq failed'
      /\ \A v \in Workers : v # w => dest'[v] = dest[v] /\ batch'[v] = batch[v]
      /\ UNCHANGED <<metrics, erased>>
  BY DEF envVars,  WorkerTake, Lookup, Relook, Found, NoDestination, Mapped, PoolInv, TypeInv
<1>2. \E pc \in {"metric", "init", "record"} : Go(w, pc)
  BY Zenon DEF WorkerTake, Lookup, Relook, Found, NoDestination
<1>3. /\ \A v \in Workers : v # w => pcW'[v] = pcW[v]
      /\ \A d : Coming(d) => Coming(d)'
      /\ \A d : Submitting(d) => Submitting(d)'
  BY <1>1, <1>2, BusyMoves, Zenon DEF PoolInv
<1>4. \A d : Counting(d) => Counting(d)'
  BY <1>1, <1>3, Zenon DEF Counting, Recorded
<1>5. \A d : (Due(d) => Due(d)') /\ (Unsettled(d)' => Unsettled(d))
  BY <1>1, <1>3, Zenon DEF Due, Unsettled
<1> QED
  BY <1>1, <1>3, <1>4, <1>5, Zenon DEF FlushInv

(* A destination that is created has nothing to settle. *)
LEMMA FlushCreate ==
  ASSUME PoolInv, FlushInv, NEW w \in Workers, InitDest(w)
  PROVE  FlushInv'
<1> DEFINE k == metrics[Head(batch[w])].key
           n == NewDest(k, FALSE)
<1>1. /\ pcW[w] = "init" /\ Go(w, "relook")
      /\ dests' = Append(dests, n) /\ destMap' = [destMap EXCEPT ![k] = Len(dests')]
      /\ UNCHANGED <<todo, flushers, batch, metrics, dest, failed, erased>>
  BY Zenon DEF InitDest, envVars, history
<1>2. n.pending = {}
  BY Zenon DEF NewDest
<1> HIDE DEF n, k
<1>3. /\ \A v \in Workers : v # w => pcW'[v] = pcW[v]
      /\ \A d : Coming(d) => Coming(d)'
      /\ \A d : Submitting(d) => Submitting(d)'
  BY <1>1, BusyMoves, Zenon DEF PoolInv
<1>4. /\ Len(dests') = Len(dests) + 1 /\ dests'[Len(dests')] = n
      /\ \A d \in Created : dests'[d] = dests[d]
  BY <1>1 DEF PoolInv, TypeInv, Created
<1>5. Mapped' \subseteq Mapped \cup {Len(dests')}
  BY <1>1, Zenon DEF Mapped, PoolInv, TypeInv
<1>6. \A d : Counting(d) => Counting(d)'
  BY <1>1, <1>3, Zenon DEF Counting, Recorded
<1>7. \A d \in Mapped : (Due(d) => Due(d)') /\ (Unsettled(d)' => Unsettled(d))
  BY <1>1, <1>3, <1>4, MappedCreated, Zenon DEF Due, Unsettled
<1>8. ASSUME NEW d \in Mapped', Unsettled(d)'
      PROVE  Submitting(d)' \/ Counting(d)' \/ Due(d)' \/ d \in erased'
  <2>1. d # Len(dests')
    BY <1>2, <1>4, <1>8, Zenon DEF Unsettled
  <2>2. d \in Mapped
    BY <1>5, <2>1, Zenon
  <2> QED
    BY <1>1, <1>3, <1>6, <1>7, <1>8, <2>2, Zenon DEF FlushInv
<1> QED
  BY <1>8, Zenon DEF FlushInv

(* What is recorded will be counted by the worker that did it. *)
LEMMA FlushRecord ==
  ASSUME PoolInv, FlushInv, NEW w \in Workers, Record(w)
  PROVE  FlushInv'
<1>1. /\ pcW[w] = "record" /\ Go(w, "count") /\ Mapped' = Mapped
      /\ UNCHANGED <<todo, flushers, batch, metrics, dest, failed, erased>>
  BY Zenon DEF Record, envVars, history, Mapped
<1>2. /\ pcW'[w] = "count" /\ \A v \in Workers : v # w => pcW'[v] = pcW[v]
      /\ \A d : Coming(d) => Coming(d)'
      /\ \A d : Submitting(d) => Submitting(d)'
  BY <1>1, BusyMoves, Zenon DEF PoolInv
<1>3. \A d : d = dest[w] /\ Recorded(w) => Counting(d)'
  BY <1>1, <1>2, Zenon DEF Counting, Recorded
<1>4. \A d : Counting(d) => Counting(d)'
  BY <1>1, <1>2, Zenon DEF Counting, Recorded
<1>5. \A d \in Created :
        /\ dests'[d].queued = dests[d].queued
        /\ d # dest[w] \/ ~Recorded(w) => dests'[d].pending = dests[d].pending
  <2>1. ~Recorded(w) => dests' = dests
    BY Zenon DEF Record, Recorded
  <2> QED
    BY <2>1, RecordEffect, Zenon
<1>6. \A d \in Created : Due(d) => Due(d)'
  BY <1>2, <1>5, Zenon DEF Due
<1>7. \A d \in Created : d # dest[w] \/ ~Recorded(w) => (Unsettled(d)' => Unsettled(d))
  BY <1>1, <1>5, Zenon DEF Unsettled
<1>8. ASSUME NEW d \in Mapped, Unsettled(d)'
      PROVE  Submitting(d)' \/ Counting(d)' \/ Due(d)' \/ d \in erased'
  <2>1. CASE d = dest[w] /\ Recorded(w)
    BY <1>3, <2>1, Zenon
  <2>2. CASE d # dest[w] \/ ~Recorded(w)
    BY <1>1, <1>2, <1>4, <1>6, <1>7, <1>8, <2>2, MappedCreated, Zenon DEF FlushInv
  <2> QED
    BY <2>1, <2>2, Zenon
<1> QED
  BY <1>1, <1>8, Zenon DEF FlushInv

(* Loading the counter changes nothing. *)
LEMMA FlushCount ==
  ASSUME PoolInv, FlushInv, NEW w \in Workers, Count(w)
  PROVE  FlushInv'
<1>1. /\ pcW[w] = "count" /\ Go(w, "store") /\ Mapped' = Mapped
      /\ UNCHANGED <<todo, flushers, batch, metrics, dest, dests, failed, erased>>
  BY Zenon DEF Count, envVars, history, Mapped
<1>2. /\ pcW'[w] = "store" /\ \A v \in Workers : v # w => pcW'[v] = pcW[v]
      /\ \A d : Coming(d) => Coming(d)'
      /\ \A d : Submitting(d) => Submitting(d)'
  BY <1>1, BusyMoves, Zenon DEF PoolInv
<1>3. \A d : Counting(d) => Counting(d)'
  BY <1>1, <1>2, Zenon DEF Counting, Recorded
<1>4. \A d : (Due(d) => Due(d)') /\ (Unsettled(d)' => Unsettled(d))
  BY <1>1, <1>2, Zenon DEF Due, Unsettled
<1> QED
  BY <1>1, <1>2, <1>3, <1>4, Zenon DEF FlushInv

(* Storing it makes the counter positive when the worker recorded          *)
(* something or had loaded a positive one, and the worker will look at it  *)
(* in its own flush.  Otherwise the store changes nothing, or it erases.   *)
LEMMA FlushStore ==
  ASSUME PoolInv, FlushInv, NEW w \in Workers, Store(w)
  PROVE  FlushInv'
<1>1. /\ pcW[w] = "store" /\ Go(w, "metric") /\ Mapped' = Mapped
      /\ UNCHANGED <<todo, flushers, metrics, dest, failed>>
  BY Zenon DEF Store, envVars, Mapped
<1>2. /\ pcW'[w] = "metric" /\ \A v \in Workers : v # w => pcW'[v] = pcW[v]
      /\ \A d : Coming(d) => Coming(d)'
      /\ \A d : Submitting(d) => Submitting(d)'
  BY <1>1, BusyMoves, Zenon DEF PoolInv
<1>3. Busy(w)' /\ \A v \in Workers : v # w => batch'[v] = batch[v]
  BY <1>2, Zenon DEF Busy, Store, PoolInv, TypeInv
<1>4. dests'[dest[w]].queued = Stored(w)
  BY StoreEffect, Zenon
<1>5. QueuedOf(dests, dests', dest[w])
  BY StoreEffect, Zenon
<1>6. \A d \in Created : /\ dests'[d].pending = dests[d].pending
                         /\ d # dest[w] => dests'[d] = dests[d]
  BY <1>5, Zenon DEF QueuedOf, Created
<1>7. /\ \A d : d # dest[w] /\ d \in erased => d \in erased'
      /\ Erases(w) => dest[w] \in erased'
      /\ ~Stored(w) /\ dest[w] \in erased => dest[w] \in erased'
  BY Zenon DEF Store, Erases
<1>8. ASSUME NEW d \in Mapped, Unsettled(d)'
      PROVE  Submitting(d)' \/ Counting(d)' \/ Due(d)' \/ d \in erased'
  <2>0. d \in Created
    BY MappedCreated
  <2>1. Unsettled(d)
    BY <1>1, <1>6, <1>8, <2>0, Zenon DEF Unsettled
  <2>2. CASE d = dest[w] /\ Stored(w)
    BY <1>3, <1>4, <2>2, Zenon DEF Due, Coming
  <2>3. CASE d = dest[w] /\ ~Stored(w)
    <3>1. Counting(d) => Counting(d)'
      BY <1>1, <1>2, <1>3, <2>3, Zenon DEF Counting, Recorded, Stored
    <3>2. Due(d) => Erases(w)
      BY <2>3, Zenon DEF Due, Erases
    <3> QED
      BY <1>2, <1>7, <2>1, <2>3, <3>1, <3>2, Zenon DEF FlushInv
  <2>4. CASE d # dest[w]
    <3>1. Counting(d) => Counting(d)'
      BY <1>1, <1>2, <1>3, <2>4, Zenon DEF Counting, Recorded
    <3>2. Due(d) => Due(d)'
      BY <1>2, <1>6, <2>0, <2>4, Zenon DEF Due
    <3> QED
      BY <1>2, <1>7, <2>1, <2>4, <3>1, <3>2, Zenon DEF FlushInv
  <2> QED
    BY <2>2, <2>3, <2>4, Zenon
<1> QED
  BY <1>1, <1>8, Zenon DEF FlushInv

(* A worker begins its flush, with every mapped destination to look at, or *)
(* ends it, with none left.                                                *)
LEMMA FlushBounds ==
  ASSUME PoolInv, FlushInv, NEW w \in Workers, FlushBegin(w) \/ FlushEnd(w)
  PROVE  FlushInv'
<1>1. /\ UNCHANGED <<dest, batch, metrics, flushers, destMap, failed, erased>>
      /\ Mapped' = Mapped
      /\ dests' = AgentStat(dests) /\ pcW[w] \in {"metric", "flush"}
  BY Zenon DEF FlushBegin, FlushEnd, envVars, history, Mapped
<1>2. \A v \in Workers : v # w => pcW'[v] = pcW[v]
  BY GoType, Zenon DEF FlushBegin, FlushEnd, PoolInv
<1>3. Counted(dests, dests')
  BY <1>1, AgentStatCounts, Zenon DEF PoolInv, TypeInv
<1>4. \A d \in Mapped : d \in 1..Len(dests)
  BY MappedCreated DEF Created
<1>5. \A d \in Mapped : /\ dests'[d].pending = dests[d].pending
                        /\ dests[d].queued => dests'[d].queued
  BY <1>3, <1>4, Zenon DEF Counted
<1>6. \A d \in Mapped : Coming(d) => Coming(d)'
  <2>1. CASE FlushBegin(w)
    <3>1. todo'[w] = Mapped
      BY <2>1, Zenon DEF FlushBegin, PoolInv, TypeInv, Mapped
    <3> QED
      BY <3>1, Zenon DEF Coming
  <2>2. CASE FlushEnd(w)
    <3>1. pcW[w] = "flush" /\ todo[w] = {} /\ todo' = todo
      BY <2>2, Zenon DEF FlushEnd
    <3> QED
      BY <1>1, <1>2, <3>1, Zenon DEF Coming, Busy
  <2> QED
    BY <2>1, <2>2, Zenon
<1>7. \A d : Counting(d) => Counting(d)'
  BY <1>1, <1>2, Zenon DEF Counting, Recorded
<1>8. \A d : Submitting(d) => Submitting(d)'
  BY <1>1, Zenon DEF Submitting
<1>9. \A d \in Mapped : (Due(d) => Due(d)') /\ (Unsettled(d)' => Unsettled(d))
  BY <1>1, <1>5, <1>6, Zenon DEF Due, Unsettled
<1> QED
  BY <1>1, <1>7, <1>8, <1>9, Zenon DEF FlushInv

(* A worker skips a destination only when its counter is zero. *)
LEMMA FlushLooks ==
  ASSUME PoolInv, FlushInv, NEW w \in Workers, NEW e \in todo[w], FlushDest(w, e)
  PROVE  FlushInv'
<1> DEFINE g == [w |-> w, d |-> e, pc |-> "zero"]
<1>0. /\ UNCHANGED <<pcW, batch, metrics, dest, dests, destMap, failed, erased>>
      /\ Mapped' = Mapped
      /\ flushers' = IF dests[e].queued THEN flushers \cup {g} ELSE flushers
  BY Zenon DEF FlushDest, envVars, history, Mapped
<1>1. /\ UNCHANGED <<pcW, batch, metrics, dest, dests, destMap, failed, erased>>
      /\ Mapped' = Mapped
      /\ flushers \subseteq flushers'
      /\ dests[e].queued => \E f \in flushers' : f.d = e /\ f.pc = "zero"
  <2>1. g.d = e /\ g.pc = "zero"
    OBVIOUS
  <2> HIDE DEF g
  <2>2. dests[e].queued => g \in flushers'
    BY <1>0, Zenon
  <2> QED
    BY <1>0, <2>1, <2>2, Zenon
<1>2. \A v \in Workers : \A d : d # e /\ d \in todo[v] => d \in todo'[v]
  BY Zenon DEF FlushDest, PoolInv, TypeInv
<1>3. \A d : Counting(d) => Counting(d)'
  BY <1>1, Zenon DEF Counting, Recorded
<1>4. \A d : Submitting(d) => Submitting(d)'
  BY <1>1, Zenon DEF Submitting
<1>5. \A d : Due(d) => Due(d)'
  <2>1. Due(e) => Due(e)'
    BY <1>1, Zenon DEF Due, Coming
  <2>2. \A d : d # e /\ Due(d) => Due(d)'
    BY <1>1, <1>2, Zenon DEF Due, Coming, Busy
  <2> QED
    BY <2>1, <2>2, Zenon
<1>6. \A d : Unsettled(d)' => Unsettled(d)
  BY <1>1, Zenon DEF Unsettled
<1> QED
  BY <1>1, <1>3, <1>4, <1>5, <1>6, Zenon DEF FlushInv

(* A flush that resets the counter submits next. *)
LEMMA FlushResets ==
  ASSUME PoolInv, FlushInv, NEW f \in flushers, FlushZero(f)
  PROVE  FlushInv'
<1>1. /\ UNCHANGED <<pcW, batch, metrics, dest, todo, destMap, failed, erased>>
      /\ Mapped' = Mapped
      /\ f.pc = "zero" /\ flushers' = (flushers \ {f}) \cup {[f EXCEPT !.pc = "send"]}
  BY DEF FlushZero, Step, envVars, history, Mapped
<1>2. f \in [w : Workers, d : Created, pc : {"zero", "send"}]
  BY Zenon DEF PoolInv, TypeInv
<1>3. /\ [f EXCEPT !.pc = "send"].d = f.d
      /\ [f EXCEPT !.pc = "send"].pc = "send"
  BY <1>2
<1>4. \A d : d = f.d => Submitting(d)'
  BY <1>1, <1>3, Zenon DEF Submitting
<1>5. \A d : Submitting(d) => Submitting(d)'
  BY <1>1 DEF Submitting
<1>6. \A d : Counting(d) => Counting(d)'
  BY <1>1, Zenon DEF Counting, Recorded
<1>7. QueuedOf(dests, dests', f.d)
  BY <1>2, QueuedSet, Zenon DEF FlushZero, PoolInv, TypeInv, Created
<1>8. \A d \in Created : d # f.d => dests'[d] = dests[d]
  BY <1>7, Zenon DEF QueuedOf, Created
<1>9. \A d \in Created : d # f.d => (Due(d) => Due(d)') /\ (Unsettled(d)' => Unsettled(d))
  BY <1>1, <1>8, Zenon DEF Due, Coming, Busy, Unsettled
<1> QED
  BY <1>1, <1>4, <1>5, <1>6, <1>9, MappedCreated, Zenon DEF FlushInv

(* A flush that ends leaves nothing in its destination that has not failed. *)
LEMMA FlushSubmits ==
  ASSUME PoolInv, FlushInv, NEW f \in flushers, FlushSend(f) \/ FlushFails(f)
  PROVE  FlushInv'
<1>1. /\ UNCHANGED <<pcW, batch, metrics, dest, todo, destMap>> /\ Mapped' = Mapped
      /\ f.pc = "send" /\ flushers' = flushers \ {f} /\ failed \subseteq failed'
      /\ erased' = erased \ {f.d}
  BY Zenon DEF FlushSend, FlushFails, End, envVars, Mapped
<1>2. f.d \in 1..Len(dests) /\ dests \in Seq(Dest)
  BY Zenon DEF PoolInv, TypeInv, Created
<1> DEFINE es == SetPending(dests, f.d, {})
<1>3. PendingOf(dests, es, f.d) /\ es[f.d].pending = {}
  BY <1>2, PendingSet
<1> HIDE DEF es
<1>4. es \in Seq(Dest) /\ Len(es) = Len(dests)
  BY <1>3, Zenon DEF PendingOf, SameKeys
<1>5. \A d \in Created : /\ es[d].queued = dests[d].queued
                         /\ d # f.d => es[d].pending = dests[d].pending
  BY <1>3, Zenon DEF PendingOf, Created
<1>6. /\ \A d : d = f.d => ~Unsettled(d)'
      /\ \A d \in Created : /\ dests[d].queued => dests'[d].queued
                            /\ d # f.d => dests'[d].pending = dests[d].pending
  <2>1. CASE FlushSend(f)
    <3>1. Counted(es, dests')
      BY <1>4, <2>1, AgentStatCounts, Zenon DEF FlushSend, es, PoolInv
    <3>2. \A d \in Created : /\ dests'[d].pending = es[d].pending
                             /\ es[d].queued => dests'[d].queued
      BY <1>4, <3>1, Zenon DEF Counted, Created
    <3>3. dests'[f.d].pending = {}
      BY <1>2, <1>3, <3>2, Zenon DEF Created
    <3> QED
      BY <1>5, <3>2, <3>3, Zenon DEF Unsettled
  <2>2. CASE FlushFails(f)
    <3>1. /\ dests' = dests \/ dests' = es
          /\ failed' = failed \cup dests[f.d].pending
      BY <2>2, Zenon DEF FlushFails, es
    <3> QED
      BY <1>3, <1>5, <3>1, Zenon DEF Unsettled
  <2> QED
    BY <2>1, <2>2, Zenon
<1>7. \A d \in Created : (Due(d) => Due(d)') /\ (d # f.d /\ Unsettled(d)' => Unsettled(d))
  BY <1>1, <1>6, Zenon DEF Due, Coming, Busy, Unsettled
<1>8. \A d : d # f.d /\ Submitting(d) => Submitting(d)'
  BY <1>1, Zenon DEF Submitting
<1>9. \A d : Counting(d) => Counting(d)'
  BY <1>1, Zenon DEF Counting, Recorded
<1> QED
  BY <1>1, <1>6, <1>7, <1>8, <1>9, MappedCreated, Zenon DEF FlushInv

(* Every step keeps the invariant. *)
LEMMA FlushNext ==
  ASSUME PoolInv, FlushInv, [Next]_vars
  PROVE  FlushInv'
<1>1. CASE UNCHANGED vars
  BY <1>1 DEF vars, poolVars, history, FlushInv, Mapped, Unsettled, Submitting,
              Counting, Recorded, Due, Coming, Busy
<1>2. CASE \E w \in Workers :
             \/ WorkerTake(w) \/ Lookup(w) \/ InitDest(w) \/ Relook(w) \/ Record(w)
             \/ Count(w) \/ Store(w)
  BY <1>2, FlushLookup, FlushCreate, FlushRecord, FlushCount, FlushStore, Zenon
<1>3. CASE \E w \in Workers :
             FlushBegin(w) \/ (\E d \in todo[w] : FlushDest(w, d)) \/ FlushEnd(w)
  BY <1>3, FlushBounds, FlushLooks, Zenon
<1>4. CASE \E f \in flushers : FlushZero(f) \/ FlushSend(f) \/ FlushFails(f)
  BY <1>4, FlushResets, FlushSubmits, Zenon
<1> QED
  BY <1>1, <1>2, <1>3, <1>4, NextCases, FlushEnv, Zenon

(* With the workers idle nobody is to come, so nothing is unsettled. *)
LEMMA FlushConcludes == PoolInv /\ FlushInv => NothingStranded
<1> SUFFICES ASSUME PoolInv, FlushInv,
                    \A w \in Workers : pcW[w] \in {"none", "idle", "done"},
                    NEW k \in Keys, destMap[k] # Nil
             PROVE  dests[destMap[k]].pending \subseteq failed \/ destMap[k] \in erased
  BY Zenon DEF NothingStranded
<1>1. destMap[k] \in Mapped
  BY Zenon DEF Mapped
<1>2. \A w \in Workers : todo[w] = {}
  BY Zenon DEF PoolInv, WorkerInv
<1>3. flushers = {}
  <2> SUFFICES ASSUME NEW f \in flushers PROVE FALSE
    OBVIOUS
  <2>1. f.w \in Workers /\ pcW[f.w] = "flush"
    BY Zenon DEF PoolInv, TypeInv, WorkerInv
  <2> QED
    BY <2>1, Zenon
<1> QED
  BY <1>1, <1>2, <1>3, Zenon DEF FlushInv, Unsettled, Submitting, Counting, Due, Coming, Busy

(* A worker that finds the counter of a destination at zero can leave it   *)
(* to others (metricProcessor), unless one of them reset the counter by    *)
(* += 0: once the workers are idle, whatever was recorded in a mapped      *)
(* destination was submitted, its submission failed, or the counter of the *)
(* destination was erased and not made positive since.                     *)
THEOREM NothingLeftWaiting == Spec => []NothingStranded
<1>1. Init => PoolInv /\ FlushInv
  <2>1. Init => PoolInv
    BY PoolInit DEF PoolInv
  <2>2. Init => FlushInv
    BY Constants, ZenonT(60) DEF Init, FlushInv, Mapped, Nil
  <2> QED
    BY <2>1, <2>2
<1>2. PoolInv /\ FlushInv /\ [Next]_vars => (PoolInv /\ FlushInv)'
  BY PoolNext, FlushNext, Zenon
<1> QED
  BY <1>1, <1>2, FlushConcludes, PTL DEF Spec

-----------------------------------------------------------------------------
(***************************************************************************)
(* A plugin has at most as many destinations of the circonus output as the *)
(* pool has workers.  A worker decides to create one only while the map    *)
(* has none, so the destinations of a plugin and the workers about to      *)
(* create one are together never more than the workers.                    *)
(***************************************************************************)

Of(k) == {d \in Created : dests[d].key = k}
Making(k) == {w \in Workers : pcW[w] = "init" /\ metrics[Head(batch[w])].key = k}

BoundInv ==
  /\ \A k \in PluginKeys : Cardinality(Of(k)) + Cardinality(Making(k)) <= PoolSize
  /\ \A k \in PluginKeys : destMap[k] = Nil => Of(k) = {}

(* Both sets are finite. *)
LEMMA Finite ==
  ASSUME TypeInv, NEW k
  PROVE  /\ IsFiniteSet(Of(k)) /\ Cardinality(Of(k)) \in Nat
         /\ IsFiniteSet(Making(k)) /\ Cardinality(Making(k)) \in Nat
         /\ Cardinality(Making(k)) <= PoolSize
<1>1. Len(dests) \in Nat /\ PoolSize \in Nat
  BY Constants DEF TypeInv
<1>2. IsFiniteSet(Created) /\ IsFiniteSet(Workers) /\ Cardinality(Workers) = PoolSize
  <2>1. 1 \in Int /\ Len(dests) \in Int /\ PoolSize \in Int /\ ~(1 > PoolSize)
    BY <1>1, Constants
  <2>2. IsFiniteSet(Created)
    BY <2>1, FS_Interval, Zenon DEF Created
  <2>3. IsFiniteSet(Workers) /\ Cardinality(Workers) = PoolSize - 1 + 1
    BY <2>1, FS_Interval, Zenon DEF Workers
  <2> QED
    BY <1>1, <2>2, <2>3
<1>3. Of(k) \in SUBSET Created /\ Making(k) \in SUBSET Workers
  BY Zenon DEF Of, Making
<1> QED
  BY <1>2, <1>3, FS_Subset, FS_CardinalityType, Zenon

(* A step that creates no destination, and makes no worker create one,     *)
(* keeps the bound.                                                        *)
LEMMA KeepsBound ==
  ASSUME PoolInv, BoundInv, destMap' = destMap,
         \A k \in PluginKeys : Of(k)' = Of(k),
         \A k \in PluginKeys : Making(k)' \subseteq Making(k)
  PROVE  BoundInv'
<1> SUFFICES ASSUME NEW k \in PluginKeys
             PROVE  /\ Cardinality(Of(k)') + Cardinality(Making(k)') <= PoolSize
                    /\ destMap'[k] = Nil => Of(k)' = {}
  BY Zenon DEF BoundInv
<1>1. /\ Cardinality(Of(k)) \in Nat /\ Cardinality(Making(k)) \in Nat
      /\ IsFiniteSet(Making(k))
  BY Finite, Zenon DEF PoolInv
<1>2. /\ Cardinality(Making(k)') <= Cardinality(Making(k))
      /\ Cardinality(Making(k)') \in Nat
  BY <1>1, FS_Subset, FS_CardinalityType, Zenon
<1>3. PoolSize \in Nat /\ Cardinality(Of(k)) + Cardinality(Making(k)) <= PoolSize
  BY Constants, Zenon DEF BoundInv
<1>4. Of(k)' = Of(k)
  OBVIOUS
<1>5. Cardinality(Of(k)') + Cardinality(Making(k)') <= PoolSize
  BY <1>1, <1>2, <1>3, <1>4
<1> QED
  BY <1>4, <1>5, Zenon DEF BoundInv

(* The same destinations have the same keys. *)
LEMMA SameOf ==
  ASSUME SameKeys(dests, dests')
  PROVE  \A k : Of(k)' = Of(k)
  BY Zenon DEF SameKeys, Of, Created

(* The key of the metric a worker creates a destination for stays. *)
LEMMA MakingStays ==
  ASSUME PoolInv, NEW W \in SUBSET Workers,
         \A v \in Workers \ W : pcW'[v] = "init" => pcW[v] = "init" /\ batch'[v] = batch[v],
         \A v \in W : pcW'[v] # "init",
         \A m \in Made : metrics'[m] = metrics[m]
  PROVE  \A k : Making(k)' \subseteq Making(k) \ W
<1> SUFFICES ASSUME NEW k, NEW v \in Making(k)' PROVE v \in Making(k) \ W
  OBVIOUS
<1>1. v \in Workers /\ pcW'[v] = "init" /\ metrics'[Head(batch'[v])].key = k
  BY Zenon DEF Making
<1>2. v \notin W /\ pcW[v] = "init" /\ batch'[v] = batch[v]
  BY <1>1, Zenon
<1>3. Head(batch[v]) \in Made
  BY <1>1, <1>2 DEF PoolInv, TypeInv, WorkerInv
<1> QED
  BY <1>1, <1>2, <1>3, Zenon DEF Making

(* The steps that only change destinations that exist. *)
LEMMA BoundKept ==
  ASSUME PoolInv, BoundInv, destMap' = destMap, metrics' = metrics,
         SameKeys(dests, dests'), NEW w \in Workers,
         \A v \in Workers \ {w} : pcW'[v] = pcW[v] /\ batch'[v] = batch[v],
         pcW'[w] # "init"
  PROVE  BoundInv'
<1>1. \A k : Of(k)' = Of(k)
  BY SameOf, Zenon
<1>2. \A k : Making(k)' \subseteq Making(k) \ {w}
  <2>1. \A m \in Made : metrics'[m] = metrics[m]
    OBVIOUS
  <2> QED
    BY <2>1, MakingStays, Zenon
<1> QED
  BY <1>1, <1>2, KeepsBound, Zenon

(* A worker that finds no destination is the only reason for another one,  *)
(* and then there is none yet.                                             *)
LEMMA BoundLookup ==
  ASSUME PoolInv, BoundInv, NEW w \in Workers, Lookup(w), Go(w, "init")
  PROVE  BoundInv'
<1> DEFINE j == metrics[Head(batch[w])].key
<1>1. /\ pcW[w] = "metric" /\ destMap[j] = Nil /\ j # "agent"
      /\ UNCHANGED <<metrics, batch, dests, destMap>>
  <2>1. pcW[w] = "metric" /\ batch[w] # <<>> /\ UNCHANGED <<metrics, dests, destMap>>
    BY DEF Lookup, envVars
  <2>2. pcW'[w] = "init"
    BY GoType, Zenon DEF PoolInv
  <2>3. ~Found(w) /\ ~NoDestination(w)
    BY <2>2, GoType, Zenon DEF Found, NoDestination, PoolInv, Go, TypeInv
  <2> QED
    BY <2>1, <2>3, Zenon DEF Lookup, InMap
<1>2. j \in PluginKeys
  <2>1. Head(batch[w]) \in Made
    BY DEF Lookup, PoolInv, TypeInv
  <2>2. j \in Keys
    BY <2>1, MetricType, Zenon DEF PoolInv
  <2> QED
    BY <1>1, <2>2, Zenon DEF Keys
<1>3. pcW'[w] = "init" /\ \A v \in Workers : v # w => pcW'[v] = pcW[v]
  BY GoType, Zenon DEF PoolInv
<1>4. \A k : Of(k)' = Of(k)
  BY <1>1, Zenon DEF Of, Created
<1>5. \A k : k # j => Making(k)' = Making(k)
  BY <1>1, <1>3, Zenon DEF Making
<1>6. IsFiniteSet(Workers) /\ Cardinality(Workers) = PoolSize
  BY FS_Interval, Constants DEF Workers
<1> SUFFICES ASSUME NEW k \in PluginKeys
             PROVE  /\ Cardinality(Of(k)') + Cardinality(Making(k)') <= PoolSize
                    /\ destMap'[k] = Nil => Of(k)' = {}
  BY Zenon DEF BoundInv
<1>7. CASE k = j
  <2>1. Of(k)' = {}
    BY <1>1, <1>2, <1>4, <1>7, Zenon DEF BoundInv
  <2>2. Cardinality(Making(k)') <= PoolSize /\ Cardinality(Making(k)') \in Nat
    <3>1. Making(k)' \in SUBSET Workers
      BY Zenon DEF Making
    <3> QED
      BY <1>6, <3>1, FS_Subset, FS_CardinalityType, Zenon
  <2>3. Cardinality({}) = 0
    BY FS_EmptySet, Zenon
  <2> QED
    BY <2>1, <2>2, <2>3
<1>8. CASE k # j
  BY <1>1, <1>4, <1>5, <1>8, Zenon DEF BoundInv
<1> QED
  BY <1>7, <1>8, Zenon

(* A worker that creates a destination no longer is about to. *)
LEMMA BoundCreate ==
  ASSUME PoolInv, BoundInv, NEW w \in Workers, InitDest(w)
  PROVE  BoundInv'
<1> DEFINE j == metrics[Head(batch[w])].key
           n == NewDest(j, FALSE)
<1>1. /\ pcW[w] = "init" /\ Go(w, "relook") /\ UNCHANGED <<metrics, batch>>
      /\ dests' = Append(dests, n) /\ destMap' = [destMap EXCEPT ![j] = Len(dests')]
  BY Zenon DEF InitDest, envVars
<1>2. n.key = j
  BY Zenon DEF NewDest
<1>3. w \in Making(j)
  BY <1>1, Zenon DEF Making
<1> HIDE DEF n, j
<1>4. /\ Len(dests) \in Nat /\ Len(dests') = Len(dests) + 1 /\ dests'[Len(dests')] = n
      /\ \A d \in Created : dests'[d] = dests[d]
  BY <1>1 DEF PoolInv, TypeInv, Created
<1>5. Created' = Created \cup {Len(dests')} /\ Len(dests') \notin Created
  BY <1>4 DEF Created
<1>6. /\ \A k : k # j => Of(k)' = Of(k)
      /\ \A k : k = j => Of(k)' = Of(k) \cup {Len(dests')}
      /\ \A k : Len(dests') \notin Of(k)
  BY <1>2, <1>4, <1>5, Zenon DEF Of
<1>7. \A k : Making(k)' \subseteq Making(k) \ {w}
  <2>1. \A m \in Made : metrics'[m] = metrics[m]
    BY <1>1, Zenon
  <2>2. pcW'[w] = "relook" /\ \A v \in Workers : v # w => pcW'[v] = pcW[v]
    BY <1>1, GoType, Zenon DEF PoolInv
  <2>3. /\ \A v \in Workers \ {w} : pcW'[v] = "init" => pcW[v] = "init" /\ batch'[v] = batch[v]
        /\ \A v \in {w} : pcW'[v] # "init"
    BY <1>1, <2>2, Zenon
  <2> QED
    BY <2>1, <2>3, MakingStays, Zenon
<1> SUFFICES ASSUME NEW k \in PluginKeys
             PROVE  /\ Cardinality(Of(k)') + Cardinality(Making(k)') <= PoolSize
                    /\ destMap'[k] = Nil => Of(k)' = {}
  BY Zenon DEF BoundInv
<1>8. /\ Cardinality(Of(k)) \in Nat /\ Cardinality(Making(k)) \in Nat
      /\ IsFiniteSet(Making(k)) /\ IsFiniteSet(Of(k)) /\ PoolSize \in Nat
      /\ Cardinality(Of(k)) + Cardinality(Making(k)) <= PoolSize
      /\ destMap[k] = Nil => Of(k) = {}
  BY Finite, Constants, Zenon DEF PoolInv, BoundInv
<1>9. /\ IsFiniteSet(Making(k) \ {w}) /\ Cardinality(Making(k) \ {w}) \in Nat
      /\ Cardinality(Making(k) \ {w}) <= Cardinality(Making(k))
      /\ w \in Making(k) => Cardinality(Making(k) \ {w}) = Cardinality(Making(k)) - 1
  <2>1. /\ IsFiniteSet(Making(k) \ {w})
        /\ Cardinality(Making(k) \ {w}) =
             IF w \in Making(k) THEN Cardinality(Making(k)) - 1 ELSE Cardinality(Making(k))
    BY <1>8, FS_RemoveElement, Zenon
  <2>2. Cardinality(Making(k) \ {w}) \in Nat
    BY <2>1, FS_CardinalityType, Zenon
  <2> QED
    BY <1>8, <2>1, <2>2
<1>10. /\ Cardinality(Making(k)') <= Cardinality(Making(k) \ {w})
       /\ Cardinality(Making(k)') \in Nat
  BY <1>7, <1>9, FS_Subset, FS_CardinalityType, Zenon
<1>11. CASE k = j
  <2>1. Cardinality(Of(k)') = Cardinality(Of(k)) + 1
    BY <1>6, <1>8, <1>11, FS_AddElement, Zenon
  <2>2. destMap'[k] # Nil
    BY <1>1, <1>4, <1>11 DEF PoolInv, TypeInv, Keys, Nil
  <2> QED
    BY <1>3, <1>8, <1>9, <1>10, <1>11, <2>1, <2>2
<1>12. CASE k # j
  <2>1. destMap'[k] = destMap[k]
    BY <1>1, <1>12, Zenon DEF PoolInv, TypeInv, Keys
  <2>2. Of(k)' = Of(k)
    BY <1>6, <1>12, Zenon
  <2> QED
    BY <1>8, <1>9, <1>10, <2>1, <2>2
<1> QED
  BY <1>11, <1>12, Zenon

(* The steps of the agent: only Connect creates a destination, its own. *)
LEMMA BoundEnv ==
  ASSUME PoolInv, BoundInv,
         Connect \/ ConnectFails \/ Started \/ Close \/ Emit \/ Return \/ Exit
           \/ (\E b \in Batches : WriteCall(b)) \/ (\E w \in Workers : InitFails(w))
  PROVE  BoundInv'
<1>0. \A k \in PluginKeys : k # "agent"
  BY CirconusAssumption, Zenon
<1>1. CASE Connect
  <2>1. pcW' = [w \in Workers |-> "idle"]
    BY <1>1, Zenon DEF Connect
  <2>2. \A k : Making(k)' = {}
    BY <2>1, Zenon DEF Making
  <2>3. \A k \in PluginKeys : Of(k)' = Of(k) /\ destMap'[k] = destMap[k]
    <3>1. CASE subOutput
      BY <1>1, <3>1, Zenon DEF Connect, Of, Created
    <3>2. CASE ~subOutput
      <4> DEFINE n == NewDest("agent", TRUE)
      <4>1. dests' = Append(dests, n) /\ destMap' = [destMap EXCEPT !["agent"] = Len(dests')]
        BY <1>1, <3>2, Zenon DEF Connect
      <4>2. n.key = "agent"
        BY Zenon DEF NewDest
      <4> HIDE DEF n
      <4>3. /\ Len(dests) \in Nat /\ Len(dests') = Len(dests) + 1 /\ dests'[Len(dests')] = n
            /\ \A d \in Created : dests'[d] = dests[d]
        BY <4>1 DEF PoolInv, TypeInv, Created
      <4>4. Created' = Created \cup {Len(dests')}
        BY <4>3 DEF Created
      <4>5. \A k \in PluginKeys : Of(k)' = Of(k)
        BY <1>0, <4>2, <4>3, <4>4, Zenon DEF Of
      <4>6. \A k \in PluginKeys : destMap'[k] = destMap[k]
        BY <1>0, <4>1, Zenon DEF PoolInv, TypeInv, Keys
      <4> QED
        BY <4>5, <4>6, Zenon
    <3> QED
      BY <3>1, <3>2, Zenon
  <2>4. ASSUME NEW k \in PluginKeys
        PROVE  Cardinality(Of(k)') + Cardinality(Making(k)') <= PoolSize
    <3>1. /\ Cardinality(Of(k)) \in Nat /\ Cardinality(Making(k)) \in Nat /\ PoolSize \in Nat
          /\ Cardinality(Of(k)) + Cardinality(Making(k)) <= PoolSize
      BY Finite, Constants, Zenon DEF PoolInv, BoundInv
    <3>2. Cardinality(Making(k)') = 0
      BY <2>2, FS_EmptySet, Zenon
    <3>3. Of(k)' = Of(k)
      BY <2>3, Zenon
    <3> QED
      BY <3>1, <3>2, <3>3
  <2> QED
    BY <2>3, <2>4, Zenon DEF BoundInv
<1>2. CASE ~Connect
  <2>1. destMap' = destMap
    BY <1>2, Zenon DEF ConnectFails, Started, Close, Emit, Return, Exit, WriteCall, InitFails, poolVars
  <2>2. \A k : Of(k)' = Of(k)
    <3>1. CASE Emit
      BY <3>1, AgentStatCounts, SameOf, Zenon DEF Emit, Counted, PoolInv, TypeInv
    <3>2. CASE ~Emit
      <4>1. dests' = dests
        BY <1>2, <3>2, Zenon DEF ConnectFails, Started, Close, Return, Exit, WriteCall, InitFails, poolVars
      <4> QED
        BY <4>1, Zenon DEF Of, Created
    <3> QED
      BY <3>1, <3>2, Zenon
  <2>3. /\ \A m \in Made : metrics'[m] = metrics[m]
        /\ \A v \in Workers \ {} : pcW'[v] = "init" => pcW[v] = "init" /\ batch'[v] = batch[v]
    <3>1. CASE \E b \in Batches : WriteCall(b)
      <4>1. PICK b \in Batches : WriteCall(b)
        BY <3>1, Zenon
      <4>2. PICK n \in 1..MaxBatch : b \in [1..n -> Metric]
        BY Zenon DEF Batches, Metric
      <4>3. b \in Seq(Metric)
        BY <4>2
      <4> QED
        BY <4>1, <4>3 DEF WriteCall, Made, PoolInv, TypeInv
    <3>2. CASE Close
      BY <3>2, Zenon DEF Close
    <3>3. CASE UNCHANGED <<metrics, pcW, batch>>
      BY <3>3, Zenon
    <3> QED
      BY <1>2, <3>1, <3>2, <3>3, Zenon
         DEF ConnectFails, Started, Emit, Return, Exit, InitFails, poolVars, envVars
  <2>4. \A k : Making(k)' \subseteq Making(k) \ {}
    <3>1. {} \in SUBSET Workers /\ \A v \in {} : pcW'[v] # "init"
      OBVIOUS
    <3> QED
      BY <2>3, <3>1, MakingStays, Zenon
  <2> QED
    BY <2>1, <2>2, <2>4, KeepsBound, Zenon
<1> QED
  BY <1>1, <1>2, Zenon

(* The steps of a worker. *)
LEMMA BoundWork ==
  ASSUME PoolInv, BoundInv, NEW w \in Workers,
         \/ WorkerTake(w) \/ Lookup(w) \/ InitDest(w) \/ Relook(w) \/ Record(w)
         \/ Count(w) \/ Store(w)
         \/ FlushBegin(w) \/ (\E d \in todo[w] : FlushDest(w, d)) \/ FlushEnd(w)
  PROVE  BoundInv'
<1>1. CASE InitDest(w)
  BY <1>1, BoundCreate, Zenon
<1>2. CASE Lookup(w) /\ Go(w, "init")
  BY <1>2, BoundLookup, Zenon
<1>3. CASE ~InitDest(w) /\ ~(Lookup(w) /\ Go(w, "init"))
  <2>1. destMap' = destMap /\ metrics' = metrics
    BY <1>3, Zenon DEF WorkerTake, Lookup, Relook, Record, Count, Store, FlushBegin, FlushDest,
                FlushEnd, envVars
  <2>2. SameKeys(dests, dests')
    <3>1. dests \in Seq(Dest)
      BY Zenon DEF PoolInv, TypeInv
    <3>2. CASE dests' = dests
      BY <3>1, <3>2, Zenon DEF SameKeys
    <3>3. CASE dests' = AgentStat(dests)
      BY <3>1, <3>3, AgentStatCounts, Zenon DEF Counted, PoolInv
    <3>4. CASE Record(w)
      BY <3>4, RecordEffect, Zenon
    <3>5. CASE Store(w)
      BY <3>5, StoreEffect, Zenon DEF QueuedOf
    <3> QED
      BY <1>3, <3>2, <3>3, <3>4, <3>5, Zenon
         DEF WorkerTake, Lookup, Relook, Count, FlushBegin, FlushDest, FlushEnd
  <2>3. pcW' = pcW \/ \E pc \in {"metric", "record", "count", "store", "flush", "idle"} : Go(w, pc)
    BY <1>3, Zenon DEF WorkerTake, Lookup, Relook, Found, NoDestination, Record, Count, Store,
                FlushBegin, FlushDest, FlushEnd
  <2>4. \A v \in Workers \ {w} : batch'[v] = batch[v]
    BY <1>3, Zenon DEF WorkerTake, Lookup, Relook, Found, NoDestination, Record, Count, Store,
                FlushBegin, FlushDest, FlushEnd, PoolInv, TypeInv
  <2>5. CASE pcW' = pcW
    <3>1. pcW[w] # "init"
      BY <1>3, Zenon DEF WorkerTake, Lookup, Relook, Record, Count, Store, FlushBegin, FlushDest,
                  FlushEnd, PoolInv, WorkerInv
    <3>2. \A v \in Workers \ {w} : pcW'[v] = pcW[v] /\ batch'[v] = batch[v]
      BY <2>4, <2>5, Zenon
    <3> QED
      BY <2>1, <2>2, <2>5, <3>1, <3>2, BoundKept, Zenon
  <2>6. CASE \E pc \in {"metric", "record", "count", "store", "flush", "idle"} : Go(w, pc)
    <3>1. pcW'[w] # "init" /\ \A v \in Workers : v # w => pcW'[v] = pcW[v]
      BY <2>6, Zenon DEF Go, PoolInv, TypeInv
    <3>2. \A v \in Workers \ {w} : pcW'[v] = pcW[v] /\ batch'[v] = batch[v]
      BY <2>4, <3>1, Zenon
    <3> QED
      BY <2>1, <2>2, <3>1, <3>2, BoundKept, Zenon
  <2> QED
    BY <2>3, <2>5, <2>6, Zenon
<1> QED
  BY <1>1, <1>2, <1>3, Zenon

(* Every step keeps the bound. *)
LEMMA BoundNext == PoolInv /\ BoundInv /\ [Next]_vars => BoundInv'
<1> SUFFICES ASSUME PoolInv, BoundInv, [Next]_vars PROVE BoundInv'
  OBVIOUS
<1>1. CASE UNCHANGED vars
  BY <1>1, Zenon DEF vars, poolVars, BoundInv, Of, Making, Created
<1>2. CASE \E f \in flushers : FlushZero(f) \/ FlushSend(f) \/ FlushFails(f)
  <2>1. PICK f \in flushers : FlushZero(f) \/ FlushSend(f) \/ FlushFails(f)
    BY <1>2, Zenon
  <2>2. UNCHANGED <<pcW, batch, metrics, destMap>>
    BY <2>1, Zenon DEF FlushZero, FlushSend, FlushFails, envVars
  <2>3. f.w \in Workers /\ pcW[f.w] = "flush"
    BY Zenon DEF PoolInv, TypeInv, WorkerInv
  <2>4. SameKeys(dests, dests')
    BY <2>1, FlushEffect, Zenon
  <2> QED
    BY <2>2, <2>3, <2>4, BoundKept, Zenon
<1> QED
  BY <1>1, <1>2, NextCases, BoundEnv, BoundWork, Zenon

(* initMetricDestination does not look whether the map got a destination   *)
(* meanwhile, yet no plugin ever has more destinations than workers.       *)
THEOREM DestinationsStayBounded == Spec => []DestinationsBounded
<1>1. Init => PoolInv /\ BoundInv
  <2>1. Init => PoolInv
    BY PoolInit, Zenon DEF PoolInv
  <2>2. ASSUME Init PROVE BoundInv
    <3>1. Created = {}
      BY <2>2 DEF Init, Created
    <3>2. \A k : Of(k) = {} /\ Making(k) = {}
      BY <2>2, <3>1, Zenon DEF Init, Of, Making
    <3> QED
      BY <3>2, FS_EmptySet, Constants DEF BoundInv
  <2> QED
    BY <2>1, <2>2, Zenon
<1>2. PoolInv /\ BoundInv => DestinationsBounded
  <2> SUFFICES ASSUME PoolInv, BoundInv, NEW k \in PluginKeys
               PROVE  Cardinality({d \in DOMAIN dests : dests[d].key = k}) <= PoolSize
    BY Zenon DEF DestinationsBounded
  <2>1. {d \in DOMAIN dests : dests[d].key = k} = Of(k)
    BY DEF Of, Created, PoolInv, TypeInv
  <2>2. /\ Cardinality(Of(k)) \in Nat /\ Cardinality(Making(k)) \in Nat /\ PoolSize \in Nat
        /\ Cardinality(Of(k)) + Cardinality(Making(k)) <= PoolSize
    BY Finite, Constants, Zenon DEF PoolInv, BoundInv
  <2> QED
    BY <2>1, <2>2
<1>3. PoolInv /\ BoundInv /\ [Next]_vars => (PoolInv /\ BoundInv)'
  BY PoolNext, BoundNext, Zenon
<1> QED
  BY <1>1, <1>2, <1>3, PTL DEF Spec
=============================================================================
