------------------------------ MODULE Circonus ------------------------------
(***************************************************************************)
(* The circonus output (plugins/outputs/circonus).  Write hands a batch to *)
(* one of PoolSize workers and returns.  A worker records each metric in   *)
(* the destination of its plugin, which it creates when the map does not   *)
(* have it, and then flushes every destination that has something queued.  *)
(* Nobody stops the workers of an agent that started: they go on after the *)
(* agent returned, until the process ends (see Reload).                    *)
(*                                                                         *)
(* A destination is a trapmetrics.TrapMetrics (external) and the counter   *)
(* queuedMetrics, which workers, flushes and timers read and write without *)
(* a lock.  The code only asks whether it is zero, so it is a Boolean.  A  *)
(* metric stands for the one field it has.  The destination of the agent   *)
(* gets statistics of its own, of which only the effect on the counter is  *)
(* kept; the one of the host is created and found in the same way.         *)
(***************************************************************************)
EXTENDS Integers, Sequences, FiniteSets

CONSTANTS PoolSize,
          PluginKeys,     \* plugin instances, the keys of their destinations
          Kinds,          \* "ok", or "empty" for metrics nothing is recorded of
          MaxMetrics,     \* bound on the metrics written to a sub output,
          MaxMain,        \* and to one with the destination of the agent
          MaxBatch

ASSUME CirconusAssumption ==
  /\ PoolSize \in Nat \ {0} /\ MaxMetrics \in Nat /\ MaxBatch \in Nat
  /\ MaxMain \in 0..MaxMetrics
  /\ Kinds \subseteq {"ok", "empty"} /\ "agent" \notin PluginKeys

Keys == PluginKeys \cup {"agent"}
Workers == 1..PoolSize
Nil == 0

VARIABLES
  subOutput,    \* configuration SubOutput
  process,      \* "start", "connected", "run", "returned", "exited"
  metrics,      \* metrics written so far: plugin key and kind
  offered,      \* batch that Write waits to hand over
  pcW, batch,   \* workers, and what is left of the batch of each
  dest, reg,    \* destination in hand, value read from its counter
  todo,         \* destinations the flush of a worker has yet to look at
  flushers,     \* goroutines of the flushes: worker, destination, pc
  dests,        \* metricDestinations created so far: queued, pending
  destMap,      \* the map metricDestinations
  accepted, submitted, failed,  \* history: metrics by what became of them
  erased        \* history: destinations whose counter a stale += 0 reset

envVars == <<process, subOutput, metrics>>
history == <<accepted, submitted, failed, erased>>
poolVars == <<subOutput, metrics, offered, pcW, batch, dest, reg, todo,
              flushers, dests, destMap, history>>
vars == <<process, poolVars>>

Init ==
  /\ process = "start" /\ subOutput \in BOOLEAN
  /\ metrics = <<>> /\ offered = <<>>
  /\ pcW = [w \in Workers |-> "none"] /\ batch = [w \in Workers |-> <<>>]
  /\ dest = [w \in Workers |-> Nil] /\ reg = [w \in Workers |-> FALSE]
  /\ todo = [w \in Workers |-> {}] /\ flushers = {}
  /\ dests = <<>> /\ destMap = [k \in Keys |-> Nil]
  /\ accepted = {} /\ submitted = {} /\ failed = {} /\ erased = {}

Alive == process # "exited"
Go(w, pc) == pcW' = [pcW EXCEPT ![w] = pc]

NewDest(k, q) == [key |-> k, queued |-> q, pending |-> {}]
SetQueued(ds, d, q) == [ds EXCEPT ![d].queued = q]
SetPending(ds, d, S) == [ds EXCEPT ![d].pending = S]

(* Statistics for the destination of the agent, in ds.                     *)
AgentStat(ds) ==
  LET a == destMap["agent"]
  IN IF a = Nil THEN ds ELSE SetQueued(ds, a, TRUE)

-----------------------------------------------------------------------------
(* Init starts the workers, Connect creates the destination of the agent   *)
(* and records its version.  An error of Connect ends the process.         *)
Connect ==
  /\ process = "start" /\ process' = "connected"
  /\ pcW' = [w \in Workers |-> "idle"]
  /\ IF subOutput
       THEN UNCHANGED <<dests, destMap>>
       ELSE /\ dests' = Append(dests, NewDest("agent", TRUE))
            /\ destMap' = [destMap EXCEPT !["agent"] = Len(dests')]
  /\ UNCHANGED <<subOutput, metrics, offered, batch, dest, reg, todo, flushers,
                 history>>

ConnectFails == process = "start" /\ process' = "exited" /\ UNCHANGED poolVars

Started == process = "connected" /\ process' = "run" /\ UNCHANGED poolVars

(* Another output does not connect: Close ends the workers, none of which  *)
(* has got a batch yet.                                                    *)
Close ==
  /\ process = "connected" /\ process' = "returned"
  /\ pcW' = [w \in Workers |-> "done"]
  /\ UNCHANGED <<subOutput, metrics, offered, batch, dest, reg, todo, flushers,
                 dests, destMap, history>>

(* The timers of Connect, which nothing stops.                             *)
Emit ==
  /\ Alive /\ destMap["agent"] # Nil
  /\ dests' = AgentStat(dests)
  /\ UNCHANGED <<envVars, offered, pcW, batch, dest, reg, todo, flushers,
                 destMap, history>>

(* RunningOutput calls Write with a batch of metrics.                      *)
WriteCall(b) ==
  /\ process = "run" /\ offered = <<>>
  /\ Len(metrics) + Len(b) <= IF subOutput THEN MaxMetrics ELSE MaxMain
  /\ metrics' = metrics \o b
  /\ offered' = [i \in 1..Len(b) |-> Len(metrics) + i]
  /\ UNCHANGED <<process, subOutput, pcW, batch, dest, reg, todo, flushers,
                 dests, destMap, history>>

(* A worker receives the batch: Write returns without an error, upon which *)
(* the batch is accepted.                                                  *)
WorkerTake(w) ==
  /\ Alive /\ pcW[w] = "idle" /\ offered # <<>>
  /\ batch' = [batch EXCEPT ![w] = offered] /\ offered' = <<>>
  /\ Go(w, "metric")
  /\ accepted' = accepted \cup {offered[i] : i \in DOMAIN offered}
  /\ UNCHANGED <<envVars, dest, reg, todo, flushers, dests, destMap, submitted,
                 failed, erased>>

(* Run returns, no Write under way.  Then the process ends, or it goes on  *)
(* with an agent and an output of their own.                               *)
Return ==
  /\ process = "run" /\ offered = <<>> /\ process' = "returned"
  /\ UNCHANGED poolVars

Exit == process = "returned" /\ process' = "exited" /\ UNCHANGED poolVars

-----------------------------------------------------------------------------
(* getMetricDestination for the next metric of the batch.                  *)
InMap(m) == destMap[metrics[m].key]

Found(w) ==
  /\ dest' = [dest EXCEPT ![w] = InMap(Head(batch[w]))] /\ Go(w, "record")
  /\ UNCHANGED <<batch, failed>>

(* There is none: the metric is logged and not recorded.                   *)
NoDestination(w) ==
  /\ batch' = [batch EXCEPT ![w] = Tail(@)] /\ Go(w, "metric")
  /\ failed' = failed \cup {Head(batch[w])} /\ UNCHANGED dest

Lookup(w) ==
  /\ Alive /\ pcW[w] = "metric" /\ batch[w] # <<>>
  /\ LET m == Head(batch[w])
     IN CASE InMap(m) # Nil -> Found(w)
          [] InMap(m) = Nil /\ metrics[m].key = "agent" -> NoDestination(w)
          [] OTHER -> Go(w, "init") /\ UNCHANGED <<batch, dest, failed>>
  /\ UNCHANGED <<envVars, offered, reg, todo, flushers, dests, destMap,
                 accepted, submitted, erased>>

(* initMetricDestination, under the write lock, which no flush must hold   *)
(* for reading.  It does not look at the map again.                        *)
NoReader_Upgrade ==
  /\ \A w \in Workers : pcW[w] # "flush"
  /\ Cardinality({w \in Workers : pcW[w] = "init"}) <= 1

NoReader == \A w \in Workers : pcW[w] # "flush"

InitDest_NotKept(w) ==
  /\ Alive /\ pcW[w] = "init" /\ NoReader
  /\ dests' = Append(dests, NewDest(metrics[Head(batch[w])].key, FALSE))
  /\ Go(w, "relook")
  /\ UNCHANGED <<envVars, offered, batch, dest, reg, todo, flushers, destMap,
                 history>>

InitDest(w) ==
  /\ Alive /\ pcW[w] = "init" /\ NoReader
  /\ LET k == metrics[Head(batch[w])].key
     IN /\ dests' = Append(dests, NewDest(k, FALSE))
        /\ destMap' = [destMap EXCEPT ![k] = Len(dests')]
  /\ Go(w, "relook")
  /\ UNCHANGED <<envVars, offered, batch, dest, reg, todo, flushers, history>>

(* An error ends the process: os.Exit(1).                                  *)
InitFails(w) ==
  /\ Alive /\ pcW[w] = "init" /\ NoReader /\ process' = "exited"
  /\ UNCHANGED poolVars

Relook(w) ==
  /\ Alive /\ pcW[w] = "relook"
  /\ IF InMap(Head(batch[w])) # Nil THEN Found(w) ELSE NoDestination(w)
  /\ UNCHANGED <<envVars, offered, reg, todo, flushers, dests, destMap,
                 accepted, submitted, erased>>

-----------------------------------------------------------------------------
(* build...: record the metric in the destination, then add to its counter. *)
Record(w) ==
  /\ Alive /\ pcW[w] = "record"
  /\ LET m == Head(batch[w])
     IN IF metrics[m].kind = "ok"
          THEN dests' = SetPending(dests, dest[w], dests[dest[w]].pending \cup {m})
          ELSE UNCHANGED dests
  /\ Go(w, "count")
  /\ UNCHANGED <<envVars, offered, batch, dest, reg, todo, flushers, destMap,
                 history>>

(* queuedMetrics += n, a load and a store; n = 0 when nothing was recorded. *)
Count(w) ==
  /\ Alive /\ pcW[w] = "count"
  /\ reg' = [reg EXCEPT ![w] = dests[dest[w]].queued] /\ Go(w, "store")
  /\ UNCHANGED <<envVars, offered, batch, dest, todo, flushers, dests, destMap,
                 history>>

Store_Uncounted(w) ==
  /\ Alive /\ pcW[w] = "store"
  /\ batch' = [batch EXCEPT ![w] = Tail(@)] /\ Go(w, "metric")
  /\ UNCHANGED <<envVars, offered, dest, reg, todo, flushers, dests, destMap,
                 history>>

(* The store overwrites what others counted since the load, so that a      *)
(* metric of which nothing was recorded can reset the counter.             *)
Stored(w) == reg[w] \/ metrics[Head(batch[w])].kind = "ok"

Erases(w) == dests[dest[w]].queued /\ ~Stored(w)

Store(w) ==
  /\ Alive /\ pcW[w] = "store"
  /\ dests' = SetQueued(dests, dest[w], Stored(w))
  /\ batch' = [batch EXCEPT ![w] = Tail(@)] /\ Go(w, "metric")
  /\ erased' = CASE Erases(w) -> erased \cup {dest[w]}
                 [] Stored(w) -> erased \ {dest[w]}
                 [] OTHER     -> erased
  /\ UNCHANGED <<envVars, offered, dest, reg, todo, flushers, destMap,
                 accepted, submitted, failed>>

-----------------------------------------------------------------------------
(* The rest of metricProcessor, under the read lock.                       *)
FlushBegin(w) ==
  /\ Alive /\ pcW[w] = "metric" /\ batch[w] = <<>> /\ Go(w, "flush")
  /\ dests' = AgentStat(dests)
  /\ todo' = [todo EXCEPT ![w] = {destMap[k] : k \in Keys} \ {Nil}]
  /\ UNCHANGED <<envVars, offered, batch, dest, reg, flushers, destMap,
                 history>>

FlushDest(w, d) ==
  /\ Alive /\ d \in todo[w] /\ todo' = [todo EXCEPT ![w] = @ \ {d}]
  /\ flushers' = IF dests[d].queued
                   THEN flushers \cup {[w |-> w, d |-> d, pc |-> "zero"]}
                   ELSE flushers
  /\ UNCHANGED <<envVars, offered, pcW, batch, dest, reg, dests, destMap,
                 history>>

(* A flush resets the counter first and then lets TrapMetrics submit what  *)
(* it has.                                                                 *)
Step(f, pc) == flushers' = (flushers \ {f}) \cup {[f EXCEPT !.pc = pc]}
End(f) == flushers' = flushers \ {f}

FlushZero(f) ==
  /\ Alive /\ f.pc = "zero" /\ Step(f, "send")
  /\ dests' = SetQueued(dests, f.d, FALSE)
  /\ UNCHANGED <<envVars, offered, pcW, batch, dest, reg, todo, destMap,
                 history>>

FlushSend(f) ==
  /\ Alive /\ f.pc = "send" /\ End(f)
  /\ dests' = AgentStat(SetPending(dests, f.d, {}))
  /\ submitted' = submitted \cup dests[f.d].pending
  /\ erased' = erased \ {f.d}
  /\ UNCHANGED <<envVars, offered, pcW, batch, dest, reg, todo, destMap,
                 accepted, failed>>

(* The submission fails, which is logged.  Nothing in this repository says *)
(* whether TrapMetrics then still has the metrics.                         *)
FlushFails(f) ==
  /\ Alive /\ f.pc = "send" /\ End(f)
  /\ dests' \in {dests, SetPending(dests, f.d, {})}
  /\ failed' = failed \cup dests[f.d].pending
  /\ erased' = erased \ {f.d}
  /\ UNCHANGED <<envVars, offered, pcW, batch, dest, reg, todo, destMap,
                 accepted, submitted>>

FlushEnd(w) ==
  /\ Alive /\ pcW[w] = "flush" /\ todo[w] = {} /\ \A f \in flushers : f.w # w
  /\ dests' = AgentStat(dests)
  /\ Go(w, "idle")
  /\ UNCHANGED <<envVars, offered, batch, dest, reg, todo, flushers, destMap,
                 history>>

-----------------------------------------------------------------------------
Batches == UNION {[1..n -> [key : Keys, kind : Kinds]] : n \in 1..MaxBatch}

Worker(w) ==
  \/ WorkerTake(w) \/ Lookup(w) \/ InitDest(w) \/ Relook(w) \/ Record(w)
  \/ Count(w) \/ Store(w) \/ FlushBegin(w) \/ \E d \in todo[w] : FlushDest(w, d)
  \/ FlushEnd(w)

Flusher(w) ==
  \E f \in flushers : f.w = w /\ (FlushZero(f) \/ FlushSend(f) \/ FlushFails(f))

Next ==
  \/ Connect \/ ConnectFails \/ Started \/ Close \/ Emit \/ Return \/ Exit
  \/ \E b \in Batches : WriteCall(b)
  \/ \E w \in Workers : Worker(w) \/ InitFails(w) \/ Flusher(w)

Spec == Init /\ [][Next]_vars

(* The scheduler runs every goroutine that can run, the calls to the API   *)
(* and the submissions end.                                                *)
FairSpec ==
  /\ Spec
  /\ \A w \in Workers : WF_vars(Worker(w)) /\ WF_vars(Flusher(w))

-----------------------------------------------------------------------------
(* When no worker has anything in hand, no metric waits in a destination   *)
(* of the map (metricProcessor): a worker that skips a destination because *)
(* its counter is zero can rely on the flush that made it so.  The one     *)
(* exception is a counter that another worker reset by adding zero to a    *)
(* value it had read earlier (dest.queuedMetrics += numMetrics).           *)
NothingStranded ==
  (\A w \in Workers : pcW[w] \in {"none", "idle", "done"}) =>
    \A k \in Keys :
      destMap[k] # Nil =>
        dests[destMap[k]].pending \subseteq failed \/ destMap[k] \in erased

(* initMetricDestination does not look whether another worker was faster,  *)
(* so a plugin may get several destinations, but never more than there are *)
(* workers, however many metrics it sends.                                 *)
DestinationsBounded ==
  \A k \in PluginKeys :
    Cardinality({d \in DOMAIN dests : dests[d].key = k}) <= PoolSize

(* A metric recorded in a destination that another one replaced in the map. *)
Orphaned(m) ==
  \E d \in DOMAIN dests :
    m \in dests[d].pending /\ d \notin {destMap[k] : k \in Keys}

(* A metric recorded in a destination whose counter was reset.             *)
Uncounted(m) == \E d \in erased : m \in dests[d].pending

(* A metric for which Write returned no error is submitted or its failure  *)
(* is logged (metricProcessor), also when Run has returned meanwhile.  The *)
(* exceptions are the losses this code has: the process ends before, the   *)
(* destination was replaced in the map, its counter was reset by += 0.     *)
AcceptedSettles ==
  \A m \in 1..MaxMetrics :
    m \in accepted /\ metrics[m].kind = "ok" ~>
      \/ m \in submitted \cup failed
      \/ ~Alive \/ Orphaned(m) \/ Uncounted(m)

(* What Write accepted of a plugin, so that the buffer let go of it and    *)
(* its consumer was told of the delivery, has been submitted when the      *)
(* process ends.                                                           *)
AcceptedSubmitted ==
  process = "exited" =>
    \A m \in accepted :
      metrics[m].key \in PluginKeys /\ metrics[m].kind = "ok" => m \in submitted
=============================================================================
