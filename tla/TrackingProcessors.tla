------------------------- MODULE TrackingProcessors -------------------------
(***************************************************************************)
(* Tracked metrics through the processors that do not keep to the rules    *)
(* for settling them (plugins/processors):                                 *)
(*   - unpivot copies a base that it neither passes on nor settles;        *)
(*   - dedup takes a repeated metric from its results and leaves it;       *)
(*   - starlark, when the script fails, rejects the metric and returns an  *)
(*     error, upon which runProcessors drops it as well;                   *)
(*   - starlark, when the script returns deepcopy(metric): the copy is     *)
(*     dropped as it is made, and settled again by the outputs.            *)
(***************************************************************************)
EXTENDS Tracking

CONSTANT Careless   \* of "unpivot", "dedup", "fails", "deepcopy"

VARIABLE cached     \* the Cache of dedup has the series

allVars == <<vars, cached>>

(* A copy of the base for every field, here one, and the metric accepted.  *)
ProcUnpivot(g) ==
  /\ "unpivot" \in Careless /\ ProcTake(g, 1)
  /\ rc' = [rc EXCEPT ![g] = @ + 2]
  /\ acceptCount' = Inc(acceptCount, g) /\ settling' = Inc(settling, g)
  /\ UNCHANGED <<notifying, panicked, cached>>

(* A new value, or an expired entry: the Cache keeps an accepted copy.     *)
ProcDedupSave(g) ==
  /\ "dedup" \in Careless /\ ProcTake(g, 1)
  /\ CopyCount(g)
  /\ cached' = TRUE
  /\ acceptCount' = Inc(acceptCount, g) /\ settling' = Inc(settling, g)
  /\ UNCHANGED <<notifying, panicked>>

ProcDedupRemove(g) ==
  /\ "dedup" \in Careless /\ cached /\ ProcTake(g, 0)
  /\ UNCHANGED <<rc, acceptCount, settling, notifying, panicked, cached>>

ScriptFails(g) ==
  /\ "fails" \in Careless
  /\ piped[g] > 0 /\ piped' = Dec(piped, g)
  /\ reject(g)
  /\ settling' = [settling EXCEPT ![g] = @ + 2]
  /\ UNCHANGED <<recvVars, rc, delivered, ready, fanVars, held, notifying,
                 panicked, report, cached>>

(* The copy counts a reference and gives it back; the metric is accepted   *)
(* because the script returned another one.                                *)
ScriptDeepcopy(g) ==
  /\ "deepcopy" \in Careless /\ ProcTake(g, 1)
  /\ acceptCount' = Inc(acceptCount, g) /\ settling' = Inc(settling, g)
  /\ UNCHANGED <<rc, notifying, panicked, cached>>

CarelessInit == Init /\ cached = FALSE

CarelessNext ==
  \/ Next /\ UNCHANGED cached
  \/ \E g \in Ids : \/ ProcUnpivot(g) \/ ProcDedupSave(g) \/ ProcDedupRemove(g)
                    \/ ScriptFails(g) \/ ScriptDeepcopy(g)

CarelessSpec == CarelessInit /\ [][CarelessNext]_allVars

(* When all metrics of a group are settled its signal is on the way or     *)
(* sent, and no count goes below zero: "arrange for a signal when the      *)
(* group has been processed", and what decr asserts with a panic.          *)
SignalledWhenProcessed ==
  /\ "negative refcount" \notin panicked
  /\ \A g \in Created :
       fan # g /\ hand[g] + piped[g] + ready[g] + held[g] + settling[g] = 0 =>
         notifying[g] > 0 \/ report[g] # <<>>
=============================================================================
