---------------------------- MODULE ReloadProofs ----------------------------
(***************************************************************************)
(* The flag of reloadLoop is in one place, for any number of reloads.      *)
(*                                                                         *)
(* The invariant has to say why the flag can be taken back: TRUE is put by *)
(* a listener that is through with the channel, so while the flag is TRUE, *)
(* and until the next listener is started, no listener is after it.        *)
(***************************************************************************)
EXTENDS Reload, TLAPS

TypeInv ==
  /\ pcM \in {"loop", "put", "listen", "load", "start", "run", "exited", "fatal"}
  /\ gen \in Nat
  /\ reload \in {<<>>, <<TRUE>>, <<FALSE>>}
  /\ listener \in [Gens -> {"none", "select", "take", "give", "cancel", "done"}]

Quiet == \A g \in Gens : ~AfterFlag(g)

FlagInv ==
  Alive =>
    /\ reload = <<TRUE>> \/ pcM \in {"put", "listen"} => Quiet
    /\ pcM = "listen" => reload # <<TRUE>>

Inv == TypeInv /\ FlagInOnePlace /\ FlagInv

(* The flag starts in the channel. *)
LEMMA InvInit == Init => Inv
  BY DEF Init, Inv, TypeInv, FlagInOnePlace, FlagInv, Alive, AfterFlag, Quiet, B2N

(* Every step of the loop and of the listeners keeps the flag in one place. *)
LEMMA InvNext == Inv /\ [Next]_vars => Inv'
<1> SUFFICES ASSUME Inv, [Next]_vars PROVE Inv'
  OBVIOUS
<1> USE DEF Inv, TypeInv, FlagInOnePlace, FlagInv, Alive, AfterFlag, Quiet, B2N
<1>1. CASE LoopTest
  <2>1. CASE reload = <<FALSE>>
    BY <1>1, <2>1 DEF LoopTest
  <2>2. CASE reload = <<TRUE>>
    <3>1. Alive /\ Quiet /\ pcM' = "put" /\ reload' = <<>> /\ listener' = listener
      BY <1>1, <2>2 DEF LoopTest
    <3> QED
      BY <1>1, <3>1 DEF LoopTest
  <2> QED
    BY <1>1, <2>1, <2>2, Zenon DEF LoopTest
<1>2. CASE LoopPut
  BY <1>2 DEF LoopPut, PutFlag
<1>3. CASE LoopListen
  <2>0. Alive /\ pcM = "listen" /\ Quiet /\ reload # <<TRUE>>
    BY <1>3, Zenon DEF LoopListen
  <2>1. Len(reload) = 1
    <3>1. ~ \E g \in Gens : listener[g] = "give"
      BY <2>0
    <3> QED
      BY <2>0, <3>1
  <2>2. /\ pcM' = "load" /\ reload' = reload /\ gen' = gen + 1
        /\ listener' = [listener EXCEPT ![gen + 1] = "select"]
    BY <1>3 DEF LoopListen
  <2>3. gen' \in Nat
    BY <2>2
  <2>4. listener' \in [Gens -> {"none", "select", "take", "give", "cancel", "done"}]
    BY <2>2, Zenon
  <2>5. \A g \in Gens : listener'[g] # listener[g] => g = gen' /\ listener'[g] = "select"
    BY <2>2
  <2>6. FlagInOnePlace'
    BY <2>0, <2>1, <2>2, <2>5
  <2> QED
    BY <2>0, <2>1, <2>2, <2>3, <2>4, <2>6, Zenon
<1>4. CASE LoadConfig
  BY <1>4, Zenon DEF LoadConfig
<1>5. CASE AgentStarts
  BY <1>5, Zenon DEF AgentStarts
<1>6. CASE AgentReturns
  BY <1>6, Zenon DEF AgentReturns
<1>7. CASE RunFails
  BY <1>7, Zenon DEF RunFails
<1>8. ASSUME NEW s \in {"HUP", "TERM"}, Signal(s) PROVE Inv'
  BY <1>8, Zenon DEF Signal
<1>9. ASSUME NEW g \in Gens, ListenTake(g) PROVE Inv'
  BY <1>9, Zenon DEF ListenTake
<1>10. ASSUME NEW g \in Gens, ListenFlag(g) PROVE Inv'
  <2>1. /\ Len(reload) = 1 /\ reload' = <<>> /\ Len(reload') = 0
        /\ pcM' = pcM /\ pcM # "put"
    BY <1>10, Zenon DEF ListenFlag
  <2>2. TypeInv' /\ listener'[g] = "give" /\ gen' = gen
    BY <1>10 DEF ListenFlag
  <2>3. \A h \in Gens : h # g => listener'[h] = listener[h]
    BY <1>10 DEF ListenFlag
  <2>4. g = gen /\ reload # <<TRUE>> /\ pcM # "listen"
    BY <1>10, Zenon DEF ListenFlag
  <2> QED
    BY <2>1, <2>2, <2>3, <2>4
<1>11. ASSUME NEW g \in Gens, ListenSet(g) PROVE Inv'
  BY <1>11 DEF ListenSet, PutFlag
<1>12. ASSUME NEW g \in Gens, ListenCancel(g) PROVE Inv'
  BY <1>12, Zenon DEF ListenCancel
<1>13. CASE UNCHANGED vars
  BY <1>13, Zenon DEF vars
<1> QED
  BY <1>1, <1>2, <1>3, <1>4, <1>5, <1>6, <1>7, <1>8, <1>9, <1>10, <1>11, <1>12,
     <1>13, Zenon DEF Next, Loop, Listen

(* The flag of reloadLoop is in the channel, or in the hands of the loop   *)
(* or of the latest listener, for every number of reloads.                 *)
THEOREM FlagStaysInOnePlace == Spec => []FlagInOnePlace
<1>1. Inv => FlagInOnePlace
  BY DEF Inv
<1> QED
  BY <1>1, InvInit, InvNext, PTL DEF Spec
=============================================================================
