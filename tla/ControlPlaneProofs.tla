-------------------------- MODULE ControlPlaneProofs --------------------------
(***************************************************************************)
(* Theorems about ControlPlane for all values of its constants: one        *)
(* undisturbed Apply brings everything in line with the database, and no   *)
(* reconciler ever closes the ports of SSH and the panel.                  *)
(*                                                                         *)
(* OneApplyCures speaks of the end of an Apply only.  Cleanly(t) says, for *)
(* each place of an Apply that nothing has disturbed, what it has put in   *)
(* order so far - and that no other Apply is under way, which is what lets *)
(* the earlier parts stand while it goes on.                               *)
(*                                                                         *)
(* Then about Routes, for any number of pages, groups, outbounds and       *)
(* bounds: the engine routes by the table unless something is owed, the    *)
(* WARP identity stays whole, one goroutine at most polls a capture, and   *)
(* looking at a group of rules routes nothing.                             *)
(* ServedUnlessOwed and OnePoller are inductive as they stand, which is    *)
(* what a handler owes: it stores and applies before it answers.  The key  *)
(* of an identity also travels in requests, so IdentityInv follows it.     *)
(***************************************************************************)
EXTENDS ControlPlane, Routes, TLAPS

Pcs == {"idle", "inbounds", "posture", "singbox", "xray", "list", "edit", "sync",
        "rules", "mirror", "ok", "failed", "kept"}

Types ==
  /\ rows \subseteq Inbounds /\ stealth \in BOOLEAN /\ managed \subseteq Ports
  /\ served \in [Engines -> SUBSET Inbounds] /\ chain \in [Ports -> Nat]
  /\ pc \in [Threads -> Pcs]
  /\ snap \in [Threads -> SUBSET Inbounds]
  /\ users \in [Threads -> SUBSET Ports] /\ edits \in [Threads -> SUBSET Ports]
  /\ clean \in [Threads -> BOOLEAN]

\* How far an Apply has come.
PastChain   == {"sync", "rules", "mirror", "ok"}
PastEngines == {"list", "edit"} \cup PastChain
PastSingbox == {"xray"} \cup PastEngines
PastPosture == {"singbox"} \cup PastSingbox

Cleanly(t) ==
  /\ \A u \in Threads \ {t} : pc[u] = "idle"
  /\ pc[t] = "posture" => snap[t] = rows
  /\ pc[t] \in PastPosture => snap[t] = Wanted /\ users[t] = UserPorts
  /\ pc[t] \in PastSingbox => served["singbox"] = Mine(Wanted, "singbox")
  /\ pc[t] \in PastEngines => served["xray"] = Mine(Wanted, "xray")
  /\ pc[t] = "edit" =>
       \A p \in FullPorts(Wanted, UserPorts) : chain[p] > 0 \/ p \in edits[t]
  /\ pc[t] \in PastChain => \A p \in FullPorts(Wanted, UserPorts) : chain[p] > 0
  /\ pc[t] = "mirror" => Diff(ManagedPorts(Wanted, UserPorts), managed) \subseteq edits[t]
  /\ pc[t] = "ok" => managed = ManagedPorts(Wanted, UserPorts)

CleanInv == Types /\ \A t \in Threads : clean[t] => Cleanly(t)

(***************************************************************************)
(* The operators of the model                                              *)
(***************************************************************************)
LEMMA PortsOf ==
  ASSUME NEW ins \in SUBSET Inbounds, NEW user \in SUBSET Ports
  PROVE  /\ ManagedPorts(ins, user) \in SUBSET Ports
         /\ FullPorts(ins, user) \in SUBSET Ports
         /\ SafePorts \subseteq FullPorts(ins, user)
  BY ControlPlaneAssumption
  DEF ControlPlaneAssumption, ManagedPorts, FullPorts, Openings

LEMMA RunningIn ==
  ASSUME NEW ins \in SUBSET Inbounds, NEW low
  PROVE  Running(ins, low) \in SUBSET Inbounds
  BY DEF Running

LEMMA WantedIn == Types => Wanted \in SUBSET Inbounds
  BY RunningIn DEF Types, Wanted

(***************************************************************************)
(* Types                                                                   *)
(***************************************************************************)
LEMMA InitTypes == Init => Types
<1> SUFFICES ASSUME Init PROVE Types
  OBVIOUS
<1>1. clean \in [Threads -> BOOLEAN] /\ pc \in [Threads -> Pcs]
  BY DEF Init, Pcs
<1>2. /\ snap \in [Threads -> SUBSET Inbounds]
      /\ users \in [Threads -> SUBSET Ports] /\ edits \in [Threads -> SUBSET Ports]
  BY DEF Init
<1>3. served \in [Engines -> SUBSET Inbounds] /\ chain \in [Ports -> Nat]
  BY DEF Init
<1>4. QED
  BY <1>1, <1>2, <1>3 DEF Init, Types

\* What every request has in common.
LEMMA BeginTypes ==
  ASSUME Types, NEW t \in Threads, NEW where \in Pcs, Begin(t, where)
  PROVE  /\ managed' \subseteq Ports /\ served' \in [Engines -> SUBSET Inbounds]
         /\ chain' \in [Ports -> Nat] /\ pc' \in [Threads -> Pcs]
         /\ snap' \in [Threads -> SUBSET Inbounds]
         /\ users' \in [Threads -> SUBSET Ports] /\ edits' \in [Threads -> SUBSET Ports]
         /\ clean' \in [Threads -> BOOLEAN]
  BY DEF Types, Begin, node, local

LEMMA RequestTypes ==
  ASSUME Types, NEW t \in Threads, Request(t)
  PROVE  Types'
<1>1. ASSUME NEW i \in Inbounds, ChangeInbound(t, i) PROVE Types'
  BY <1>1, BeginTypes DEF ChangeInbound, Types, Pcs, Diff
<1>2. ASSUME NEW v \in BOOLEAN, PutAntiBlock(t, v) PROVE Types'
  BY <1>2, BeginTypes DEF PutAntiBlock, Types, Pcs
<1>3. CASE Reapply(t)
  BY <1>3, BeginTypes DEF Reapply, Types, Pcs
<1>4. QED
  BY <1>1, <1>2, <1>3 DEF Request, StealthToggle

LEMMA CleanTypes ==
  ASSUME Types, NEW t \in Threads, Smooth \/ Fault(t)
  PROVE  clean' \in [Threads -> BOOLEAN]
  BY DEF Types, Smooth, Fault

LEMMA GotoTypes ==
  ASSUME Types, NEW t \in Threads, NEW next \in Pcs, Goto(t, next)
  PROVE  pc' \in [Threads -> Pcs]
  BY DEF Types, Goto

LEMMA ReadTablesTypes ==
  ASSUME Types, NEW t \in Threads, NEW ins \in SUBSET Inbounds, ReadTables(t, ins)
  PROVE  /\ snap' \in [Threads -> SUBSET Inbounds]
         /\ users' \in [Threads -> SUBSET Ports]
         /\ Smooth \/ Fault(t)
  BY RunningIn, ControlPlaneAssumption DEF ControlPlaneAssumption, Types, ReadTables

LEMMA ApplyTypes ==
  ASSUME Types, NEW t \in Threads, Apply(t)
  PROVE  Types'
<1>1. CASE ListInbounds(t)
  <2>1. /\ snap' \in [Threads -> SUBSET Inbounds]
        /\ Smooth \/ Fault(t)
        /\ Goto(t, "posture") \/ Goto(t, "failed")
    BY <1>1 DEF ListInbounds, Types
  <2>2. QED
    BY <1>1, <2>1, CleanTypes, GotoTypes DEF ListInbounds, Types, db, node, Pcs
<1>2. CASE LoadPosture(t)
  <2>1. snap[t] \in SUBSET Inbounds
    BY DEF Types
  <2>2. QED
    BY <1>2, <2>1, CleanTypes, GotoTypes, ReadTablesTypes DEF LoadPosture, Types, db, node, Pcs
<1>3. ASSUME NEW e \in Engines, ApplyEngine(t, e) PROVE Types'
  <2>1. Mine(snap[t], e) \in SUBSET Inbounds /\ served[e] \in SUBSET Inbounds
    BY DEF Types, Mine
  <2>2. /\ \E left \in SUBSET Inbounds : served' \in {served, [served EXCEPT ![e] = left]}
        /\ Smooth \/ Fault(t)
        /\ Goto(t, After(e, TRUE)) \/ Goto(t, After(e, FALSE))
    <3> DEFINE new == Mine(snap[t], e)
    <3>1. CASE new \cap Bad = {} /\ served' = [served EXCEPT ![e] = new]
               /\ Goto(t, After(e, TRUE)) /\ Smooth
      BY <3>1, <2>1
    <3>2. CASE UNCHANGED served /\ Goto(t, After(e, FALSE)) /\ Smooth
      BY <3>2, <2>1
    <3>3. CASE /\ \E left \in {served[e], {}, new} : served' = [served EXCEPT ![e] = left]
               /\ Goto(t, After(e, FALSE)) /\ Fault(t)
      BY <3>3, <2>1
    <3>4. QED
      BY <1>3, <3>1, <3>2, <3>3 DEF ApplyEngine
  <2>3. served' \in [Engines -> SUBSET Inbounds]
    BY <2>2 DEF Types
  <2>4. After(e, TRUE) \in Pcs /\ After(e, FALSE) \in Pcs
    BY DEF After, Pcs
  <2>5. QED
    BY <1>3, <2>2, <2>3, <2>4, CleanTypes, GotoTypes DEF ApplyEngine, Types, db, local
<1>4. CASE ListChain(t)
  <2>1. FullPorts(snap[t], users[t]) \in SUBSET Ports
    BY PortsOf DEF Types
  <2>2. /\ edits' \in [Threads -> SUBSET Ports]
        /\ Smooth \/ Fault(t)
        /\ Goto(t, "edit") \/ Goto(t, "sync")
    BY <1>4, <2>1 DEF ListChain, Types, Diff
  <2>3. QED
    BY <1>4, <2>2, CleanTypes, GotoTypes DEF ListChain, Types, db, node, Pcs
<1>5. ASSUME NEW p \in Ports, EditChain(t, p) PROVE Types'
  <2>1. Edited(p, FullPorts(snap[t], users[t])) \in Nat
    BY DEF Edited, Types
  <2>2. chain' \in [Ports -> Nat] /\ (Smooth \/ Fault(t))
    BY <1>5, <2>1 DEF EditChain, Types
  <2>3. QED
    BY <1>5, <2>2, CleanTypes DEF EditChain, Types, db
<1>6. CASE EditsDone(t)
  BY <1>6, CleanTypes, GotoTypes DEF EditsDone, Types, db, node, local, Pcs
<1>7. CASE ReadAgain(t)
  <2>1. /\ snap' \in [Threads -> SUBSET Inbounds]
        /\ users' \in [Threads -> SUBSET Ports]
        /\ Smooth \/ Fault(t)
        /\ Goto(t, "rules") \/ Goto(t, "ok")
    BY <1>7, ReadTablesTypes DEF ReadAgain, Types
  <2>2. QED
    BY <1>7, <2>1, CleanTypes, GotoTypes DEF ReadAgain, Types, db, node, Pcs
<1>8. CASE ListManaged(t)
  <2>1. ManagedPorts(snap[t], users[t]) \in SUBSET Ports
    BY PortsOf DEF Types
  <2>2. /\ edits' \in [Threads -> SUBSET Ports]
        /\ Smooth \/ Fault(t)
        /\ Goto(t, "mirror") \/ Goto(t, "ok")
    BY <1>8, <2>1 DEF ListManaged, Types, Diff
  <2>3. QED
    BY <1>8, <2>2, CleanTypes, GotoTypes DEF ListManaged, Types, db, node, Pcs
<1>9. ASSUME NEW p \in Ports, SyncManaged(t, p) PROVE Types'
  <2>1. Mirrored(p, ManagedPorts(snap[t], users[t])) \subseteq Ports
    BY DEF Mirrored, Types
  <2>2. /\ managed' \subseteq Ports /\ edits' \in [Threads -> SUBSET Ports]
        /\ Smooth \/ Fault(t)
    BY <1>9, <2>1 DEF SyncManaged, Types
  <2>3. QED
    BY <1>9, <2>2, CleanTypes DEF SyncManaged, Types, node
<1>10. CASE SyncDone(t)
  BY <1>10, CleanTypes, GotoTypes DEF SyncDone, Types, db, node, local, Pcs
<1>11. CASE Return(t)
  BY <1>11, CleanTypes, GotoTypes DEF Return, Types, db, node, Pcs
<1>12. QED
  BY <1>1, <1>2, <1>3, <1>4, <1>5, <1>6, <1>7, <1>8, <1>9, <1>10, <1>11 DEF Apply

LEMMA RestartTypes == Types /\ Restart => Types'
  BY DEF Types, Restart, db, Pcs

LEMMA NextTypes == Types /\ [Next]_vars => Types'
<1>1. ASSUME Types, UNCHANGED vars PROVE Types'
  BY <1>1 DEF Types, vars, db, node, local, bounds
<1>2. QED
  BY <1>1, RequestTypes, ApplyTypes, RestartTypes DEF Next

\* Every variable has its type in every reachable state.
THEOREM ControlPlaneTypes == Spec => []Types
  BY InitTypes, NextTypes, PTL DEF Spec

(***************************************************************************)
(* An Apply that nothing disturbs                                          *)
(***************************************************************************)
LEMMA Working ==
  ASSUME NEW t \in Threads, Apply(t)
  PROVE  /\ pc[t] # "idle" /\ (Smooth \/ Fault(t))
         /\ pc' = pc \/ \E next : pc' = [pc EXCEPT ![t] = next]
         /\ rows' = rows /\ stealth' = stealth
<1>1. CASE ListInbounds(t)
  BY <1>1 DEF ListInbounds, At, Goto, db
<1>2. CASE LoadPosture(t)
  BY <1>2 DEF LoadPosture, ReadTables, At, Goto, db
<1>3. ASSUME NEW e \in Engines, ApplyEngine(t, e)
      PROVE  /\ pc[t] # "idle" /\ (Smooth \/ Fault(t))
             /\ \E next : pc' = [pc EXCEPT ![t] = next]
             /\ rows' = rows /\ stealth' = stealth
  <2>1. Smooth \/ Fault(t)
    BY <1>3 DEF ApplyEngine
  <2>2. \E next : pc' = [pc EXCEPT ![t] = next]
    BY <1>3 DEF ApplyEngine, Goto
  <2>3. pc[t] # "idle"
    BY <1>3 DEF ApplyEngine, At, Engines
  <2>4. QED
    BY <1>3, <2>1, <2>2, <2>3 DEF ApplyEngine, db
<1>4. CASE ListChain(t)
  BY <1>4 DEF ListChain, At, Goto, db
<1>5. ASSUME NEW p \in Ports, EditChain(t, p)
      PROVE  /\ pc[t] # "idle" /\ (Smooth \/ Fault(t)) /\ pc' = pc
             /\ rows' = rows /\ stealth' = stealth
  BY <1>5 DEF EditChain, At, db
<1>6. CASE EditsDone(t)
  BY <1>6 DEF EditsDone, At, Goto, db
<1>7. CASE ReadAgain(t)
  BY <1>7 DEF ReadAgain, ReadTables, At, Goto, db
<1>8. CASE ListManaged(t)
  BY <1>8 DEF ListManaged, At, Goto, db
<1>9. ASSUME NEW p \in Ports, SyncManaged(t, p)
      PROVE  /\ pc[t] # "idle" /\ (Smooth \/ Fault(t)) /\ pc' = pc
             /\ rows' = rows /\ stealth' = stealth
  BY <1>9 DEF SyncManaged, At
<1>10. CASE SyncDone(t)
  BY <1>10 DEF SyncDone, At, Goto, db
<1>11. CASE Return(t)
  BY <1>11 DEF Return, Goto, db
<1>12. QED
  BY <1>1, <1>2, <1>3, <1>4, <1>5, <1>6, <1>7, <1>8, <1>9, <1>10, <1>11 DEF Apply

\* Whoever is clean after a step of an Apply took the step itself, without a
\* failure, while everybody else was idle.
LEMMA Alone ==
  ASSUME CleanInv, NEW u \in Threads, NEW t \in Threads, Apply(u), clean'[t]
  PROVE  /\ u = t /\ Smooth /\ ~Fault(t) /\ Cleanly(t)
         /\ \A v \in Threads \ {t} : pc'[v] = "idle"
         /\ Wanted' = Wanted
<1>1. ~Fault(t)
  BY DEF Fault, CleanInv, Types
<1>2. clean[t]
  BY Working DEF Smooth, Fault, CleanInv, Types
<1>3. Cleanly(t)
  BY <1>2 DEF CleanInv
<1>4. u = t
  BY <1>3, Working DEF Cleanly
<1>5. \A v \in Threads \ {t} : pc'[v] = "idle"
  BY <1>3, <1>4, Working DEF Cleanly, CleanInv, Types
<1>6. Wanted' = Wanted
  BY Working DEF Wanted
<1>7. QED
  BY <1>1, <1>3, <1>4, <1>5, <1>6, Working

LEMMA ApplyCleanly ==
  ASSUME CleanInv, NEW t \in Threads, Apply(t), clean'[t]
  PROVE  Cleanly(t)'
<1> DEFINE full == FullPorts(Wanted, UserPorts)
           mine == ManagedPorts(Wanted, UserPorts)
<1>1. /\ Types /\ Smooth /\ ~Fault(t) /\ Cleanly(t)
      /\ \A v \in Threads \ {t} : pc'[v] = "idle"
      /\ Wanted' = Wanted
  BY Alone DEF CleanInv
<1>2. /\ Wanted \in SUBSET Inbounds /\ UserPorts \in SUBSET Ports
      /\ full \in SUBSET Ports /\ mine \in SUBSET Ports
  BY <1>1, WantedIn, PortsOf, ControlPlaneAssumption DEF ControlPlaneAssumption
<1>3. FullPorts(Wanted, UserPorts)' = full
  BY <1>1 DEF FullPorts, ManagedPorts, Openings
<1>4. ManagedPorts(Wanted, UserPorts)' = mine
  BY <1>1 DEF ManagedPorts, Openings
<1>5. \A e : Mine(Wanted, e)' = Mine(Wanted, e)
  BY <1>1 DEF Mine
<1>6. /\ pc[t] = "posture" => snap[t] = rows
      /\ pc[t] \in PastPosture => snap[t] = Wanted /\ users[t] = UserPorts
      /\ pc[t] \in PastSingbox => served["singbox"] = Mine(Wanted, "singbox")
      /\ pc[t] \in PastEngines => served["xray"] = Mine(Wanted, "xray")
      /\ pc[t] = "edit" => \A p \in full : chain[p] > 0 \/ p \in edits[t]
      /\ pc[t] \in PastChain => \A p \in full : chain[p] > 0
      /\ pc[t] = "mirror" => Diff(mine, managed) \subseteq edits[t]
      /\ pc[t] = "ok" => managed = mine
  BY <1>1 DEF Cleanly
<1> DEFINE Goal ==
      /\ pc'[t] = "posture" => snap'[t] = rows'
      /\ pc'[t] \in PastPosture => snap'[t] = Wanted /\ users'[t] = UserPorts
      /\ pc'[t] \in PastSingbox => served'["singbox"] = Mine(Wanted, "singbox")
      /\ pc'[t] \in PastEngines => served'["xray"] = Mine(Wanted, "xray")
      /\ pc'[t] = "edit" => \A p \in full : chain'[p] > 0 \/ p \in edits'[t]
      /\ pc'[t] \in PastChain => \A p \in full : chain'[p] > 0
      /\ pc'[t] = "mirror" => Diff(mine, managed') \subseteq edits'[t]
      /\ pc'[t] = "ok" => managed' = mine
<1>7. SUFFICES Goal
  BY <1>1, <1>3, <1>4, <1>5 DEF Cleanly, Diff
<1> HIDE DEF full, mine
<1> USE DEF PastPosture, PastSingbox, PastEngines, PastChain
<1>8. \A p \in Ports : chain[p] \in Nat
  BY <1>1 DEF Types
<1>11. CASE ListInbounds(t)
  BY <1>1, <1>11 DEF ListInbounds, Goto, Types, db
<1>12. CASE LoadPosture(t)
  <2>1. snap[t] = rows
    BY <1>6, <1>12 DEF LoadPosture, At
  <2>2. snap'[t] = Wanted /\ users'[t] = UserPorts
    BY <1>1, <1>12, <2>1 DEF LoadPosture, ReadTables, Wanted, Types
  <2>3. pc'[t] = "singbox"
    BY <1>1, <1>12 DEF LoadPosture, Goto, Types
  <2>4. QED
    BY <2>2, <2>3
<1>13. ASSUME NEW e \in Engines, ApplyEngine(t, e) PROVE Goal
  <2>1. snap[t] = Wanted /\ users[t] = UserPorts /\ pc[t] = e
    BY <1>6, <1>13 DEF ApplyEngine, At, Engines
  <2>2. UNCHANGED <<rows, chain, managed, snap, users, edits>>
    BY <1>13 DEF ApplyEngine, db, local
  <2>3. CASE /\ served' = [served EXCEPT ![e] = Mine(snap[t], e)]
             /\ Goto(t, After(e, TRUE))
    <3>1. /\ e = "singbox" => pc'[t] = "xray"
          /\ e # "singbox" => pc'[t] = "list"
      BY <1>1, <2>3 DEF Goto, After, Types
    <3>2. served'[e] = Mine(Wanted, e) /\ \A f \in Engines \ {e} : served'[f] = served[f]
      BY <1>1, <2>1, <2>3 DEF Types
    <3>3. QED
      BY <1>6, <2>1, <2>2, <3>1, <3>2 DEF Engines
  <2>4. CASE Goto(t, After(e, FALSE))
    BY <1>1, <2>4 DEF Goto, After, Types
  <2>5. QED
    BY <1>1, <1>13, <2>3, <2>4 DEF ApplyEngine
<1>14. CASE ListChain(t)
  <2>1. snap[t] = Wanted /\ users[t] = UserPorts /\ pc[t] = "list"
    BY <1>6, <1>14 DEF ListChain, At
  <2>2. UNCHANGED <<rows, managed, served, chain, snap, users>>
    BY <1>14 DEF ListChain, db, node
  <2>3. pc'[t] = "edit" /\ edits'[t] = Diff(full, {p \in Ports : chain[p] > 0})
    BY <1>1, <1>14, <2>1 DEF ListChain, Goto, Types, full
  <2>4. \A p \in full : chain[p] > 0 \/ p \in edits'[t]
    BY <2>3 DEF Diff
  <2>5. QED
    BY <1>6, <2>1, <2>2, <2>3, <2>4
<1>15. ASSUME NEW p \in Ports, EditChain(t, p) PROVE Goal
  <2>1. snap[t] = Wanted /\ users[t] = UserPorts /\ pc[t] = "edit"
    BY <1>6, <1>15 DEF EditChain, At
  <2>2. UNCHANGED <<rows, managed, served, pc, snap, users>>
    BY <1>15 DEF EditChain, db
  <2>3. chain' = [chain EXCEPT ![p] = Edited(p, full)] /\ edits'[t] = edits[t] \ {p}
    BY <1>1, <1>15, <2>1 DEF EditChain, Types, full
  <2>4. p \in full => chain'[p] > 0
    BY <1>1, <1>8, <2>3 DEF Edited, Types
  <2>5. \A q \in full \ {p} : chain'[q] = chain[q]
    BY <1>1, <1>2, <2>3 DEF Types
  <2>6. QED
    BY <1>6, <2>1, <2>2, <2>3, <2>4, <2>5
<1>16. CASE EditsDone(t)
  <2>1. UNCHANGED <<rows, managed, served, chain, snap, users, edits>>
        /\ pc[t] = "edit" /\ edits[t] = {}
    BY <1>16 DEF EditsDone, At, db, node, local
  <2>2. pc'[t] = "sync"
    BY <1>1, <1>16 DEF EditsDone, Goto, Types
  <2>3. QED
    BY <1>6, <2>1, <2>2
<1>17. CASE ReadAgain(t)
  <2>1. UNCHANGED <<rows, managed, served, chain, edits>> /\ pc[t] = "sync"
    BY <1>17 DEF ReadAgain, At, db, node
  <2>2. pc'[t] = "rules" /\ snap'[t] = Wanted /\ users'[t] = UserPorts
    BY <1>1, <1>17 DEF ReadAgain, ReadTables, Goto, Wanted, Types
  <2>3. QED
    BY <1>6, <2>1, <2>2
<1>18. CASE ListManaged(t)
  <2>1. /\ UNCHANGED <<rows, managed, served, chain, snap, users>>
        /\ pc[t] = "rules" /\ snap[t] = Wanted /\ users[t] = UserPorts
    BY <1>6, <1>18 DEF ListManaged, At, db, node
  <2>2. pc'[t] = "mirror" /\ edits'[t] = Diff(mine, managed)
    BY <1>1, <1>18, <2>1 DEF ListManaged, Goto, Types, mine
  <2>3. QED
    BY <1>6, <2>1, <2>2
<1>19. ASSUME NEW p \in Ports, SyncManaged(t, p) PROVE Goal
  <2>1. /\ UNCHANGED <<rows, served, chain, snap, users, pc>>
        /\ pc[t] = "mirror" /\ snap[t] = Wanted /\ users[t] = UserPorts
    BY <1>6, <1>19 DEF SyncManaged, At, node
  <2>2. managed' = Mirrored(p, mine) /\ edits'[t] = edits[t] \ {p}
    BY <1>1, <1>19, <2>1 DEF SyncManaged, Types, mine
  <2>3. Diff(mine, managed') \subseteq edits'[t]
    BY <1>6, <2>1, <2>2 DEF Diff, Mirrored
  <2>4. QED
    BY <1>6, <2>1, <2>3
<1>20. CASE SyncDone(t)
  <2>1. UNCHANGED <<rows, managed, served, chain, snap, users, edits>>
        /\ pc[t] = "mirror" /\ edits[t] = {}
    BY <1>20 DEF SyncDone, At, db, node, local
  <2>2. pc'[t] = "ok"
    BY <1>1, <1>20 DEF SyncDone, Goto, Types
  <2>3. managed = mine
    BY <1>6, <2>1 DEF Diff
  <2>4. QED
    BY <1>6, <2>1, <2>2, <2>3
<1>21. CASE Return(t)
  BY <1>1, <1>21 DEF Return, Goto, Types
<1>22. QED
  BY <1>11, <1>12, <1>13, <1>14, <1>15, <1>16, <1>17, <1>18, <1>19, <1>20, <1>21
  DEF Apply

\* A request begins with nothing done, and what it overlaps is clean no more.
LEMMA RequestCleanly ==
  ASSUME CleanInv, NEW u \in Threads, NEW t \in Threads, Request(u), clean'[t]
  PROVE  Cleanly(t)'
<1>1. ASSUME NEW where \in {"inbounds", "kept"}, Begin(u, where)
      PROVE  /\ u = t /\ pc'[t] = where
             /\ \A v \in Threads \ {t} : pc'[v] = "idle"
  BY <1>1 DEF Begin, CleanInv, Types
<1>2. /\ u = t /\ pc'[t] \in {"inbounds", "kept"}
      /\ \A v \in Threads \ {t} : pc'[v] = "idle"
  BY <1>1 DEF Request, ChangeInbound, StealthToggle, PutAntiBlock, Reapply
<1>3. QED
  BY <1>2 DEF Cleanly, PastPosture, PastSingbox, PastEngines, PastChain

LEMMA RestartCleanly ==
  ASSUME NEW t \in Threads, Restart, clean'[t]
  PROVE  Cleanly(t)'
<1>1. pc'[t] = "inbounds" /\ \A v \in Threads \ {t} : pc'[v] = "idle"
  BY DEF Restart
<1>2. QED
  BY <1>1 DEF Cleanly, PastPosture, PastSingbox, PastEngines, PastChain

LEMMA InitClean == Init => CleanInv
<1> SUFFICES ASSUME Init, NEW t \in Threads, clean[t] PROVE Cleanly(t)
  BY InitTypes DEF CleanInv
<1>1. pc[t] = "inbounds" /\ \A v \in Threads \ {t} : pc[v] = "idle"
  BY DEF Init
<1>2. QED
  BY <1>1 DEF Cleanly, PastPosture, PastSingbox, PastEngines, PastChain

LEMMA StutterCleanly ==
  ASSUME UNCHANGED vars, NEW t \in Threads, Cleanly(t)
  PROVE  Cleanly(t)'
<1>1. Wanted' = Wanted /\ \A e : Mine(Wanted, e)' = Mine(Wanted, e)
  BY DEF vars, db, Wanted, Mine, Running
<1>2. FullPorts(Wanted, UserPorts)' = FullPorts(Wanted, UserPorts)
      /\ ManagedPorts(Wanted, UserPorts)' = ManagedPorts(Wanted, UserPorts)
  BY <1>1 DEF FullPorts, ManagedPorts, Openings
<1>3. QED
  BY <1>1, <1>2 DEF Cleanly, vars, db, node, local, Diff

LEMMA NextClean == CleanInv /\ [Next]_vars => CleanInv'
<1> SUFFICES ASSUME CleanInv, [Next]_vars, NEW t \in Threads, clean'[t]
             PROVE  Cleanly(t)'
  BY NextTypes DEF CleanInv
<1>1. ASSUME NEW u \in Threads, Request(u) PROVE Cleanly(t)'
  BY <1>1, RequestCleanly
<1>2. ASSUME NEW u \in Threads, Apply(u) PROVE Cleanly(t)'
  BY <1>2, Alone, ApplyCleanly
<1>3. CASE Restart
  BY <1>3, RestartCleanly
<1>4. CASE UNCHANGED vars
  BY <1>4, StutterCleanly DEF CleanInv, vars
<1>5. QED
  BY <1>1, <1>2, <1>3, <1>4 DEF Next

LEMMA CleanCures == CleanInv => OneApplyCures
<1> SUFFICES ASSUME CleanInv, NEW t \in Threads, Undisturbed(t)
             PROVE  /\ served = [e \in Engines |-> Mine(Wanted, e)]
                    /\ FirewallPreview \subseteq OpenPorts
                    /\ managed = Openings(Wanted) \cup (SafePorts \ UserPorts)
  BY DEF OneApplyCures
<1>1. Types /\ Cleanly(t) /\ pc[t] = "ok"
  BY DEF CleanInv, Undisturbed
<1>2. \A e \in Engines : served[e] = Mine(Wanted, e)
  BY <1>1 DEF Cleanly, Engines, PastSingbox, PastEngines, PastChain
<1>3. served = [e \in Engines |-> Mine(Wanted, e)]
  BY <1>1, <1>2 DEF Types
<1>4. FirewallPreview = FullPorts(Wanted, UserPorts)
  BY DEF FirewallPreview, Wanted
<1>5. FullPorts(Wanted, UserPorts) \subseteq OpenPorts
  BY <1>1, WantedIn, PortsOf, ControlPlaneAssumption
  DEF ControlPlaneAssumption, Cleanly, PastChain, OpenPorts
<1>6. managed = Openings(Wanted) \cup (SafePorts \ UserPorts)
  BY <1>1 DEF Cleanly, ManagedPorts
<1>7. QED
  BY <1>3, <1>4, <1>5, <1>6

\* Whatever overlapped, failed or was cut off before, one Apply that runs alone
\* and meets no failure brings the engines, the openings and the managed rules
\* to what the database wants (Orchestrator.Apply).
THEOREM ApplyCures == Spec => []OneApplyCures
<1>1. Spec => []CleanInv
  BY InitClean, NextClean, PTL DEF Spec
<1>2. QED
  BY <1>1, CleanCures, PTL

(***************************************************************************)
(* The ports of SSH and the panel                                          *)
(***************************************************************************)
\* Only an edit of iptables changes the chain, and it adds a rule for a port it
\* wants: a safe port is wanted by every Apply, whatever it has read.
LEMMA SafeEdit ==
  ASSUME Types, NEW t \in Threads, NEW q \in Ports, EditChain(t, q),
         NEW p \in SafePorts, chain[p] > 0
  PROVE  chain'[p] > 0
<1>1. p \in Ports /\ p \in FullPorts(snap[t], users[t])
  BY PortsOf, ControlPlaneAssumption DEF ControlPlaneAssumption, Types
<1>2. chain[p] \in Nat
  BY <1>1 DEF Types
<1>3. CASE UNCHANGED chain
  BY <1>3
<1>4. CASE chain' = [chain EXCEPT ![q] = Edited(q, FullPorts(snap[t], users[t]))]
  BY <1>1, <1>2, <1>4 DEF Edited, Types
<1>5. QED
  BY <1>3, <1>4 DEF EditChain

LEMMA ChainKept ==
  ASSUME [Next]_vars, ~\E t \in Threads, q \in Ports : EditChain(t, q)
  PROVE  chain' = chain
<1>1. ASSUME NEW t \in Threads, Request(t) PROVE chain' = chain
  BY <1>1 DEF Request, ChangeInbound, StealthToggle, PutAntiBlock, Reapply, Begin, node
<1>2. ASSUME NEW t \in Threads, Apply(t) PROVE chain' = chain
  BY <1>2 DEF Apply, ListInbounds, LoadPosture, ApplyEngine, ListChain, EditsDone,
              ReadAgain, ListManaged, SyncManaged, SyncDone, Return, node
<1>3. CASE Restart \/ UNCHANGED vars
  BY <1>3 DEF Restart, vars, node
<1>4. QED
  BY <1>1, <1>2, <1>3 DEF Next

\* An opening for SSH or the panel, once made, is never taken away again,
\* however the edits of the reconcilers mix (node/firewall, I7).
THEOREM SafeStayOpen == Spec => SafePortsStayOpen
<1>1. ASSUME Types, [Next]_vars
      PROVE  [\A p \in SafePorts : chain[p] > 0 => chain'[p] > 0]_vars
  BY <1>1, SafeEdit, ChainKept
<1>2. QED
  BY <1>1, ControlPlaneTypes, PTL DEF Spec, SafePortsStayOpen

\* The identity in the row, and the one each form under way will put there.
IdentityInv ==
  ~outdated => /\ warp.key = warp.addr
               /\ \A r \in req : r.op = "put" => r.key = r.addr

(***************************************************************************)
(* What a handler of the rules does                                        *)
(***************************************************************************)
\* Every one of them stores rules and applies, or changes nothing of the table;
\* none touches the WARP row.
Handled == (\E rs : Stored(rs, warp)) \/ UNCHANGED <<rules, warp, engine, owed>>

LEMMA KeepHandles == ASSUME NEW rs, Keep(rs) PROVE Handled
BY DEF Keep, Handled

LEMMA MakeHandles == ASSUME NEW more, Make(more) PROVE Handled
BY DEF Make, Handled

LEMMA NothingHandles == Nothing => Handled
BY DEF Nothing, Handled, table

LEMMA BulkHandles == ASSUME NEW action, NEW ids, BulkRoutes(action, ids) PROVE Handled
<1> DEFINE hit == {r \in rules : r.id \in ids}
<1>1. CASE hit = {}
  BY <1>1, NothingHandles DEF BulkRoutes
<1>2. CASE hit # {} /\ action = "delete"
  <2>1. Keep(rules \ hit)
    BY <1>2 DEF BulkRoutes
  <2>2. QED
    BY <2>1, KeepHandles
<1>3. CASE hit # {} /\ action # "delete"
  <2>1. Keep((rules \ hit) \cup {[r EXCEPT !.enabled = (action = "enable")] : r \in hit})
    BY <1>3 DEF BulkRoutes
  <2>2. QED
    BY <2>1, KeepHandles
<1>4. QED
  BY <1>1, <1>2, <1>3

LEMMA UpdateHandles == ASSUME NEW body, UpdateRoute(body) PROVE Handled
BY KeepHandles, NothingHandles DEF UpdateRoute

LEMMA DeleteHandles == ASSUME NEW id, DeleteRoute(id) PROVE Handled
BY KeepHandles, NothingHandles DEF DeleteRoute

LEMMA ReorderHandles == ASSUME NEW ids, ReorderRoutes(ids) PROVE Handled
BY KeepHandles, NothingHandles DEF ReorderRoutes

LEMMA CreateHandles ==
  ASSUME NEW v, NEW o, NEW e, NEW s, NEW n, CreateRoute(v, o, e, s, n)
  PROVE  Handled
BY MakeHandles DEF CreateRoute

LEMMA PresetHandles == ASSUME NEW o, NEW e, ApplyRoutePreset(o, e) PROVE Handled
BY MakeHandles DEF ApplyRoutePreset

LEMMA CapturedHandles == ASSUME NEW ds, NEW o, ApplyCapturedRoutes(ds, o) PROVE Handled
BY MakeHandles DEF ApplyCapturedRoutes

\* What the pages of rules, groups, unlocking and outbounds do: they handle rules,
\* and leave captures, WARP and its requests alone.
Elsewhere == UNCHANGED <<pollers, live, req, outdated>>

LEMMA PagesHandle ==
  ASSUME NEW t \in Tabs,
         Refetch(t) \/ RoutePresetsCard(t) \/ RoutesPage(t) \/ UnlockPanel(t) \/ OutboundPage(t)
  PROVE  Handled /\ Elsewhere
<1>1. CASE Refetch(t) \/ UnlockPanel(t) \/ OutboundPage(t)
  BY <1>1 DEF Refetch, UnlockPanel, UnlockProbe, UnlockProbeWARP, OutboundPage, table, capt, Handled, Elsewhere
<1>2. CASE RoutePresetsCard(t)
  <2>1. CASE ViewRules(t)
    <3>1. ApplyRoutePreset(chosenOut(t), FALSE) \/ Nothing
      BY <2>1 DEF ViewRules
    <3>2. Handled
      BY <3>1, PresetHandles, NothingHandles
    <3>3. QED
      BY <2>1, <3>2 DEF ViewRules, Idle, capt, Elsewhere
  <2>2. CASE PickOutbound(t)
    BY <2>2 DEF PickOutbound, table, capt, Handled, Elsewhere
  <2>3. CASE RemoveGroup(t)
    <3>1. Handled
      BY <2>3, BulkHandles DEF RemoveGroup
    <3>2. QED
      BY <2>3, <3>1 DEF RemoveGroup, Idle, capt, Elsewhere
  <2>4. QED
    BY <1>2, <2>1, <2>2, <2>3 DEF RoutePresetsCard
<1>3. CASE RoutesPage(t)
  <2>1. CASE ClearFilter(t) \/ OpenRule(t) \/ CloseRule(t)
    BY <2>1 DEF ClearFilter, OpenRule, CloseRule, table, capt, Handled, Elsewhere
  <2>2. CASE runBulk(t)
    <3>1. Handled
      BY <2>2, BulkHandles DEF runBulk
    <3>2. QED
      BY <2>2, <3>1 DEF runBulk, Idle, capt, Elsewhere
  <2>3. CASE toggleRule(t)
    <3>1. Handled
      BY <2>3, BulkHandles DEF toggleRule
    <3>2. QED
      BY <2>3, <3>1 DEF toggleRule, Idle, capt, Elsewhere
  <2>4. CASE del(t)
    <3>1. Handled
      BY <2>4, DeleteHandles DEF del
    <3>2. QED
      BY <2>4, <3>1 DEF del, Idle, capt, Elsewhere
  <2>5. CASE onDrop(t)
    <3>1. Handled
      BY <2>5, ReorderHandles DEF onDrop
    <3>2. QED
      BY <2>5, <3>1 DEF onDrop, Idle, capt, Elsewhere
  <2>6. CASE RuleModal(t)
    <3>1. Handled
      BY <2>6, CreateHandles, UpdateHandles DEF RuleModal
    <3>2. QED
      BY <2>6, <3>1 DEF RuleModal, Idle, capt, Elsewhere
  <2>7. QED
    BY <1>3, <2>1, <2>2, <2>3, <2>4, <2>5, <2>6 DEF RoutesPage
<1>4. QED
  BY <1>1, <1>2, <1>3

\* What the panels of captures do besides: they start and stop them.
LEMMA CapturesHandle ==
  ASSUME NEW t \in Tabs, Captures(t)
  PROVE  /\ Handled /\ UNCHANGED <<req, outdated>>
         /\ StartLiveCapture \/ StopLiveCapture \/ UNCHANGED <<pollers, live>>
<1>1. CASE LiveStart(t) \/ LiveStop(t) \/ EndCapture(t)
  BY <1>1 DEF LiveStart, LiveStop, EndCapture, table, Handled
<1>2. CASE CaptureModal(t)
  <2>1. Handled
    BY <1>2, CapturedHandles DEF CaptureModal
  <2>2. QED
    BY <1>2, <2>1 DEF CaptureModal, Idle, capt
<1>3. CASE LiveCapturePanel(t)
  <2>1. Handled
    BY <1>3, CapturedHandles DEF LiveCapturePanel
  <2>2. QED
    BY <1>3, <2>1 DEF LiveCapturePanel, Idle, capt
<1>4. QED
  BY <1>1, <1>2, <1>3 DEF Captures

(***************************************************************************)
(* The engine and the table                                                *)
(***************************************************************************)
LEMMA StoredServes ==
  ASSUME NEW rs, NEW w, Stored(rs, w)
  PROVE  ServedUnlessOwed'
BY DEF Stored, ServedUnlessOwed

LEMMA HandledServes ==
  ASSUME ServedUnlessOwed, Handled
  PROVE  ServedUnlessOwed'
<1>1. CASE UNCHANGED <<rules, warp, engine, owed>>
  BY <1>1 DEF ServedUnlessOwed
<1>2. QED
  BY <1>1, StoredServes DEF Handled

LEMMA WarpServes ==
  ASSUME ServedUnlessOwed,
         (\E t \in Tabs : WarpPanel(t)) \/ \E r \in req : RegisterWarp(r) \/ UpsertWarp(r)
  PROVE  ServedUnlessOwed'
<1>1. ASSUME NEW t \in Tabs, AskRegister(t) \/ PutWarp(t) PROVE ServedUnlessOwed'
  BY <1>1 DEF AskRegister, PutWarp, table, ServedUnlessOwed
<1>2. ASSUME NEW t \in Tabs, DeleteWarp(t) PROVE ServedUnlessOwed'
  BY <1>2, StoredServes DEF DeleteWarp
<1>3. ASSUME NEW r \in req, UpsertWarp(r) PROVE ServedUnlessOwed'
  BY <1>3, StoredServes DEF UpsertWarp
<1>4. ASSUME NEW r \in req, RegisterWarp(r) PROVE ServedUnlessOwed'
  BY <1>4 DEF RegisterWarp, ServedUnlessOwed
<1>5. QED
  BY <1>1, <1>2, <1>3, <1>4 DEF WarpPanel

\* Whatever the pages edit from however old a list, the engine routes by the table
\* and the account as stored, unless the last write was refused by it or only
\* registered an account (every route handler, PutWarp, DeleteWarp).
THEOREM RoutesServed == RoutesSpec => []ServedUnlessOwed
<1>1. RoutesInit => ServedUnlessOwed
  BY DEF RoutesInit, ServedUnlessOwed
<1>2. ServedUnlessOwed /\ [RoutesNext]_routesVars => ServedUnlessOwed'
  <2> SUFFICES ASSUME ServedUnlessOwed, [RoutesNext]_routesVars PROVE ServedUnlessOwed'
    OBVIOUS
  <2>1. CASE UNCHANGED routesVars
    BY <2>1 DEF routesVars, table, ServedUnlessOwed
  <2>2. QED
    BY <2>1, PagesHandle, CapturesHandle, HandledServes, WarpServes DEF RoutesNext
<1>3. QED
  BY <1>1, <1>2, PTL DEF RoutesSpec

\* The history of the last write says one of three things.
OwedInv == owed \in {"none", "failed", "register"}

LEMMA OwedKeeps == ASSUME OwedInv, [RoutesNext]_routesVars PROVE OwedInv'
<1>1. ASSUME Handled PROVE OwedInv'
  BY <1>1 DEF Handled, Stored, OwedInv
<1>2. ASSUME NEW t \in Tabs, WarpPanel(t) PROVE OwedInv'
  <2>1. CASE AskRegister(t) \/ PutWarp(t)
    BY <2>1 DEF AskRegister, PutWarp, table, OwedInv
  <2>2. CASE DeleteWarp(t)
    BY <2>2 DEF DeleteWarp, Stored, OwedInv
  <2>3. QED
    BY <1>2, <2>1, <2>2 DEF WarpPanel
<1>3. ASSUME NEW r \in req, RegisterWarp(r) \/ UpsertWarp(r) PROVE OwedInv'
  BY <1>3 DEF RegisterWarp, UpsertWarp, Stored, OwedInv
<1>4. CASE UNCHANGED routesVars
  BY <1>4 DEF routesVars, table, OwedInv
<1>5. QED
  BY <1>1, <1>2, <1>3, <1>4, PagesHandle, CapturesHandle DEF RoutesNext

\* What is switched off is not sent.
LEMMA OffIsNotSent ==
  ASSUME NEW rs, NEW more, NEW w, \A r \in more : r.enabled = FALSE
  PROVE  BuildDesired(rs \cup more, w) = BuildDesired(rs, w)
<1>1. {r \in rs \cup more : r.enabled} = {r \in rs : r.enabled}
  OBVIOUS
<1>2. QED
  BY <1>1 DEF BuildDesired

\* A group that is materialised switched off leaves the engine as it is, whether the
\* Apply that follows succeeds or not.
LEMMA PresetOffRoutesNothing ==
  ASSUME NEW o, engine = Render(BuildDesired(rules, warp)), ApplyRoutePreset(o, FALSE)
  PROVE  engine' = engine
<1> DEFINE ds == Missing(Preset, o)
           more == {New(ds[i], o, FALSE, 0, "preset", i) : i \in 1..Len(ds)}
<1>1. Stored(rules \cup more, warp)
  BY DEF ApplyRoutePreset, Make
<1>2. \A r \in more : r.enabled = FALSE
  BY DEF New
<1> HIDE DEF more
<1>3. BuildDesired(rules \cup more, warp) = BuildDesired(rules, warp)
  BY <1>2, OffIsNotSent
<1>4. QED
  BY <1>1, <1>3 DEF Stored

\* To look at the rules of a group changes no way out, from whatever list the page
\* worked out that rules are missing (RoutePresetsCard.tsx, ApplyRoutePreset).
THEOREM LookingRoutesNothing == RoutesSpec => ViewingRoutesNothing
<1>1. RoutesInit => OwedInv
  BY DEF RoutesInit, OwedInv
<1>2. OwedInv /\ [RoutesNext]_routesVars => OwedInv'
  BY OwedKeeps
<1>3. ASSUME OwedInv, ServedUnlessOwed, [RoutesNext]_routesVars
      PROVE  [\A t \in Tabs : ViewRules(t) /\ owed # "register" /\ owed # "failed" =>
                \A d \in Domains : Egress(engine', d) = Egress(engine, d)]_routesVars
  <2> SUFFICES ASSUME NEW t \in Tabs, ViewRules(t), owed # "register", owed # "failed"
               PROVE  engine' = engine
    OBVIOUS
  <2>1. engine = Render(BuildDesired(rules, warp))
    BY <1>3 DEF OwedInv, ServedUnlessOwed
  <2>2. CASE Nothing
    BY <2>2 DEF Nothing, table
  <2>3. CASE ApplyRoutePreset(chosenOut(t), FALSE)
    BY <2>1, <2>3, PresetOffRoutesNothing
  <2>4. QED
    BY <2>2, <2>3 DEF ViewRules
<1>4. QED
  BY <1>1, <1>2, <1>3, RoutesServed, PTL DEF RoutesSpec, ViewingRoutesNothing

(***************************************************************************)
(* The identity                                                            *)
(***************************************************************************)
LEMMA WarpKeeps ==
  ASSUME IdentityInv,
         (\E t \in Tabs : WarpPanel(t)) \/ \E r \in req : RegisterWarp(r) \/ UpsertWarp(r)
  PROVE  IdentityInv'
<1>1. ASSUME NEW t \in Tabs, AskRegister(t) PROVE IdentityInv'
  <2> DEFINE new == [tab |-> t, op |-> "register", enabled |-> FALSE, key |-> 0, addr |-> 0]
  <2>1. req' = req \cup {new} /\ new.op # "put" /\ UNCHANGED <<warp, outdated>>
    BY <1>1 DEF AskRegister, table
  <2> HIDE DEF new
  <2>2. QED
    BY <2>1 DEF IdentityInv
\* A form carries the key that the handler has read and the addresses of its page.
<1>2. ASSUME NEW t \in Tabs, PutWarp(t) PROVE IdentityInv'
  <2>1. PICK on \in BOOLEAN :
          /\ req' = req \cup {[tab |-> t, op |-> "put", enabled |-> on, key |-> warp.key, addr |-> page[t].addr]}
          /\ outdated' = (outdated \/ page[t].addr # warp.addr) /\ UNCHANGED warp
    BY <1>2 DEF PutWarp, table
  <2> DEFINE new == [tab |-> t, op |-> "put", enabled |-> on, key |-> warp.key, addr |-> page[t].addr]
  <2>2. req' = req \cup {new} /\ new.key = warp.key /\ new.addr = page[t].addr
    BY <2>1
  <2> HIDE DEF new
  <2>3. QED
    BY <2>1, <2>2 DEF IdentityInv
<1>3. ASSUME NEW t \in Tabs, DeleteWarp(t) PROVE IdentityInv'
  BY <1>3 DEF DeleteWarp, Stored, NoWarp, IdentityInv
<1>4. ASSUME NEW r \in req, UpsertWarp(r) PROVE IdentityInv'
  <2>1. /\ r.op = "put" /\ req' = req \ {r} /\ UNCHANGED outdated
        /\ warp'.key = r.key /\ warp'.addr = r.addr
    BY <1>4 DEF UpsertWarp, Stored
  <2>2. QED
    BY <2>1 DEF IdentityInv
<1>5. ASSUME NEW r \in req, RegisterWarp(r) PROVE IdentityInv'
  <2>1. /\ req' = req \ {r} /\ UNCHANGED outdated
        /\ UNCHANGED warp \/ warp'.key = warp'.addr
    BY <1>5 DEF RegisterWarp
  <2>2. QED
    BY <2>1 DEF IdentityInv
<1>6. QED
  BY <1>1, <1>2, <1>3, <1>4, <1>5 DEF WarpPanel

\* Key and addresses of the WARP row are of one registration, whatever saves,
\* registrations and deletions overlap, until a form older than the row is saved
\* (PutWarp reads the key, the page sends the addresses).
THEOREM IdentityWhole == RoutesSpec => []IdentityStaysWhole
<1>1. RoutesInit => IdentityInv
  <2>1. RoutesInit => warp = [enabled |-> TRUE, key |-> 1, addr |-> 1] /\ req = {}
    BY DEF RoutesInit
  <2>2. QED
    BY <2>1 DEF IdentityInv
<1>2. IdentityInv /\ [RoutesNext]_routesVars => IdentityInv'
  <2> SUFFICES ASSUME IdentityInv, [RoutesNext]_routesVars PROVE IdentityInv'
    OBVIOUS
  <2>1. ASSUME Handled \/ UNCHANGED warp, UNCHANGED <<req, outdated>> PROVE IdentityInv'
    BY <2>1 DEF Handled, Stored, IdentityInv
  <2>2. CASE UNCHANGED routesVars
    BY <2>1, <2>2 DEF routesVars, table
  <2>3. QED
    BY <2>1, <2>2, PagesHandle, CapturesHandle, WarpKeeps DEF RoutesNext, Elsewhere
<1>3. IdentityInv => IdentityStaysWhole
  BY DEF IdentityInv, IdentityStaysWhole
<1>4. QED
  BY <1>1, <1>2, <1>3, PTL DEF RoutesSpec

(***************************************************************************)
(* The captures                                                            *)
(***************************************************************************)
\* However many pages start and stop captures, and whoever builds rules of one, at
\* most one goroutine polls, and none once it was stopped (live_capture_handlers).
THEOREM CaptureAlone == RoutesSpec => []OnePoller
<1>1. RoutesInit => OnePoller
  <2>1. RoutesInit => pollers = {} /\ live = [running |-> FALSE, cancel |-> 0]
    BY DEF RoutesInit
  <2>2. QED
    BY <2>1 DEF OnePoller
<1>2. OnePoller /\ [RoutesNext]_routesVars => OnePoller'
  <2> SUFFICES ASSUME OnePoller, [RoutesNext]_routesVars PROVE OnePoller'
    OBVIOUS
  <2>1. ASSUME UNCHANGED <<pollers, live>> PROVE OnePoller'
    BY <2>1 DEF OnePoller
  <2>2. ASSUME StartLiveCapture PROVE OnePoller'
    BY <2>1, <2>2 DEF StartLiveCapture, OnePoller, capt
  <2>3. ASSUME StopLiveCapture PROVE OnePoller'
    BY <2>3 DEF StopLiveCapture, OnePoller
  <2>4. CASE UNCHANGED routesVars
    BY <2>1, <2>4 DEF routesVars, capt
  <2>5. ASSUME NEW t \in Tabs, WarpPanel(t) PROVE OnePoller'
    BY <2>1, <2>5 DEF WarpPanel, AskRegister, PutWarp, DeleteWarp, capt
  <2>6. ASSUME NEW r \in req, RegisterWarp(r) \/ UpsertWarp(r) PROVE OnePoller'
    BY <2>1, <2>6 DEF RegisterWarp, UpsertWarp, capt
  <2>7. QED
    BY <2>1, <2>2, <2>3, <2>4, <2>5, <2>6, PagesHandle, CapturesHandle DEF RoutesNext, Elsewhere
<1>3. QED
  BY <1>1, <1>2, PTL DEF RoutesSpec
===============================================================================
