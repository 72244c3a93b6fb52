---------------------------- MODULE ControlPlane ----------------------------
(***************************************************************************)
(* From a change in the database to what runs: the API handlers that       *)
(* change inbounds or the low-profile mode, Orchestrator.Apply with        *)
(* BuildDesired, LocalNode.Apply over the two engines of the registry, the *)
(* iptables reconciler of node/firewall, and the table of panel-managed    *)
(* firewall rules.                                                         *)
(*                                                                         *)
(* Nothing serialises Apply.  Every request handler, the enforcement loop, *)
(* the certificate scheduler and the start of the panel run it in their    *)
(* own goroutine: a thread here.  One database read, one engine, one       *)
(* iptables command is a step; an engine is as atomic as its e.mu makes it *)
(* (see Engine) and answers as EngineContract says: it accepts, or keeps   *)
(* what it served, or is stranded - with nothing, or with what it refused  *)
(* once its supervisor gets that to run.  The few statements in which a    *)
(* handler validates and writes a request are one step.                    *)
(*                                                                         *)
(* A configuration is the set of inbounds it contains.  Protocol numbers   *)
(* and the port-hop rules, which a copy of the same reconciler handles,    *)
(* are abstracted into Ports; the gateway's own openings are left out.     *)
(***************************************************************************)
EXTENDS Integers, FiniteSets

CONSTANTS Threads, Startup,  \* goroutines; the one that applies at start-up
          Inbounds,          \* the inbounds the operator works with
          EngineOf, PortOf,  \* the engine and the port of each
          Edge, Shielded,    \* bound to the edge proxy; to it or to Argo
          Bad,               \* inbounds whose rendering fails `check`
          Ports,
          SafePorts,         \* the SSH port and the panel's own (I7)
          UserPorts,         \* ports the operator's own rules open
          MaxChanges,        \* bound: requests
          MaxFaults          \* bound: failures and panel restarts

Engines == {"singbox", "xray"}

ASSUME ControlPlaneAssumption ==
  /\ Startup \in Threads
  /\ EngineOf \in [Inbounds -> Engines] /\ PortOf \in [Inbounds -> Ports]
  /\ Edge \subseteq Shielded /\ Shielded \subseteq Inbounds
  /\ Bad \subseteq Inbounds
  /\ SafePorts \subseteq Ports /\ UserPorts \subseteq Ports
  /\ MaxChanges \in Nat /\ MaxFaults \in Nat

VARIABLES
  rows,     \* database: the enabled inbounds
  stealth,  \* database: low-profile mode
  managed,  \* database: ports of the rules marked Managed
  served,   \* what each engine serves
  chain,    \* how many tagged ACCEPT rules INPUT holds for each port
  pc,       \* where each thread is in Apply, or how its Apply ended
  snap,     \* the inbounds it is applying
  users,    \* the operator's ports, as it has read them
  edits,    \* the ports it has still to add or to delete
  clean,    \* history: nothing overlapped this request and nothing failed
  changes, faults

db     == <<rows, stealth, managed>>
node   == <<served, chain>>
local  == <<snap, users, edits>>
bounds == <<changes, faults>>
vars   == <<db, node, pc, local, clean, bounds>>

Fault(t) == /\ faults < MaxFaults /\ faults' = faults + 1
            /\ clean' = [clean EXCEPT ![t] = FALSE]
Smooth   == UNCHANGED <<faults, clean>>

(***************************************************************************)
(* What the orchestrator derives from the database                         *)
(***************************************************************************)
\* runningInbounds, with antiblock.Config.Runs.
Running(ins, lowProfile) == IF lowProfile THEN ins \cap Shielded ELSE ins

\* filterFor.
Mine(ins, e) == {i \in ins : EngineOf[i] = e}

\* deriveAllowPorts: an inbound on loopback needs no opening.
Openings(ins) == {PortOf[i] : i \in ins \ Shielded}

\* Mutation: any rule in the table covers a safe port, the panel's own too.
MutManagedPorts(ins, user) == Openings(ins) \cup (SafePorts \ (user \cup managed))

\* computeAllowPorts: what the panel owns - a safe port the operator's own
\* rule already opens is not claimed - and everything iptables must let in.
ManagedPorts(ins, user) == Openings(ins) \cup (SafePorts \ user)

FullPorts(ins, user) == ManagedPorts(ins, user) \cup user

\* The firewall page: the openings that an Apply would make now.
FirewallPreview == FullPorts(Running(rows, stealth), UserPorts)

\* The reconcilers compare what is there with what is wanted, once.
Diff(want, have) == (want \ have) \cup (have \ want)

(***************************************************************************)
(* The requests                                                            *)
(***************************************************************************)
\* A request in thread t starts, and any other's Apply is overlapped by it.
Begin(t, where) ==
  /\ pc[t] = "idle"
  /\ pc' = [pc EXCEPT ![t] = where]
  /\ clean' = [u \in Threads |-> u = t /\ \A v \in Threads : pc[v] = "idle"]
  /\ changes < MaxChanges /\ changes' = changes + 1
  /\ UNCHANGED <<node, local, managed, faults>>

\* Create, enable, disable or delete an inbound, then applyAfterChange; the
\* row stays as written whatever Apply answers.
ChangeInbound(t, i) ==
  /\ Begin(t, "inbounds")
  /\ rows' = Diff(rows, {i})
  /\ UNCHANGED stealth

\* PutAntiBlock, the rest of the posture kept: no low-profile mode without an
\* edge inbound, and no Apply when the stored switch is the requested one.
PutAntiBlock(t, v) ==
  /\ v => rows \cap Edge # {}
  /\ Begin(t, IF v = stealth THEN "kept" ELSE "inbounds")
  /\ stealth' = v
  /\ UNCHANGED rows

\* The requests that change nothing here and apply: resync, enforcement, a
\* renewed certificate.
Reapply(t) == Begin(t, "inbounds") /\ UNCHANGED <<rows, stealth>>

(***************************************************************************)
(* Orchestrator.Apply                                                      *)
(***************************************************************************)
At(t, here)   == pc[t] = here
Goto(t, next) == pc' = [pc EXCEPT ![t] = next]

\* BuildDesired reads the inbounds and then the posture.  A failing read
\* ends Apply before the node hears of it.
ListInbounds(t) ==
  /\ At(t, "inbounds")
  /\ UNCHANGED <<db, node, users, edits, changes>>
  /\ \/ /\ snap' = [snap EXCEPT ![t] = rows]
        /\ Goto(t, "posture") /\ Smooth
     \/ UNCHANGED snap /\ Goto(t, "failed") /\ Fault(t)

\* The posture and the operator's rules: a setting that cannot be read counts
\* as not set, a table that cannot be read as empty.
ReadTables(t, ins) ==
  \/ /\ snap' = [snap EXCEPT ![t] = Running(ins, stealth)]
     /\ users' = [users EXCEPT ![t] = UserPorts] /\ Smooth
  \/ /\ snap' = [snap EXCEPT ![t] = ins]
     /\ users' = [users EXCEPT ![t] = UserPorts] /\ Fault(t)
  \/ /\ snap' = [snap EXCEPT ![t] = Running(ins, stealth)]
     /\ users' = [users EXCEPT ![t] = {}] /\ Fault(t)

LoadPosture(t) ==
  /\ At(t, "posture")
  /\ ReadTables(t, snap[t])
  /\ Goto(t, "singbox")
  /\ UNCHANGED <<db, node, edits, changes>>

\* Mutation: ApplyAll goes on after an engine that refused.
MutAfter(e, ok) == IF e = "singbox" THEN "xray" ELSE "list"

\* ApplyAll: sing-box, then xray, and no further than the first refusal.
After(e, ok) ==
  IF ~ok THEN "failed" ELSE IF e = "singbox" THEN "xray" ELSE "list"

ApplyEngine(t, e) ==
  /\ At(t, e)
  /\ UNCHANGED <<db, chain, local, changes>>
  /\ LET new == Mine(snap[t], e) IN
     \/ /\ new \cap Bad = {}
        /\ served' = [served EXCEPT ![e] = new]
        /\ Goto(t, After(e, TRUE)) /\ Smooth
     \/ /\ new \cap Bad # {}
        /\ UNCHANGED served
        /\ Goto(t, After(e, FALSE)) /\ Smooth
     \/ /\ new \cap Bad = {}
        /\ \E left \in {served[e], {}, new} : served' = [served EXCEPT ![e] = left]
        /\ Goto(t, After(e, FALSE)) /\ Fault(t)

\* firewall.Apply lists the tagged rules once and then edits one by one,
\* deletions first; what fails is reported and passed over.
ListChain(t) ==
  /\ At(t, "list")
  /\ UNCHANGED <<db, node, snap, users, changes>>
  /\ \/ /\ edits' = [edits EXCEPT ![t] =
             Diff(FullPorts(snap[t], users[t]), {p \in Ports : chain[p] > 0})]
        /\ Goto(t, "edit") /\ Smooth
     \/ UNCHANGED edits /\ Goto(t, "sync") /\ Fault(t)

\* `iptables -I` adds a rule, `-D` removes one matching rule if there is any.
Edited(p, want) ==
  IF p \in want THEN chain[p] + 1 ELSE IF chain[p] > 0 THEN chain[p] - 1 ELSE 0

EditChain(t, p) ==
  /\ At(t, "edit") /\ p \in edits[t]
  /\ LET want == FullPorts(snap[t], users[t]) IN
     /\ p \in want => edits[t] \subseteq want
     /\ \/ chain' = [chain EXCEPT ![p] = Edited(p, want)] /\ Smooth
        \/ UNCHANGED chain /\ Fault(t)
  /\ edits' = [edits EXCEPT ![t] = @ \ {p}]
  /\ UNCHANGED <<db, served, pc, snap, users, changes>>

EditsDone(t) ==
  /\ At(t, "edit") /\ edits[t] = {}
  /\ Goto(t, "sync") /\ Smooth
  /\ UNCHANGED <<db, node, local, changes>>

\* Back in Orchestrator.Apply: the inbounds and the posture are read once more
\* for the table; if the inbounds cannot be, the Apply is still a success.
ReadAgain(t) ==
  /\ At(t, "sync")
  /\ \/ ReadTables(t, rows) /\ Goto(t, "rules")
     \/ UNCHANGED <<snap, users>> /\ Goto(t, "ok") /\ Fault(t)
  /\ UNCHANGED <<db, node, edits, changes>>

\* syncManagedFirewallLocked, which holds no lock.
ListManaged(t) ==
  /\ At(t, "rules")
  /\ \/ /\ edits' = [edits EXCEPT ![t] = Diff(ManagedPorts(snap[t], users[t]), managed)]
        /\ Goto(t, "mirror") /\ Smooth
     \/ UNCHANGED edits /\ Goto(t, "ok") /\ Fault(t)
  /\ UNCHANGED <<db, node, snap, users, changes>>

Mirrored(p, want) == IF p \in want THEN managed \cup {p} ELSE managed \ {p}

\* Upserts before deletions; the first failure ends the sync, not the Apply.
SyncManaged(t, p) ==
  /\ At(t, "mirror") /\ p \in edits[t]
  /\ LET want == ManagedPorts(snap[t], users[t]) IN
     /\ p \notin want => edits[t] \cap want = {}
     /\ \/ /\ managed' = Mirrored(p, want) /\ Smooth
           /\ edits' = [edits EXCEPT ![t] = @ \ {p}]
        \/ /\ UNCHANGED managed /\ Fault(t)
           /\ edits' = [edits EXCEPT ![t] = {}]
  /\ UNCHANGED <<rows, stealth, node, pc, snap, users, changes>>

SyncDone(t) ==
  /\ At(t, "mirror") /\ edits[t] = {}
  /\ Goto(t, "ok") /\ Smooth
  /\ UNCHANGED <<db, node, local, changes>>

\* The answer reaches the caller.
Return(t) ==
  /\ pc[t] \in {"ok", "failed", "kept"}
  /\ Goto(t, "idle") /\ Smooth
  /\ snap' = [snap EXCEPT ![t] = {}] /\ users' = [users EXCEPT ![t] = {}]
  /\ edits' = [edits EXCEPT ![t] = {}]
  /\ UNCHANGED <<db, node, changes>>

\* The panel and with it both engines die and are started again; main starts
\* one Apply.  The rules in the kernel and the database are as they were.
Restart ==
  /\ faults < MaxFaults /\ faults' = faults + 1
  /\ served' = [e \in Engines |-> {}]
  /\ pc' = [t \in Threads |-> IF t = Startup THEN "inbounds" ELSE "idle"]
  /\ clean' = [t \in Threads |-> t = Startup]
  /\ snap' = [t \in Threads |-> {}] /\ users' = [t \in Threads |-> {}]
  /\ edits' = [t \in Threads |-> {}]
  /\ UNCHANGED <<db, chain, changes>>

Init ==
  /\ rows = {} /\ stealth = FALSE /\ managed = {}
  /\ served = [e \in Engines |-> {}] /\ chain = [p \in Ports |-> 0]
  /\ pc = [t \in Threads |-> IF t = Startup THEN "inbounds" ELSE "idle"]
  /\ snap = [t \in Threads |-> {}] /\ users = [t \in Threads |-> {}]
  /\ edits = [t \in Threads |-> {}]
  /\ clean = [t \in Threads |-> t = Startup]
  /\ changes = 0 /\ faults = 0

\* The card's switch is dead while the list it has shows no edge inbound; the
\* list may be old, so the request meets the same check again.
StealthToggle(t) == \E v \in BOOLEAN : PutAntiBlock(t, v)

Request(t) ==
  \/ \E i \in Inbounds : ChangeInbound(t, i)
  \/ StealthToggle(t)
  \/ Reapply(t)

Apply(t) ==
  \/ ListInbounds(t) \/ LoadPosture(t)
  \/ \E e \in Engines : ApplyEngine(t, e)
  \/ ListChain(t) \/ (\E p \in Ports : EditChain(t, p)) \/ EditsDone(t)
  \/ ReadAgain(t) \/ ListManaged(t)
  \/ (\E p \in Ports : SyncManaged(t, p)) \/ SyncDone(t)
  \/ Return(t)

Next == Restart \/ \E t \in Threads : Request(t) \/ Apply(t)

Spec == Init /\ [][Next]_vars

(***************************************************************************)
(* Properties                                                              *)
(***************************************************************************)
Wanted == Running(rows, stealth)
OpenPorts == {p \in Ports : chain[p] > 0}
Undisturbed(t) == pc[t] = "ok" /\ clean[t]

\* Whatever overlapped, failed or was cut off before, one Apply that runs
\* alone and meets no failure ends with both engines, the openings that the
\* firewall page announces and the managed rules as the database wants them.  Apply has
\* no memory: this is what makes it the cure for everything that went wrong.
OneApplyCures ==
  \A t \in Threads : Undisturbed(t) =>
    /\ served = [e \in Engines |-> Mine(Wanted, e)]
    /\ FirewallPreview \subseteq OpenPorts
    /\ managed = Openings(Wanted) \cup (SafePorts \ UserPorts)

\* Invariant I7: an opening for SSH or the panel, once made, is never taken
\* away again, however the edits of two reconcilers mix.
SafePortsStayOpen ==
  [][\A p \in SafePorts : chain[p] > 0 => chain'[p] > 0]_vars
=============================================================================
