------------------------------- MODULE Wizard -------------------------------
(***************************************************************************)
(* The inbound wizard: the pages that collect a domain verdict, a set of   *)
(* protocols and their ports, from snapshots that grow old, and the funnel *)
(* behind them, which checks the request, writes the advanced row, waits   *)
(* for a certificate, and only then picks ports and creates the batch one  *)
(* inbound at a time, undoing it all when a step fails.                    *)
(***************************************************************************)
EXTENDS Integers, Sequences, FiniteSets, FiniteSetsExt

CONSTANTS Tabs, Flows,       \* wizard pages, and the modes each of them is used in
          Protos, Backend,   \* protocols of the form, and the inbound type of each
          Cdn, Edge, Xray,   \* those that may ride the CDN or a tunnel, the edge, need xray
          Quick,             \* the protocols of the quick page and of each scenario
          DefaultPort, Whitelist, Reserved, MinPort, MaxPort,
          Taken,             \* ports other programs of the host listen on
          Typed,             \* ports the operator types
          Domains,
          Worlds,            \* the nodes the wizard is tried on (see World)
          MaxMoves,          \* bound: what the operator does
          MaxBatches,        \* bound: funnel requests
          MaxFaults          \* bound: failed statements, crashes

\* A node on both families with its addresses on its own interface, one behind
\* NAT, one whose kernel has IPv4 only.
Nodes   == {"dual", "nat", "v4only"}
World   == [node: Nodes, installed: BOOLEAN, edgeName: BOOLEAN]

ASSUME WizardAssumption ==
  /\ Backend \in [Protos -> STRING] /\ DefaultPort \in [Protos -> MinPort..MaxPort]
  /\ Edge \subseteq Cdn /\ Cdn \subseteq Protos /\ Xray \subseteq Protos
  /\ Cdn \ Xray # {} /\ IsFiniteSet(Protos)
  /\ Quick \subseteq SUBSET Protos
  /\ Worlds \subseteq World
  /\ MinPort \in Nat /\ MaxPort \in Nat /\ MaxBatches \in Nat
  /\ Reserved \subseteq MinPort..MaxPort
  /\ Taken \subseteq Nat /\ Typed \subseteq Nat /\ Whitelist \subseteq Nat

\* "plain" is any verdict but proxied: they differ in the certificate only.
Verdicts == {"plain", "proxied"}
\* The temporary and the named tunnel are one ride: they differ in the mode
\* that the override writes.
Rides    == {"direct", "argo", "edge"}
Choice   == [port: Nat, cdn: BOOLEAN, ride: Rides]

Address == {"a4", "a6", "0.0.0.0", "::", "127.0.0.1"}

VARIABLES
  node,      \* which of Nodes this is
  installed, \* xray-core is there
  edgeName,  \* the edge domain is set
  inbounds,  \* database: inbounds, each with its one client
  bundles,   \* database: the inbounds of each batch's subscription
  adv,       \* database: who wrote the Argo part of the advanced row last
  batch,     \* history: how each funnel request ended
  overlapped,\* history: two funnels were past their checks together
  crowded,   \* history: a funnel found no free port and took one it knew was used
  run,       \* the funnel request of each page, while it is served
  page,      \* what each page shows and remembers
  moves, faults

past   == <<overlapped, crowded>>
server == <<inbounds, bundles, adv, batch, past>>
world  == <<node, installed, edgeName>>
vars   == <<world, server, run, page, moves, faults>>

Move  == moves < MaxMoves /\ moves' = moves + 1
Fault == faults < MaxFaults /\ faults' = faults + 1

(***************************************************************************)
(* Addresses and ports                                                     *)
(***************************************************************************)
hostFamily(ip) == IF ip \in {"a6", "::"} THEN "v6" ELSE "v4"

Hosts == IF node = "dual" THEN {"a4", "a6"} ELSE {"a4"}
listenForHost(h) == CASE node = "dual" -> h
                      [] node = "nat"  -> "::"
                      [] OTHER         -> "0.0.0.0"

\* A probe of an address that is on no interface always fails.
isPortBusyOnHost(port) == node = "nat" \/ port \in Taken

\* Walks up from the preferred port; out of range, it gives up on moving at all.
pickFreePort(preferred, used) ==
  LET free == {p \in preferred..MaxPort :
                 p >= MinPort /\ p \notin used \cup Reserved /\ ~isPortBusyOnHost(p)}
  IN IF preferred < MinPort \/ free = {} THEN preferred ELSE Min(free)

\* What the form starts from: the snapshot it has of the ports of this family.
computeDefaultPort(p, known) ==
  LET free == {q \in DefaultPort[p]..(MaxPort + 1) : q \notin known \cup Reserved}
  IN Min(free)

UsedPorts(ins, fam) == {ib.port : ib \in {i \in ins : hostFamily(i.listen) = fam}}

(***************************************************************************)
(* The pages                                                               *)
(***************************************************************************)
NoSel == [p \in {} |-> [port |-> 0, cdn |-> FALSE, ride |-> "direct"]]
Fresh(h) == [mode |-> "choose", step |-> 0, seed |-> {}, host |-> h, domain |-> "",
             verdict |-> "unset", sel |-> NoSel, asked |-> FALSE, creating |-> FALSE,
             ports |-> {}, argo |-> FALSE, xray |-> FALSE]

newSelection(t, p, cdn) ==
  [port |-> computeDefaultPort(p, {q[2] : q \in {k \in page[t].ports : k[1] = hostFamily(page[t].host)}}),
   cdn |-> cdn, ride |-> "direct"]

\* The ports, the inbounds and whether xray is there are fetched when the page
\* mounts and when its window gets the focus; nothing refetches them after a batch.
Snapshot(pg) == [pg EXCEPT !.ports = {<<hostFamily(ib.listen), ib.port>> : ib \in inbounds},
                           !.argo  = \E ib \in inbounds : ib.argo,
                           !.xray  = installed]
Refetch(t) ==
  /\ page[t] # Snapshot(page[t]) /\ Move
  /\ page' = [page EXCEPT ![t] = Snapshot(@)]
  /\ UNCHANGED <<world, server, run, faults>>

Shown(t, next) == page' = [page EXCEPT ![t] = next] /\ UNCHANGED <<world, server, run, faults>>

ChooseHost(t, h) == page[t].mode = "choose" /\ h # page[t].host /\ Move
                    /\ Shown(t, [page[t] EXCEPT !.host = h])

PickFull(t) == page[t].mode = "choose" /\ "full" \in Flows[t] /\ Move
               /\ Shown(t, [page[t] EXCEPT !.mode = "full", !.step = 1])

\* What needs xray stays locked until the page knows that it is there.
Locked(t, p) == p \in Xray /\ ~page[t].xray

\* A scenario comes with its protocols ticked, unless one of them is locked.
PickQuick(t, seed, ticked) ==
  /\ page[t].mode = "choose" /\ "quick" \in Flows[t] /\ seed \in Quick /\ Move
  /\ ticked => \A p \in seed : ~Locked(t, p)
  /\ Shown(t, [page[t] EXCEPT !.mode = "quick", !.step = 3, !.seed = seed,
        !.sel = IF ticked THEN [p \in seed |-> newSelection(t, p, FALSE)] ELSE NoSel])

\* Back to the modes unmounts the flow: what it was waiting for is not heard.
BackToModes(t) ==
  /\ page[t].mode # "choose" /\ (page[t].step \in {1, 4} \/ page[t].mode = "quick") /\ Move
  /\ Shown(t, [Fresh(page[t].host) EXCEPT !.ports = page[t].ports, !.argo = page[t].argo,
                                       !.xray = page[t].xray])

\* Typing another domain leaves the verdict of the one before.
SetDomain(t, d) == page[t].step = 1 /\ d # page[t].domain /\ Move
                   /\ Shown(t, [page[t] EXCEPT !.domain = d])

Validate(t) == page[t].step = 1 /\ page[t].domain # "" /\ ~page[t].asked /\ Move
               /\ Shown(t, [page[t] EXCEPT !.asked = TRUE])

\* The verdict, whichever it is, is shown wherever the wizard is by then.
HearVerdict(t) ==
  /\ page[t].asked /\ UNCHANGED moves
  /\ \E v \in Verdicts \cup {page[t].verdict} :
       Shown(t, [page[t] EXCEPT !.asked = FALSE, !.verdict = v])

Skip(t) == page[t].step = 1 /\ Move
           /\ Shown(t, [page[t] EXCEPT !.domain = "", !.verdict = "plain", !.step = 2])

\* Step 2, the client list, only adds warnings to step 3.
NextStep(t) == /\ page[t].step \in {1, 2} /\ page[t].verdict # "unset" /\ Move
               /\ Shown(t, [page[t] EXCEPT !.step = @ + 1])
BackStep(t) == /\ page[t].step \in {2, 3} /\ page[t].mode = "full" /\ Move
               /\ Shown(t, [page[t] EXCEPT !.step = @ - 1])

Listed(t) == IF page[t].mode = "quick" THEN page[t].seed ELSE Protos
CdnDefault(t, p) == page[t].mode = "full" /\ p \in Cdn /\ page[t].verdict = "proxied"

Toggle(t, p) ==
  /\ page[t].step = 3 /\ p \in Listed(t) /\ ~Locked(t, p) /\ Move
  /\ LET s == page[t].sel IN
     Shown(t, [page[t] EXCEPT !.sel =
       [q \in IF p \in DOMAIN s THEN DOMAIN s \ {p} ELSE DOMAIN s \cup {p} |->
          IF q \in DOMAIN s THEN s[q] ELSE newSelection(t, q, CdnDefault(t, q))]])

\* One button selects all, anew, or none.
SelectAll(t) ==
  LET ids == {p \in Listed(t) : ~Locked(t, p)} IN
  /\ page[t].step = 3 /\ Move
  /\ Shown(t, [page[t] EXCEPT !.sel = IF ids \subseteq DOMAIN @ THEN NoSel
                                      ELSE [p \in ids |-> newSelection(t, p, CdnDefault(t, p))]])

\* A CDN row picks from the whitelist, any other row takes what is typed.
PortOptions(t, p) ==
  LET s == page[t].sel
      known == {q[2] : q \in {k \in page[t].ports : k[1] = hostFamily(page[t].host)}}
      others == {s[q].port : q \in DOMAIN s} \ {s[p].port}
  IN IF p \in Cdn /\ s[p].cdn THEN Whitelist \ (known \cup Reserved \cup others) ELSE Typed

SetPort(t, p, n) ==
  /\ page[t].step = 3 /\ p \in DOMAIN page[t].sel
  /\ n \in PortOptions(t, p) /\ n # page[t].sel[p].port /\ Move
  /\ Shown(t, [page[t] EXCEPT !.sel[p].port = n])

SetCdn(t, p) ==
  /\ page[t].step = 3 /\ page[t].mode = "full" /\ p \in DOMAIN page[t].sel \cap Cdn
  /\ page[t].verdict = "proxied" /\ Move
  /\ Shown(t, [page[t] EXCEPT !.sel[p].cdn = ~@])

\* The tunnel is offered to one row, to none once the snapshot has an Argo
\* inbound; the edge needs its domain, and takes the row off the CDN.
RideOffered(t, p, r) ==
  CASE r = "argo" -> ~page[t].argo /\ \A q \in DOMAIN page[t].sel \ {p} : page[t].sel[q].ride # "argo"
    [] r = "edge" -> p \in Edge /\ edgeName
    [] OTHER -> TRUE

SetRide(t, p, r) ==
  /\ page[t].step = 3 /\ page[t].mode = "full" /\ p \in DOMAIN page[t].sel \cap Cdn
  /\ r # page[t].sel[p].ride /\ RideOffered(t, p, r) /\ Move
  /\ Shown(t, [page[t] EXCEPT !.sel[p].ride = r, !.sel[p].cdn = IF r = "edge" THEN FALSE ELSE @])

\* On another page of the panel xray can be installed, once; it stays.
InstallXray == installed' = TRUE /\ UNCHANGED <<node, edgeName, server, run, page, faults>>
SystemInfoPage == ~installed /\ Move /\ InstallXray

(***************************************************************************)
(* The funnel                                                              *)
(***************************************************************************)
NoRun == [st |-> "idle"]

\* The quick page puts its WebSocket rows behind the edge on its own.
Wanted(t) == {[proto |-> p, port |-> page[t].sel[p].port, cdn |-> page[t].sel[p].cdn,
               ride |-> IF page[t].mode = "quick" /\ edgeName /\ p \in Edge THEN "edge"
                        ELSE page[t].sel[p].ride] : p \in DOMAIN page[t].sel}
OnArgo(w) == w.ride = "argo" /\ w.proto \in Cdn
OnEdge(w) == ~OnArgo(w) /\ w.ride = "edge" /\ w.proto \in Edge

Create(t) ==
  /\ page[t].step = 3 /\ DOMAIN page[t].sel # {} /\ ~page[t].creating /\ run[t] = NoRun
  /\ Len(batch) < MaxBatches /\ Move
  /\ page' = [page EXCEPT ![t].creating = TRUE]
  /\ batch' = Append(batch, "running")
  /\ run' = [run EXCEPT ![t] =
       [st |-> "sent", b |-> Len(batch) + 1, host |-> page[t].host, domain |-> page[t].domain,
        full |-> page[t].mode = "full",
        todo |-> Wanted(t), before |-> 0, over |-> FALSE, used |-> {}, made |-> {}]]
  /\ UNCHANGED <<world, inbounds, bundles, adv, past, faults>>

\* One protocol lives on one address of a family, or so this check means: it
\* compares the address asked for with the one that was bound.
OtherAddress(r) ==
  \E w \in r.todo, ib \in inbounds :
    /\ ib.type = Backend[w.proto]
    /\ hostFamily(ib.listen) = hostFamily(r.host)
    /\ ib.listen # r.host

SecondTunnel(r) ==
  LET argo == {w \in r.todo : OnArgo(w)} IN
  Cardinality(argo) > 1 \/ (argo # {} /\ \E ib \in inbounds : ib.argo)

BadPort(r) == \E w \in r.todo :
  /\ w.port # 0
  /\ \/ w.port \notin MinPort..MaxPort
     \/ w.port \in Reserved
     \/ w.cdn /\ w.proto \in Cdn /\ w.port \notin Whitelist

Edgeless(r) == ~edgeName /\ \E w \in r.todo : w.proto \in Edge /\ w.ride = "edge"

Refused(r) == OtherAddress(r) \/ SecondTunnel(r) \/ BadPort(r) \/ Edgeless(r)

End(t, how) == /\ run' = [run EXCEPT ![t] = [st |-> "answered", b |-> run[t].b, ok |-> how = "made"]]
               /\ batch' = [batch EXCEPT ![run[t].b] = how]

\* Every check is made, and the overrides are written, before the certificate.
Guards(t) ==
  LET r == run[t]
      tunnel == \E w \in r.todo : OnArgo(w)
      over == r.full /\ (tunnel \/ \E w \in r.todo : w.cdn)
  IN
  /\ r.st = "sent"
  /\ IF Refused(r)
     THEN End(t, "refused") /\ UNCHANGED <<adv, overlapped>>
     ELSE /\ run' = [run EXCEPT ![t].st = "issuing", ![t].before = adv, ![t].over = over]
          /\ adv' = IF tunnel THEN r.b ELSE adv
          /\ overlapped' = (overlapped \/ \E u \in Tabs \ {t} : run[u].st \in {"issuing", "creating"})
          /\ UNCHANGED batch
  /\ UNCHANGED <<world, inbounds, bundles, crowded, page, moves, faults>>

\* Mutant: only the inbounds on the same address count as neighbours.
MutReadPorts(t) ==
  /\ run[t].st = "issuing"
  /\ run' = [run EXCEPT ![t].st = "creating",
       ![t].used = {ib.port : ib \in {i \in inbounds : i.listen = listenForHost(run[t].host)}}]
  /\ UNCHANGED <<world, server, page, moves, faults>>

\* A failed certificate only changes which pair the rows are given.
ReadPorts(t) ==
  /\ run[t].st = "issuing"
  /\ run' = [run EXCEPT ![t].st = "creating",
                        ![t].used = UsedPorts(inbounds, hostFamily(run[t].host))]
  /\ UNCHANGED <<world, server, page, moves, faults>>

\* Mutant: a row on the tunnel keeps its CDN mark.
MutNewInbound(r, w, port) ==
  [proto |-> w.proto, type |-> Backend[w.proto], fam |-> hostFamily(r.host), port |-> port,
   listen |-> IF OnArgo(w) \/ OnEdge(w) THEN "127.0.0.1" ELSE listenForHost(r.host),
   argo |-> OnArgo(w), edge |-> OnEdge(w), cdn |-> w.cdn /\ w.proto \in Cdn /\ ~OnEdge(w),
   batch |-> r.b, client |-> FALSE]

NewInbound(r, w, port) ==
  [proto |-> w.proto, type |-> Backend[w.proto], fam |-> hostFamily(r.host), port |-> port,
   listen |-> IF OnArgo(w) \/ OnEdge(w) THEN "127.0.0.1" ELSE listenForHost(r.host),
   argo |-> OnArgo(w), edge |-> OnEdge(w),
   cdn |-> w.cdn /\ w.proto \in Cdn /\ ~OnArgo(w) /\ ~OnEdge(w),
   batch |-> r.b, client |-> FALSE]

\* The unique indexes: the tag, and the address with the port.
Clash(ib) == \E o \in inbounds : \/ <<o.proto, o.fam, o.port>> = <<ib.proto, ib.fam, ib.port>>
                                 \/ <<o.listen, o.port>> = <<ib.listen, ib.port>>

\* Mutant: an inbound is remembered once it has its client.
MutForgetful(t, ins) == /\ inbounds' = {ib \in ins : ib \notin run[t].made \/ ~ib.client}
                        /\ adv' = IF run[t].over THEN run[t].before ELSE adv

\* Takes back the rows of the batch, and the advanced row as it was before it.
Rollback(t, ins) == /\ inbounds' = {ib \in ins : ib \notin run[t].made}
                    /\ adv' = IF run[t].over THEN run[t].before ELSE adv

NoEngine(p) == p \in Xray /\ ~installed

CreateInbound(t, w) ==
  LET r    == run[t]
      port == pickFreePort(IF w.port = 0 THEN DefaultPort[w.proto] ELSE w.port, r.used)
      ib   == NewInbound(r, w, port)
  IN
  /\ r.st = "creating" /\ w \in r.todo /\ \A o \in r.made : o.client
  /\ \/ /\ ~NoEngine(w.proto) /\ ~Clash(ib)
        /\ inbounds' = inbounds \cup {ib}
        /\ run' = [run EXCEPT ![t].todo = @ \ {w}, ![t].used = @ \cup {port}, ![t].made = @ \cup {ib}]
        /\ crowded' = (crowded \/ port \in r.used)
        /\ UNCHANGED <<adv, batch, faults>>
     \/ /\ \/ (NoEngine(w.proto) \/ Clash(ib)) /\ UNCHANGED faults
           \/ ~NoEngine(w.proto) /\ ~Clash(ib) /\ Fault
        /\ Rollback(t, inbounds) /\ End(t, "refused") /\ UNCHANGED crowded
  /\ UNCHANGED <<world, bundles, overlapped, page, moves>>

CreateClient(t, ib) ==
  LET with == [ib EXCEPT !.client = TRUE] IN
  /\ run[t].st = "creating" /\ ib \in run[t].made /\ ~ib.client
  /\ \/ /\ inbounds' = (inbounds \ {ib}) \cup {with}
        /\ run' = [run EXCEPT ![t].made = (@ \ {ib}) \cup {with}]
        /\ UNCHANGED <<adv, batch, faults>>
     \/ Fault /\ Rollback(t, inbounds) /\ End(t, "refused")
  /\ UNCHANGED <<world, bundles, past, page, moves>>

CreateSubscription(t) ==
  /\ run[t].st = "creating" /\ run[t].todo = {} /\ \A o \in run[t].made : o.client
  /\ \/ /\ bundles' = [bundles EXCEPT ![run[t].b] = run[t].made]
        /\ End(t, "made")
        /\ UNCHANGED <<inbounds, adv, faults>>
     \/ /\ Fault /\ Rollback(t, inbounds) /\ End(t, "refused")
        /\ UNCHANGED bundles
  /\ UNCHANGED <<world, past, page, moves>>

\* The process dies: nobody goes on with the batches under way.
Crash ==
  /\ \E t \in Tabs : run[t].st \in {"sent", "issuing", "creating"}
  /\ Fault
  /\ batch' = [b \in DOMAIN batch |-> IF batch[b] = "running" THEN "lost" ELSE batch[b]]
  /\ run' = [t \in Tabs |-> IF run[t] = NoRun \/ run[t].st = "answered" THEN run[t]
                            ELSE [st |-> "answered", b |-> run[t].b, ok |-> FALSE]]
  /\ UNCHANGED <<world, inbounds, bundles, adv, past, page, moves>>

\* The result replaces the form; an error is shown under it.
HearCreated(t) ==
  /\ run[t].st = "answered"
  /\ run' = [run EXCEPT ![t] = NoRun]
  /\ page' = [page EXCEPT ![t] = IF ~@.creating THEN @
                                 ELSE [page[t] EXCEPT !.creating = FALSE, !.step = IF run[t].ok THEN 4 ELSE @]]
  /\ UNCHANGED <<world, server, moves, faults>>

\* "Create another" starts over; the quick page keeps its list.
Another(t) ==
  /\ page[t].step = 4 /\ Move
  /\ Shown(t, [page[t] EXCEPT !.step = IF page[t].mode = "quick" THEN 3 ELSE 1,
                              !.domain = "", !.verdict = "unset", !.sel = NoSel])

-----------------------------------------------------------------------------
\* A node of any kind: a new one, or one with the batch of a visit before, of a
\* direct inbound or of one on the tunnel; the pages have been open since before.
Earlier(ride) ==
  LET w == [proto |-> CHOOSE p \in Cdn : p \notin Xray, port |-> 0, cdn |-> FALSE, ride |-> ride]
  IN [NewInbound([host |-> "a4", b |-> 0], w, DefaultPort[w.proto]) EXCEPT !.client = TRUE]

\* A page shows the modes, or its domain has been validated and its protocols
\* are about to be ticked.
Opened(t) ==
  {[pg EXCEPT !.xray = installed] : pg \in
     {Fresh("a4")} \cup {[Fresh("a4") EXCEPT !.mode = "full", !.step = 3, !.domain = d, !.verdict = "proxied"] :
                          d \in IF "full" \in Flows[t] THEN Domains ELSE {}}}

Init ==
  /\ \E w \in Worlds : node = w.node /\ installed = w.installed /\ edgeName = w.edgeName
  /\ \E found \in {{}} \cup {{r} : r \in {"direct", "argo"}} : inbounds = {Earlier(r) : r \in found}
  /\ bundles = [b \in 1..MaxBatches |-> {}] /\ adv = 0
  /\ batch = <<>> /\ overlapped = FALSE /\ crowded = FALSE
  /\ run = [t \in Tabs |-> NoRun]
  /\ page \in [Tabs -> UNION {Opened(t) : t \in Tabs}] /\ \A t \in Tabs : page[t] \in Opened(t)
  /\ moves = 0 /\ faults = 0

\* The rows that both forms have, and the buttons under them.
Rows3(t) == \/ SelectAll(t) \/ Create(t)
            \/ \E p \in Protos : Toggle(t, p) \/ \E n \in Typed \cup Whitelist : SetPort(t, p, n)

QuickFlow(t) == page[t].mode = "quick" /\ (Rows3(t) \/ BackToModes(t) \/ Another(t))

Step3Protocols(t) ==
  /\ page[t].mode = "full"
  /\ \/ Rows3(t) \/ BackStep(t)
     \/ \E p \in Protos : SetCdn(t, p) \/ \E r \in Rides : SetRide(t, p, r)

FullFlow(t) ==
  \/ Step3Protocols(t)
  \/ /\ page[t].mode = "full"
     /\ \/ Validate(t) \/ Skip(t) \/ NextStep(t) \/ BackStep(t) \/ BackToModes(t) \/ Another(t)
        \/ \E d \in Domains : SetDomain(t, d)

Operator(t) ==
  \/ Refetch(t) \/ PickFull(t) \/ QuickFlow(t) \/ FullFlow(t)
  \/ \E h \in Hosts : ChooseHost(t, h)
  \/ \E s \in Quick, ticked \in BOOLEAN : PickQuick(t, s, ticked)

Service(t) ==
  \/ Guards(t) \/ ReadPorts(t) \/ CreateSubscription(t)
  \/ run[t].st = "creating" /\ \/ \E w \in run[t].todo : CreateInbound(t, w)
                               \/ \E ib \in run[t].made : CreateClient(t, ib)

Next == \/ \E t \in Tabs : Operator(t) \/ Service(t) \/ HearVerdict(t) \/ HearCreated(t)
        \/ SystemInfoPage \/ Crash

Spec == Init /\ [][Next]_vars

(***************************************************************************)
(* Properties                                                              *)
(***************************************************************************)
Rows(b) == {ib \in inbounds : ib.batch = b}

\* A funnel that answers with an error leaves none of its inbounds behind, nor
\* its override of the advanced row unless another funnel began meanwhile,
\* whichever of its statements failed; one that answers with a result has made
\* every inbound of the subscription it names, each with its client.  Only a
\* crash can leave half a batch (CreateFromFunnel, rollback).
AllOrNothing ==
  \A b \in DOMAIN batch :
    /\ batch[b] = "refused" => Rows(b) = {} /\ bundles[b] = {} /\ (adv # b \/ overlapped)
    /\ batch[b] = "made" => Rows(b) = bundles[b] /\ Rows(b) # {} /\ \A ib \in Rows(b) : ib.client

Covers(l, m) == l = m \/ l = "::" \/ (l = "0.0.0.0" /\ hostFamily(m) = "v4")

Apart == \A i, j \in inbounds : i # j /\ i.port = j.port => ~Covers(i.listen, j.listen)

\* The engine can bind what the wizard created: no two inbounds want one port
\* of one address, a wildcard included.  A node on IPv4 only listens on the
\* wildcard, beside the loopback of what the tunnel or the edge dials: there it
\* rests on the list of used ports, and fails when two funnels go on together or
\* when no port is free above the preferred one.  A node behind NAT, where every
\* probe fails, is left out (pickFreePort, hostFamily).
SocketsFit == node = "dual" \/ (node = "v4only" /\ ~overlapped /\ ~crowded) => Apart

\* What pickFreePort says of a search that leaves the range, "surface as the
\* original error" (wizard/funnel.go:1005): an error, rather than two listeners
\* on one socket.
OutOfRangeSurfaces == node = "v4only" /\ ~overlapped => Apart

\* Whatever order the boxes of a row were ticked in, an inbound is fronted by
\* one thing: the CDN, the tunnel or the edge, and listens on the loopback
\* exactly when one of the last two dials it.  However old the page's list of
\* inbounds, the tunnel gets a second one only from two funnels that were past
\* the check together.
OneFront ==
  /\ Cardinality({ib \in inbounds : ib.argo}) <= 1 \/ overlapped
  /\ \A ib \in inbounds :
    /\ Cardinality({f \in {"cdn", "argo", "edge"} :
                      CASE f = "cdn" -> ib.cdn [] f = "argo" -> ib.argo [] OTHER -> ib.edge}) <= 1
    /\ ib.argo \/ ib.edge <=> ib.listen = "127.0.0.1"
=============================================================================
