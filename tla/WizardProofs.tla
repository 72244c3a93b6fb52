----------------------------- MODULE WizardProofs -----------------------------
(***************************************************************************)
(* Theorems about Wizard for all protocols, pages, ports and bounds: a     *)
(* batch is made whole or leaves nothing behind, an inbound is fronted by  *)
(* one thing, and what was created can be bound.                           *)
(*                                                                         *)
(* Which rows of the database belong to a batch is what its request holds  *)
(* (BatchInv); what the advanced row says, and what of the tunnel a batch  *)
(* still has to make, is known of one funnel at a time (AdvInv, FrontInv); *)
(* ports differ because the row's index, or the list of used ports a       *)
(* funnel goes by, keeps them apart (SockInv).                             *)
(***************************************************************************)
EXTENDS Wizard, SequenceTheorems, FiniteSetTheorems, WellFoundedInduction, TLAPS

(***************************************************************************)
(* The states                                                              *)
(***************************************************************************)
Ports    == MinPort..MaxPort
Families == {"v4", "v6"}
Inbound  == [proto: Protos, type: STRING, fam: Families, port: Ports, listen: Address,
             argo: BOOLEAN, edge: BOOLEAN, cdn: BOOLEAN, batch: 0..MaxBatches, client: BOOLEAN]
Want     == [proto: Protos, port: Nat, cdn: BOOLEAN, ride: Rides]
Sel      == UNION {[S -> Choice] : S \in SUBSET Protos}
Steps    == 0..4
Page     == [mode: {"choose", "full", "quick"}, step: Steps, seed: SUBSET Protos, host: {"a4", "a6"},
             domain: Domains \cup {""}, verdict: Verdicts \cup {"unset"}, sel: Sel, asked: BOOLEAN,
             creating: BOOLEAN, ports: SUBSET (Families \X Ports), argo: BOOLEAN, xray: BOOLEAN]

Under    == {"sent", "issuing", "creating"}
Active   == [st: Under, b: 1..MaxBatches, host: {"a4", "a6"}, domain: Domains \cup {""}, full: BOOLEAN,
             todo: SUBSET Want, before: 0..MaxBatches, over: BOOLEAN, used: SUBSET Nat, made: SUBSET Inbound]
Answered == [st: {"answered"}, b: 1..MaxBatches, ok: BOOLEAN]
Hows     == {"running", "refused", "made", "lost"}

\* Rides are chosen in the full form only, which always writes what they need.
Plain(pg)  == pg.mode = "quick" => \A p \in DOMAIN pg.sel : pg.sel[p].ride = "direct"
Asked(r)   == /\ ~r.full => \A w \in r.todo : ~OnArgo(w)
              /\ IsFiniteSet(r.todo)
              /\ r.st # "sent" => \A w \in r.todo : w.port = 0 \/ w.port \in Ports

Types ==
  /\ node \in Nodes /\ installed \in BOOLEAN /\ edgeName \in BOOLEAN
  /\ inbounds \subseteq Inbound /\ bundles \in [1..MaxBatches -> SUBSET Inbound]
  /\ adv \in 0..MaxBatches /\ batch \in Seq(Hows) /\ Len(batch) <= MaxBatches /\ overlapped \in BOOLEAN
  /\ run \in [Tabs -> {NoRun} \cup Active \cup Answered]
  /\ \A t \in Tabs : run[t].st \in Under => Asked(run[t])
  /\ page \in [Tabs -> Page] /\ \A t \in Tabs : Plain(page[t])

Running(t) == run[t].st \in Under
Funnel(t)  == run[t].st \in {"issuing", "creating"}

(***************************************************************************)
(* The rows of the batches                                                 *)
(***************************************************************************)
\* What a request that is served knows of its batch.
Holds(r) ==
  /\ r.b \in DOMAIN batch /\ batch[r.b] = "running"
  /\ r.made = Rows(r.b) /\ bundles[r.b] = {}
  /\ r.st # "creating" => r.made = {}
  /\ r.todo # {} \/ r.made # {}

BatchInv ==
  /\ \A t \in Tabs : Running(t) => Holds(run[t])
  /\ \A t, u \in Tabs : Running(t) /\ Running(u) /\ run[t].b = run[u].b => t = u
  /\ \A ib \in inbounds : ib.batch <= Len(batch)
  /\ \A b \in 1..MaxBatches : b > Len(batch) => bundles[b] = {}
  /\ \A b \in DOMAIN batch :
       /\ batch[b] = "refused" => Rows(b) = {} /\ bundles[b] = {}
       /\ batch[b] = "made" => Rows(b) = bundles[b] /\ Rows(b) # {} /\ \A ib \in Rows(b) : ib.client

(***************************************************************************)
(* The advanced row                                                        *)
(***************************************************************************)
\* It may stay: nobody's, that of a batch that was made, or what a crash left.
Stands(a) == a = 0 \/ (a \in DOMAIN batch /\ batch[a] \in {"made", "lost"})

AdvInv ==
  ~overlapped =>
    /\ \A t, u \in Tabs : Funnel(t) /\ Funnel(u) => t = u
    /\ Stands(adv) \/ \E t \in Tabs : Funnel(t) /\ run[t].over /\ run[t].b = adv
    /\ \A t \in Tabs : Funnel(t) => Stands(run[t].before)

(***************************************************************************)
(* What fronts an inbound                                                  *)
(***************************************************************************)
Fronted(ib) ==
  /\ ib.cdn => ~ib.argo /\ ~ib.edge
  /\ ~(ib.argo /\ ib.edge)
  /\ ib.argo \/ ib.edge <=> ib.listen = "127.0.0.1"

OneTunnel ==
  /\ \A i, j \in inbounds : i.argo /\ j.argo => i = j
  /\ \A t \in Tabs : Funnel(t) =>
       \A w \in run[t].todo : OnArgo(w) =>
         /\ \A x \in run[t].todo : OnArgo(x) => x = w
         /\ \A ib \in inbounds : ~ib.argo

FrontInv == (\A ib \in inbounds : Fronted(ib)) /\ (~overlapped => OneTunnel)

(***************************************************************************)
(* What the engine can bind                                                *)
(***************************************************************************)
Listeners == {"127.0.0.1"} \cup {listenForHost(h) : h \in Hosts}

\* On the wildcard of IPv4 the list of used ports is all there is.
Sparse == node = "v4only" /\ ~overlapped /\ ~crowded

SockInv ==
  /\ \A t \in Tabs : page[t].host \in Hosts /\ (Running(t) => run[t].host \in Hosts)
  /\ \A i, j \in inbounds : i.listen = j.listen /\ i.port = j.port => i = j
  /\ node # "nat" => \A ib \in inbounds : ib.listen \in Listeners
  /\ Sparse => /\ \A i, j \in inbounds : i.port = j.port => i = j
               /\ \A t \in Tabs : run[t].st = "creating" => \A ib \in inbounds : ib.port \in run[t].used

IInv == Types /\ BatchInv /\ AdvInv /\ FrontInv

(***************************************************************************)
(* Ports                                                                   *)
(***************************************************************************)
LEMMA MinOfNat ==
  ASSUME NEW S \in SUBSET Nat, S # {}
  PROVE  Min(S) \in S
<1> DEFINE R == OpToRel(<, Nat)
<1>r. \A x, y \in Nat : x < y => <<x, y>> \in R
  BY DEF OpToRel
<1>w. IsWellFoundedOn(R, Nat)
  BY NatLessThanWellFounded
<1> HIDE DEF R
<1>1. PICK x \in S : \A y \in S : ~(<<y, x>> \in R)
  BY <1>w, WFMin
<1>2. \A y \in S : ~(y < x)
  BY <1>1, <1>r
<1>m. \A y \in S : x <= y
  BY <1>2
<1>3. QED
  BY <1>m DEF Min

\* A port that is to be used is one, and so is what is picked instead.
LEMMA PortPicked ==
  ASSUME NEW preferred \in Ports, NEW used
  PROVE  pickFreePort(preferred, used) \in Ports
<1> DEFINE free == {p \in preferred..MaxPort :
                     p >= MinPort /\ p \notin used \cup Reserved /\ ~isPortBusyOnHost(p)}
<1>1. MinPort \in Nat /\ MaxPort \in Nat /\ preferred \in Nat
  BY WizardAssumption DEF WizardAssumption, Ports
<1>2. free \subseteq Ports /\ free \subseteq Nat
  BY <1>1 DEF Ports
<1>3. pickFreePort(preferred, used) = IF preferred < MinPort \/ free = {} THEN preferred ELSE Min(free)
  BY DEF pickFreePort
<1> HIDE DEF free
<1>4. free # {} => Min(free) \in free
  BY <1>2, MinOfNat
<1>5. QED
  BY <1>2, <1>3, <1>4

\* A row that is ticked is direct and has a port.
LEMMA Ticked ==
  ASSUME Types, NEW t \in Tabs, NEW p \in Protos, NEW cdn \in BOOLEAN
  PROVE  newSelection(t, p, cdn) \in Choice /\ newSelection(t, p, cdn).ride = "direct"
<1> DEFINE known == {q[2] : q \in {k \in page[t].ports : k[1] = hostFamily(page[t].host)}}
           free  == {q \in DefaultPort[p]..(MaxPort + 1) : q \notin known \cup Reserved}
<1>1. MinPort \in Nat /\ MaxPort \in Nat /\ DefaultPort[p] \in Ports /\ Reserved \subseteq Ports
  BY WizardAssumption DEF WizardAssumption, Ports
<1>2. page[t].ports \in SUBSET (Families \X Ports)
  BY DEF Types, Page
<1>3. known \subseteq Ports
  BY <1>2
<1>4. MaxPort + 1 \in free
  <2>1. MaxPort + 1 \notin Ports
    BY <1>1 DEF Ports
  <2>2. DefaultPort[p] <= MaxPort + 1 /\ DefaultPort[p] \in Nat
    BY <1>1 DEF Ports
  <2> HIDE DEF known
  <2>3. MaxPort + 1 \in DefaultPort[p]..(MaxPort + 1)
    BY <1>1, <2>2
  <2>4. QED
    BY <1>1, <1>3, <2>1, <2>3
<1>5. free \subseteq Nat
  BY <1>1 DEF Ports
<1>6. computeDefaultPort(p, known) = Min(free)
  BY DEF computeDefaultPort
<1>7. newSelection(t, p, cdn) = [port |-> computeDefaultPort(p, known), cdn |-> cdn, ride |-> "direct"]
  BY DEF newSelection
<1> HIDE DEF free, known
<1>8. Min(free) \in Nat
  BY <1>4, <1>5, MinOfNat
<1>9. QED
  BY <1>6, <1>7, <1>8 DEF Choice, Rides

(***************************************************************************)
(* The pages                                                               *)
(***************************************************************************)
LEMMA StepsAre == {0, 1, 2, 3, 4} \subseteq Steps /\ \A n \in Steps : /\ n \in {1, 2} => n + 1 \in Steps
                                                                  /\ n \in {2, 3} => n - 1 \in Steps
BY DEF Steps

LEMMA NoneTicked == NoSel \in Sel /\ DOMAIN NoSel = {}
<1>1. NoSel \in [{} -> Choice] /\ {} \in SUBSET Protos
  BY DEF NoSel
<1>2. QED
  BY <1>1 DEF Sel

LEMMA PageOf ==
  ASSUME Types, NEW t \in Tabs
  PROVE  /\ page[t] \in Page /\ Plain(page[t]) /\ page[t].sel \in Sel
         /\ DOMAIN page[t].sel \subseteq Protos
         /\ \A p \in DOMAIN page[t].sel : page[t].sel[p] \in Choice
<1>1. page[t] \in Page /\ Plain(page[t])
  BY DEF Types
<1>2. page[t].sel \in Sel
  BY <1>1 DEF Page
<1>3. PICK S \in SUBSET Protos : page[t].sel \in [S -> Choice]
  BY <1>2 DEF Sel
<1>4. QED
  BY <1>1, <1>2, <1>3

\* What is shown is no business of the funnels.
LEMMA ShownKeeps ==
  ASSUME IInv, NEW t \in Tabs, NEW next \in Page, Plain(next),
         page' = [page EXCEPT ![t] = next], UNCHANGED <<world, server, run>>
  PROVE  IInv'
<1>1. page' \in [Tabs -> Page] /\ \A u \in Tabs : Plain(page'[u])
  BY DEF IInv, Types
<1>2. Types'
  BY <1>1 DEF IInv, Types, world, server, past
<1>3. BatchInv' /\ AdvInv' /\ FrontInv'
  BY DEF IInv, BatchInv, Running, Rows, AdvInv, Stands, Funnel, FrontInv, OneTunnel, server, past, Holds
<1>4. QED
  BY <1>2, <1>3 DEF IInv

\* A page keeps its type and rides in the quick form are direct, whatever is
\* chosen on it.
LEMMA ModesKeep ==
  ASSUME IInv, NEW t \in Tabs,
         \/ Refetch(t) \/ PickFull(t) \/ BackToModes(t) \/ \E h \in Hosts : ChooseHost(t, h)
         \/ \E s \in Quick, ticked \in BOOLEAN : PickQuick(t, s, ticked)
  PROVE  IInv'
<1>1. Types
  BY DEF IInv
<1>2. /\ page[t] \in Page /\ Plain(page[t])
      /\ inbounds \subseteq Inbound /\ installed \in BOOLEAN
  BY <1>1, PageOf DEF Types
<1>3. NoSel \in Sel /\ DOMAIN NoSel = {}
  BY NoneTicked
<1>4. CASE Refetch(t)
  <2>1. \A ib \in Inbound : hostFamily(ib.listen) \in Families /\ ib.port \in Ports
    BY DEF hostFamily, Families, Inbound
  <2>2. {<<hostFamily(ib.listen), ib.port>> : ib \in inbounds} \in SUBSET (Families \X Ports)
    BY <1>2, <2>1
  <2>3. (\E ib \in inbounds : ib.argo) \in BOOLEAN
    OBVIOUS
  <2>4. Snapshot(page[t]) \in Page
    BY <1>2, <2>2, <2>3 DEF Snapshot, Page
  <2>5. Plain(Snapshot(page[t]))
    BY <1>2 DEF Snapshot, Page, Plain
  <2>6. QED
    BY <1>4, <2>4, <2>5, ShownKeeps DEF Refetch
<1>5. CASE PickFull(t)
  <2> DEFINE next == [page[t] EXCEPT !.mode = "full", !.step = 1]
  <2>1. next \in Page /\ next.mode = "full"
    BY <1>2, StepsAre DEF Page
  <2>m. Plain(next)
    BY <2>1 DEF Plain
  <2>2. QED
    BY <1>5, <2>1, <2>m, ShownKeeps DEF PickFull, Shown
<1>6. CASE BackToModes(t)
  <2> DEFINE f == Fresh(page[t].host)
             next == [f EXCEPT !.ports = page[t].ports, !.argo = page[t].argo, !.xray = page[t].xray]
  <2>0. page[t].host \in {"a4", "a6"}
    BY <1>2 DEF Page
  <2>1. f \in Page /\ f.mode = "choose"
    BY <1>3, <2>0, StepsAre DEF Fresh, Page
  <2>2. next \in Page /\ Plain(next)
    BY <1>2, <2>1 DEF Page, Plain
  <2>3. QED
    BY <1>6, <2>2, ShownKeeps DEF BackToModes, Shown
<1>7. ASSUME NEW h \in Hosts, ChooseHost(t, h) PROVE IInv'
  <2> DEFINE next == [page[t] EXCEPT !.host = h]
  <2>1. h \in {"a4", "a6"}
    BY DEF Hosts
  <2>2. next \in Page /\ Plain(next)
    BY <1>2, <2>1 DEF Page, Plain
  <2>3. QED
    BY <1>7, <2>2, ShownKeeps DEF ChooseHost, Shown
<1>8. ASSUME NEW s \in Quick, NEW ticked \in BOOLEAN, PickQuick(t, s, ticked) PROVE IInv'
  <2> DEFINE sel == IF ticked THEN [p \in s |-> newSelection(t, p, FALSE)] ELSE NoSel
             next == [page[t] EXCEPT !.mode = "quick", !.step = 3, !.seed = s, !.sel = sel]
  <2>1. s \subseteq Protos
    BY WizardAssumption DEF WizardAssumption
  <2>2. \A p \in s : newSelection(t, p, FALSE) \in Choice /\ newSelection(t, p, FALSE).ride = "direct"
    BY <1>1, <2>1, Ticked
  <2>3. sel \in Sel /\ \A p \in DOMAIN sel : sel[p].ride = "direct"
    <3>1. CASE ticked
      <4>1. sel \in [s -> Choice] /\ DOMAIN sel = s /\ \A p \in s : sel[p].ride = "direct"
        BY <2>2, <3>1
      <4> HIDE DEF sel
      <4>2. QED
        BY <2>1, <4>1 DEF Sel
    <3>2. CASE ~ticked
      BY <1>3, <3>2
    <3>3. QED
      BY <3>1, <3>2
  <2>4. Shown(t, next)
    BY <1>8 DEF PickQuick
  <2> HIDE DEF sel
  <2>5. next \in Page /\ next.sel = sel
    BY <1>2, <2>1, <2>3, StepsAre DEF Page
  <2>6. Plain(next)
    BY <2>3, <2>5 DEF Plain
  <2> HIDE DEF next
  <2>7. QED
    BY <2>4, <2>5, <2>6, ShownKeeps DEF Shown
<1>9. QED
  BY <1>4, <1>5, <1>6, <1>7, <1>8

\* The steps before the protocols, and what ends them.
LEMMA StepsKeep ==
  ASSUME IInv, NEW t \in Tabs,
         \/ Validate(t) \/ Skip(t) \/ NextStep(t) \/ BackStep(t) \/ Another(t) \/ HearVerdict(t)
         \/ \E d \in Domains : SetDomain(t, d)
  PROVE  IInv'
<1>1. page[t] \in Page /\ Plain(page[t])
  BY PageOf DEF IInv
<1>2. CASE Validate(t)
  <2> DEFINE next == [page[t] EXCEPT !.asked = TRUE]
  <2>1. next \in Page /\ Plain(next)
    BY <1>1 DEF Page, Plain
  <2>2. QED
    BY <1>2, <2>1, ShownKeeps DEF Validate, Shown
<1>3. CASE Skip(t)
  <2> DEFINE next == [page[t] EXCEPT !.domain = "", !.verdict = "plain", !.step = 2]
  <2>1. next \in Page
    BY <1>1, StepsAre DEF Page, Verdicts
  <2>m. Plain(next)
    BY <1>1 DEF Page, Plain
  <2>2. QED
    BY <1>3, <2>1, <2>m, ShownKeeps DEF Skip, Shown
<1>4. CASE NextStep(t)
  <2> DEFINE next == [page[t] EXCEPT !.step = @ + 1]
  <2>s. page[t].step \in Steps /\ page[t].step \in {1, 2}
    BY <1>1, <1>4 DEF Page, NextStep
  <2>0. page[t].step + 1 \in Steps
    BY <2>s, StepsAre
  <2>1. next \in Page
    BY <1>1, <2>0 DEF Page
  <2>m. Plain(next)
    BY <1>1 DEF Page, Plain
  <2>2. QED
    BY <1>4, <2>1, <2>m, ShownKeeps DEF NextStep, Shown
<1>5. CASE BackStep(t)
  <2> DEFINE next == [page[t] EXCEPT !.step = @ - 1]
  <2>s. page[t].step \in Steps /\ page[t].step \in {2, 3}
    BY <1>1, <1>5 DEF Page, BackStep
  <2>0. page[t].step - 1 \in Steps
    BY <2>s, StepsAre
  <2>1. next \in Page
    BY <1>1, <2>0 DEF Page
  <2>m. Plain(next)
    BY <1>1 DEF Page, Plain
  <2>2. QED
    BY <1>5, <2>1, <2>m, ShownKeeps DEF BackStep, Shown
<1>6. CASE Another(t)
  <2> DEFINE next == [page[t] EXCEPT !.step = IF page[t].mode = "quick" THEN 3 ELSE 1,
                                     !.domain = "", !.verdict = "unset", !.sel = NoSel]
  <2>1. NoSel \in Sel /\ DOMAIN NoSel = {}
    BY NoneTicked
  <2>2. next \in Page /\ next.sel = NoSel
    BY <1>1, <2>1, StepsAre DEF Page
  <2>3. Plain(next)
    BY <2>1, <2>2 DEF Plain
  <2>4. Shown(t, next)
    BY <1>6 DEF Another
  <2> HIDE DEF next
  <2>5. QED
    BY <2>2, <2>3, <2>4, ShownKeeps DEF Shown
<1>7. CASE HearVerdict(t)
  <2>1. PICK v \in Verdicts \cup {page[t].verdict} : Shown(t, [page[t] EXCEPT !.asked = FALSE, !.verdict = v])
    BY <1>7 DEF HearVerdict
  <2> DEFINE next == [page[t] EXCEPT !.asked = FALSE, !.verdict = v]
  <2>2. v \in Verdicts \cup {"unset"}
    BY <1>1, <2>1 DEF Page
  <2>3. next \in Page /\ Plain(next)
    BY <1>1, <2>2 DEF Page, Plain
  <2>4. QED
    BY <2>1, <2>3, ShownKeeps DEF Shown
<1>8. ASSUME NEW d \in Domains, SetDomain(t, d) PROVE IInv'
  <2> DEFINE next == [page[t] EXCEPT !.domain = d]
  <2>1. next \in Page /\ Plain(next)
    BY <1>1 DEF Page, Plain
  <2>2. QED
    BY <1>8, <2>1, ShownKeeps DEF SetDomain, Shown
<1>9. QED
  BY <1>2, <1>3, <1>4, <1>5, <1>6, <1>7, <1>8

\* The rows of the form: what is ticked is new and direct, the rest is kept.
LEMMA RowsKeep ==
  ASSUME IInv, NEW t \in Tabs,
         \/ SelectAll(t)
         \/ \E p \in Protos : Toggle(t, p) \/ (\E n \in Typed \cup Whitelist : SetPort(t, p, n))
         \/ \E p \in Protos : SetCdn(t, p) \/ (\E r \in Rides : SetRide(t, p, r))
  PROVE  IInv'
<1> DEFINE s == page[t].sel
<1>1. Types
  BY DEF IInv
<1>2. /\ page[t] \in Page /\ Plain(page[t]) /\ s \in Sel
      /\ DOMAIN s \subseteq Protos
      /\ \A p \in DOMAIN s : s[p] \in Choice
  BY <1>1, PageOf
<1>3. \A p \in Protos : newSelection(t, p, CdnDefault(t, p)) \in Choice /\ newSelection(t, p, CdnDefault(t, p)).ride = "direct"
  <2> TAKE p \in Protos
  <2>1. CdnDefault(t, p) \in BOOLEAN
    BY DEF CdnDefault
  <2>2. QED
    BY <1>1, <2>1, Ticked
<1>4. ASSUME NEW sel \in Sel, Shown(t, [page[t] EXCEPT !.sel = sel]),
             page[t].mode = "quick" => \A p \in DOMAIN sel : sel[p].ride = "direct"
      PROVE  IInv'
  <2> DEFINE next == [page[t] EXCEPT !.sel = sel]
  <2>1. next \in Page /\ next.sel = sel /\ next.mode = page[t].mode
    BY <1>2, <1>4 DEF Page
  <2>2. Plain(next)
    BY <1>4, <2>1 DEF Plain
  <2> HIDE DEF next
  <2>3. QED
    BY <1>4, <2>1, <2>2, ShownKeeps DEF Shown, next
<1>5. CASE SelectAll(t)
  <2> DEFINE ids == {p \in Listed(t) : ~Locked(t, p)}
             all == [p \in ids |-> newSelection(t, p, CdnDefault(t, p))]
             sel == IF ids \subseteq DOMAIN s THEN NoSel ELSE all
  <2>1. Listed(t) \subseteq Protos
    BY <1>2 DEF Listed, Page
  <2>2. all \in Sel /\ \A p \in DOMAIN all : all[p].ride = "direct"
    <3>1. ids \subseteq Protos
      BY <2>1
    <3> HIDE DEF ids
    <3>2. all \in [ids -> Choice] /\ DOMAIN all = ids /\ \A p \in ids : all[p].ride = "direct"
      BY <1>3, <3>1
    <3> HIDE DEF all
    <3>3. QED
      BY <3>1, <3>2 DEF Sel
  <2>3. NoSel \in Sel /\ DOMAIN NoSel = {}
    BY NoneTicked
  <2>4. Shown(t, [page[t] EXCEPT !.sel = sel])
    BY <1>5 DEF SelectAll
  <2> HIDE DEF all
  <2>5. sel \in Sel /\ \A p \in DOMAIN sel : sel[p].ride = "direct"
    BY <2>2, <2>3
  <2> HIDE DEF sel
  <2>6. QED
    BY <1>4, <2>4, <2>5
<1>6. ASSUME NEW p \in Protos, Toggle(t, p) PROVE IInv'
  <2> DEFINE D == IF p \in DOMAIN s THEN DOMAIN s \ {p} ELSE DOMAIN s \cup {p}
             sel == [q \in D |-> IF q \in DOMAIN s THEN s[q] ELSE newSelection(t, q, CdnDefault(t, q))]
  <2>1. D \subseteq Protos
    BY <1>2
  <2>2. Shown(t, [page[t] EXCEPT !.sel = sel])
    BY <1>6 DEF Toggle
  <2> HIDE DEF D
  <2>3. \A q \in D : sel[q] \in Choice /\ (page[t].mode = "quick" => sel[q].ride = "direct")
    BY <1>2, <1>3, <2>1 DEF Plain
  <2>4. sel \in [D -> Choice] /\ DOMAIN sel = D
    BY <2>3
  <2> HIDE DEF sel
  <2>5. sel \in Sel
    BY <2>1, <2>4 DEF Sel
  <2>6. QED
    BY <1>4, <2>2, <2>3, <2>4, <2>5
<1>7. ASSUME NEW p \in Protos, NEW n \in Typed \cup Whitelist, SetPort(t, p, n) PROVE IInv'
  <2> DEFINE next == [page[t] EXCEPT !.sel[p].port = n]
             sel  == [s EXCEPT ![p].port = n]
  <2>1. n \in Nat
    BY WizardAssumption DEF WizardAssumption
  <2>2. next = [page[t] EXCEPT !.sel = sel]
    BY <1>2 DEF Page
  <2>3. p \in DOMAIN s /\ Shown(t, next)
    BY <1>7 DEF SetPort
  <2>4. \A q \in DOMAIN s : sel[q] \in Choice /\ sel[q].ride = s[q].ride
    BY <1>2, <2>1, <2>3 DEF Choice
  <2>5. sel \in [DOMAIN s -> Choice] /\ DOMAIN sel = DOMAIN s
    BY <2>4
  <2> HIDE DEF sel, next
  <2>6. sel \in Sel
    BY <1>2, <2>5 DEF Sel
  <2>7. QED
    BY <1>2, <1>4, <2>2, <2>3, <2>4, <2>5, <2>6 DEF Plain
<1>8. ASSUME NEW p \in Protos, SetCdn(t, p) PROVE IInv'
  <2> DEFINE next == [page[t] EXCEPT !.sel[p].cdn = ~@]
             sel  == [s EXCEPT ![p].cdn = ~@]
  <2>1. p \in DOMAIN s /\ Shown(t, next) /\ page[t].mode = "full"
    BY <1>8 DEF SetCdn
  <2>2. next = [page[t] EXCEPT !.sel = sel]
    BY <1>2 DEF Page
  <2>3. \A q \in DOMAIN s : sel[q] \in Choice
    BY <1>2, <2>1 DEF Choice
  <2>4. sel \in [DOMAIN s -> Choice]
    BY <2>3
  <2> HIDE DEF sel, next
  <2>5. sel \in Sel
    BY <1>2, <2>4 DEF Sel
  <2>6. QED
    BY <1>4, <2>1, <2>2, <2>5
<1>9. ASSUME NEW p \in Protos, NEW r \in Rides, SetRide(t, p, r) PROVE IInv'
  <2> DEFINE next == [page[t] EXCEPT !.sel[p].ride = r, !.sel[p].cdn = IF r = "edge" THEN FALSE ELSE @]
             c    == [s[p] EXCEPT !.ride = r, !.cdn = IF r = "edge" THEN FALSE ELSE @]
             sel  == [s EXCEPT ![p] = c]
  <2>1. p \in DOMAIN s /\ Shown(t, next) /\ page[t].mode = "full"
    BY <1>9 DEF SetRide
  <2>2. c \in Choice
    BY <1>2, <2>1 DEF Choice
  <2>3. next = [page[t] EXCEPT !.sel = sel]
    BY <1>2, <2>1 DEF Page, Choice
  <2> HIDE DEF c, next
  <2>4. sel \in [DOMAIN s -> Choice]
    BY <1>2, <2>1, <2>2
  <2> HIDE DEF sel
  <2>5. sel \in Sel
    BY <1>2, <2>4 DEF Sel
  <2>6. QED
    BY <1>4, <2>1, <2>3, <2>5
<1>10. QED
  BY <1>5, <1>6, <1>7, <1>8, <1>9

(***************************************************************************)
(* The funnel                                                              *)
(***************************************************************************)
Runs == {NoRun} \cup Active \cup Answered

LEMMA RunOf ==
  ASSUME Types, NEW t \in Tabs
  PROVE  /\ run[t] \in Runs
         /\ Running(t) => run[t] \in Active /\ Asked(run[t])
         /\ run[t].st = "answered" => run[t] \in Answered
         /\ NoRun \in Runs /\ NoRun.st = "idle" /\ (Funnel(t) => Running(t))
<1>1. run[t] \in Runs
  BY DEF Types, Runs
<1>2. NoRun.st = "idle" /\ (\A r \in Active : r.st \in Under) /\ (\A r \in Answered : r.st = "answered")
  BY DEF NoRun, Active, Answered
<1>3. "idle" \notin Under /\ "answered" \notin Under /\ {"issuing", "creating"} \subseteq Under
  BY DEF Under
<1>4. Running(t) => run[t] \in Active
  BY <1>1, <1>2, <1>3 DEF Runs, Running
<1>5. Running(t) => Asked(run[t])
  BY DEF Types, Running
<1>6. run[t].st = "answered" => run[t] \in Answered
  BY <1>1, <1>2, <1>3 DEF Runs
<1>7. QED
  BY <1>1, <1>2, <1>3, <1>4, <1>5, <1>6 DEF Runs, Running, Funnel

LEMMA Turned ==
  ASSUME Types, NEW t \in Tabs, NEW r \in Runs, run' = [run EXCEPT ![t] = r]
  PROVE  run' \in [Tabs -> Runs] /\ run'[t] = r /\ \A u \in Tabs \ {t} : run'[u] = run[u]
BY DEF Types, Runs

\* What may stay in the row may stay, while batches begin and end.
LEMMA StandsOn ==
  ASSUME NEW a, DOMAIN batch \subseteq DOMAIN batch',
         \A b \in DOMAIN batch : batch[b] # "running" => batch'[b] = batch[b]
  PROVE  Stands(a) => Stands(a)'
BY DEF Stands

LEMMA Ended ==
  ASSUME Types, NEW t \in Tabs, Running(t), run[t].b \in DOMAIN batch, NEW how \in Hows, End(t, how)
  PROVE  /\ run'[t] = [st |-> "answered", b |-> run[t].b, ok |-> how = "made"]
         /\ run' \in [Tabs -> Runs] /\ \A u \in Tabs \ {t} : run'[u] = run[u]
         /\ ~Running(t)' /\ ~Funnel(t)'
         /\ batch' \in Seq(Hows) /\ Len(batch') = Len(batch) /\ DOMAIN batch' = DOMAIN batch
         /\ batch'[run[t].b] = how /\ \A b \in DOMAIN batch \ {run[t].b} : batch'[b] = batch[b]
<1> DEFINE r == [st |-> "answered", b |-> run[t].b, ok |-> how = "made"]
<1>1. run[t] \in Active /\ batch \in Seq(Hows)
  BY RunOf DEF Types
<1>2. r \in Answered
  BY <1>1 DEF Active, Answered
<1>3. r \in Runs /\ run' = [run EXCEPT ![t] = r]
  BY <1>2 DEF Runs, End
<1>4. r.st = "answered" /\ r = [st |-> "answered", b |-> run[t].b, ok |-> how = "made"]
  OBVIOUS
<1> HIDE DEF r
<1>5. run'[t] = r /\ run' \in [Tabs -> Runs] /\ \A u \in Tabs \ {t} : run'[u] = run[u]
  BY <1>3, Turned
<1>6. ~Running(t)' /\ ~Funnel(t)'
  BY <1>4, <1>5 DEF Running, Funnel, Under
<1>7. run[t].b \in 1..Len(batch) /\ batch' = [batch EXCEPT ![run[t].b] = how]
  BY <1>1 DEF End
<1>8. /\ batch' \in Seq(Hows) /\ Len(batch') = Len(batch)
      /\ \A j \in 1..Len(batch) : batch'[j] = IF j = run[t].b THEN how ELSE batch[j]
  BY <1>1, <1>7, ExceptSeq
<1>9. QED
  BY <1>1, <1>4, <1>5, <1>6, <1>7, <1>8

\* A request is refused, and what it has made is taken back.
LEMMA RefuseKeeps ==
  ASSUME IInv, NEW t \in Tabs, Running(t), End(t, "refused"),
         inbounds' = {ib \in inbounds : ib \notin run[t].made},
         adv' = IF Funnel(t) /\ run[t].over THEN run[t].before ELSE adv,
         UNCHANGED <<world, bundles, overlapped, page>>
  PROVE  IInv'
<1> DEFINE b == run[t].b
<1>1. Types /\ BatchInv /\ AdvInv /\ FrontInv
  BY DEF IInv
<1>2. run[t] \in Active /\ Holds(run[t])
  BY <1>1, RunOf DEF BatchInv
<1>3. b \in DOMAIN batch /\ batch[b] = "running" /\ run[t].made = Rows(b) /\ bundles[b] = {}
  BY <1>2 DEF Holds
<1>4. /\ run' \in [Tabs -> Runs] /\ \A u \in Tabs \ {t} : run'[u] = run[u]
      /\ ~Running(t)' /\ ~Funnel(t)'
      /\ batch' \in Seq(Hows) /\ Len(batch') = Len(batch) /\ DOMAIN batch' = DOMAIN batch
      /\ batch'[b] = "refused" /\ \A d \in DOMAIN batch \ {b} : batch'[d] = batch[d]
  BY <1>1, <1>3, Ended DEF Hows
<1>5. \A u \in Tabs : (Running(u)' => Running(u) /\ u # t /\ run'[u] = run[u]) /\ (Funnel(u)' => Funnel(u) /\ u # t /\ run'[u] = run[u])
  BY <1>4 DEF Running, Funnel
<1>6. adv' \in 0..MaxBatches
  BY <1>1, <1>2 DEF Types, Active
<1>7. Types'
  BY <1>1, <1>4, <1>5, <1>6 DEF Types, Runs, Running, Asked, OnArgo, world
<1>8. \A d : Rows(d)' = IF d = b THEN {} ELSE Rows(d)
  BY <1>3 DEF Rows
<1>9. BatchInv'
  <2>1. ASSUME NEW u \in Tabs, Running(u)' PROVE Holds(run[u])'
    <3>1. Running(u) /\ u # t /\ run'[u] = run[u]
      BY <1>5, <2>1
    <3>2. Holds(run[u]) /\ run[u].b # b
      BY <1>1, <3>1 DEF BatchInv
    <3>3. QED
      BY <1>4, <1>8, <3>1, <3>2 DEF Holds
  <2>2. \A u, v \in Tabs : Running(u)' /\ Running(v)' /\ run'[u].b = run'[v].b => u = v
    BY <1>1, <1>5 DEF BatchInv
  <2>3. \A ib \in inbounds' : ib.batch <= Len(batch')
    BY <1>1, <1>4 DEF BatchInv
  <2>4. \A d \in DOMAIN batch' :
          /\ batch'[d] = "refused" => Rows(d)' = {} /\ bundles'[d] = {}
          /\ batch'[d] = "made" => Rows(d)' = bundles'[d] /\ Rows(d)' # {} /\ \A ib \in Rows(d)' : ib.client
    BY <1>1, <1>3, <1>4, <1>8 DEF BatchInv
  <2>5. \A d \in 1..MaxBatches : d > Len(batch') => bundles'[d] = {}
    BY <1>1, <1>4 DEF BatchInv
  <2>6. QED
    BY <2>1, <2>2, <2>3, <2>4, <2>5 DEF BatchInv
<1>10. AdvInv'
  <2> SUFFICES ASSUME ~overlapped
               PROVE  /\ \A u, v \in Tabs : Funnel(u)' /\ Funnel(v)' => u = v
                      /\ Stands(adv)' \/ \E u \in Tabs : (Funnel(u) /\ run[u].over /\ run[u].b = adv)'
                      /\ \A u \in Tabs : Funnel(u)' => Stands(run[u].before)'
    BY DEF AdvInv
  <2>1. /\ \A u, v \in Tabs : Funnel(u) /\ Funnel(v) => u = v
        /\ Stands(adv) \/ \E u \in Tabs : Funnel(u) /\ run[u].over /\ run[u].b = adv
        /\ \A u \in Tabs : Funnel(u) => Stands(run[u].before)
    BY <1>1 DEF AdvInv
  <2>2. \A a : Stands(a) => (a = 0 \/ (a \in DOMAIN batch' /\ batch'[a] \in {"made", "lost"}))
    BY <1>3, <1>4 DEF Stands
  <2>3. Stands(IF Funnel(t) /\ run[t].over THEN run[t].before ELSE adv) \/ \E u \in Tabs \ {t} : ~Funnel(t) /\ Funnel(u) /\ run[u].over /\ run[u].b = adv'
    BY <2>1
  <2>4. \A u \in Tabs \ {t} : Funnel(u) => Funnel(u)'
    BY <1>4 DEF Funnel
  <2>5. \A u, v \in Tabs : Funnel(u)' /\ Funnel(v)' => u = v
    BY <1>5, <2>1
  <2>6. Stands(adv)' \/ \E u \in Tabs : (Funnel(u) /\ run[u].over /\ run[u].b = adv)'
    BY <1>4, <2>2, <2>3, <2>4 DEF Stands
  <2>7. \A u \in Tabs : Funnel(u)' => Stands(run[u].before)'
    BY <1>5, <2>1, <2>2 DEF Stands
  <2>8. QED
    BY <2>5, <2>6, <2>7
<1>11. FrontInv'
  BY <1>1, <1>5 DEF FrontInv, OneTunnel, OnArgo
<1>12. QED
  BY <1>7, <1>9, <1>10, <1>11 DEF IInv

\* A request that is served goes on being served.
LEMMA Goes ==
  ASSUME Types, NEW t \in Tabs, NEW r \in Active, Asked(r), run' = [run EXCEPT ![t] = r]
  PROVE  /\ run' \in [Tabs -> Runs] /\ run'[t] = r /\ Running(t)'
         /\ \A u \in Tabs \ {t} : run'[u] = run[u] /\ Running(u)' = Running(u) /\ Funnel(u)' = Funnel(u)
         /\ \A u \in Tabs : Running(u)' => Asked(run[u])'
<1>1. run' \in [Tabs -> Runs] /\ run'[t] = r /\ \A u \in Tabs \ {t} : run'[u] = run[u]
  BY Turned DEF Runs
<1>2. \A u \in Tabs \ {t} : Running(u)' = Running(u) /\ Funnel(u)' = Funnel(u)
  BY <1>1 DEF Running, Funnel
<1>3. Running(t)'
  BY <1>1 DEF Running, Active
<1>4. \A u \in Tabs : Running(u) => Asked(run[u])
  BY RunOf
<1>5. \A u \in Tabs : Running(u)' => Asked(run[u])'
  BY <1>1, <1>2, <1>4 DEF Asked, OnArgo
<1>6. QED
  BY <1>1, <1>2, <1>3, <1>5

LEMMA BatchGoes ==
  ASSUME IInv, NEW t \in Tabs, Running(t), NEW r \in Active, Asked(r), r.b = run[t].b,
         run' = [run EXCEPT ![t] = r], UNCHANGED <<batch, bundles>>,
         \A d \in Nat : d # r.b => Rows(d)' = Rows(d),
         r.made = Rows(r.b)', r.st # "creating" => r.made = {}, r.todo # {} \/ r.made # {},
         \A ib \in inbounds' : ib.batch <= Len(batch)
  PROVE  BatchInv'
<1>1. Types /\ BatchInv
  BY DEF IInv
<1>2. /\ run'[t] = r
      /\ \A u \in Tabs \ {t} : run'[u] = run[u] /\ Running(u)' = Running(u)
  BY <1>1, Goes
<1>3. Holds(run[t])
  BY <1>1 DEF BatchInv
<1>4. \A u \in Tabs : Running(u)' => Running(u) /\ run'[u].b = run[u].b
  BY <1>2
<1>5. \A u \in Tabs : Running(u) => run[u].b \in Nat
  <2>1. \A u \in Tabs : Running(u) => run[u] \in Active
    BY <1>1, RunOf
  <2>2. \A q \in Active : q.b \in 1..MaxBatches
    BY DEF Active
  <2>3. 1..MaxBatches \subseteq Nat
    BY WizardAssumption DEF WizardAssumption
  <2>4. QED
    BY <2>1, <2>2, <2>3
<1>6. ASSUME NEW u \in Tabs, Running(u)' PROVE Holds(run[u])'
  <2>1. CASE u = t
    BY <1>2, <1>3, <2>1 DEF Holds
  <2>2. CASE u # t
    <3>1. Running(u) /\ run'[u] = run[u] /\ Holds(run[u]) /\ run[u].b # r.b
      BY <1>1, <1>2, <1>6, <2>2 DEF BatchInv
    <3>2. Rows(run[u].b)' = Rows(run[u].b)
      BY <1>2, <1>5, <3>1, <2>2
    <3>3. QED
      BY <3>1, <3>2 DEF Holds
  <2>3. QED
    BY <2>1, <2>2
<1>7. \A u, v \in Tabs : Running(u)' /\ Running(v)' /\ run'[u].b = run'[v].b => u = v
  BY <1>1, <1>4 DEF BatchInv
<1>8. \A d \in DOMAIN batch :
       /\ batch[d] = "refused" => Rows(d)' = {} /\ bundles[d] = {}
       /\ batch[d] = "made" => Rows(d)' = bundles[d] /\ Rows(d)' # {} /\ \A ib \in Rows(d)' : ib.client
  <2> TAKE d \in DOMAIN batch
  <2>1. d \in Nat
    BY <1>1 DEF Types
  <2>2. CASE d = r.b
    BY <1>3, <2>2 DEF Holds
  <2>3. CASE d # r.b
    BY <1>1, <2>1, <2>3 DEF BatchInv
  <2>4. QED
    BY <2>2, <2>3
<1>9. /\ \A ib \in inbounds' : ib.batch <= Len(batch')
      /\ \A d \in 1..MaxBatches : d > Len(batch') => bundles'[d] = {}
  BY <1>1 DEF BatchInv
<1>10. QED
  BY <1>6, <1>7, <1>8, <1>9 DEF BatchInv

LEMMA ReadPortsKeep ==
  ASSUME IInv, NEW t \in Tabs, ReadPorts(t)
  PROVE  IInv'
<1> DEFINE r == [run[t] EXCEPT !.st = "creating", !.used = UsedPorts(inbounds, hostFamily(run[t].host))]
<1>1. Types /\ BatchInv /\ AdvInv /\ FrontInv
  BY DEF IInv
<1>2. run[t].st = "issuing" /\ run' = [run EXCEPT ![t] = r]
  BY DEF ReadPorts
<1>3. Running(t) /\ Funnel(t)
  BY <1>2 DEF Running, Funnel, Under
<1>4. run[t] \in Active /\ Asked(run[t]) /\ Holds(run[t])
  BY <1>1, <1>3, RunOf DEF BatchInv
<1>5. \A ib \in inbounds : ib.port \in Nat
  BY <1>1, WizardAssumption DEF WizardAssumption, Types, Inbound, Ports
<1>6. UsedPorts(inbounds, hostFamily(run[t].host)) \in SUBSET Nat
  BY <1>5 DEF UsedPorts
<1>7. /\ r \in Active /\ r.st = "creating" /\ r.b = run[t].b /\ r.todo = run[t].todo
      /\ r.made = run[t].made /\ r.before = run[t].before /\ r.over = run[t].over /\ r.full = run[t].full
  BY <1>4, <1>6 DEF Active, Under
<1> HIDE DEF r
<1>8. Asked(r)
  BY <1>2, <1>4, <1>7 DEF Asked
<1>9. /\ run' \in [Tabs -> Runs] /\ run'[t] = r
      /\ \A u \in Tabs \ {t} : run'[u] = run[u] /\ Running(u)' = Running(u) /\ Funnel(u)' = Funnel(u)
      /\ \A u \in Tabs : Running(u)' => Asked(run[u])'
  BY <1>1, <1>2, <1>7, <1>8, Goes
<1>u. UNCHANGED <<world, server, page>>
  BY DEF ReadPorts
<1>10. Types'
  BY <1>1, <1>9, <1>u DEF Types, Runs, Running, world, server, past
<1>11. BatchInv'
  <2>1. \A d : Rows(d)' = Rows(d)
    BY <1>u DEF Rows, server, past
  <2>2. r.made = Rows(r.b) /\ (r.todo # {} \/ r.made # {}) /\ \A ib \in inbounds : ib.batch <= Len(batch)
    BY <1>1, <1>4, <1>7 DEF Holds, BatchInv
  <2>3. QED
    BY <1>2, <1>3, <1>7, <1>8, <1>u, <2>1, <2>2, BatchGoes DEF server, past
<1>12. \A u \in Tabs : Funnel(u)' => /\ Funnel(u)
                                     /\ run'[u].todo = run[u].todo /\ run'[u].before = run[u].before
                                     /\ run'[u].over = run[u].over /\ run'[u].b = run[u].b
  BY <1>3, <1>7, <1>9
<1>13. \A u \in Tabs : Funnel(u) => Funnel(u)'
  BY <1>7, <1>9 DEF Funnel
<1>14. AdvInv'
  BY <1>1, <1>12, <1>13, <1>u DEF AdvInv, Stands, server, past
<1>15. FrontInv'
  BY <1>1, <1>12, <1>u DEF FrontInv, OneTunnel, server, past
<1>16. QED
  BY <1>10, <1>11, <1>14, <1>15 DEF IInv

\* The advanced row is left alone by whoever is past the checks.
LEMMA AdvGoes ==
  ASSUME IInv, NEW t \in Tabs, Funnel(t), NEW r \in Active, Asked(r), r.st # "sent",
         r.b = run[t].b, r.before = run[t].before, r.over = run[t].over,
         run' = [run EXCEPT ![t] = r], UNCHANGED <<batch, adv, overlapped>>
  PROVE  AdvInv'
<1>1. Types /\ AdvInv
  BY DEF IInv
<1>2. /\ run'[t] = r
      /\ \A u \in Tabs \ {t} : run'[u] = run[u] /\ Funnel(u)' = Funnel(u)
  BY <1>1, Goes
<1>3. r.st \in {"issuing", "creating"}
  BY DEF Active, Under
<1>4. \A u \in Tabs : Funnel(u)' <=> Funnel(u)
  BY <1>2, <1>3 DEF Funnel
<1>5. \A u \in Tabs : run'[u].before = run[u].before /\ run'[u].over = run[u].over /\ run'[u].b = run[u].b
  BY <1>2
<1>6. QED
  BY <1>1, <1>4, <1>5 DEF AdvInv, Stands

LEMMA CreateInboundKeeps ==
  ASSUME IInv, NEW t \in Tabs, run[t].st = "creating", NEW w \in run[t].todo, CreateInbound(t, w)
  PROVE  IInv'
<1> DEFINE q    == run[t]
           port == pickFreePort(IF w.port = 0 THEN DefaultPort[w.proto] ELSE w.port, q.used)
           ib   == NewInbound(q, w, port)
           r    == [q EXCEPT !.todo = @ \ {w}, !.used = @ \cup {port}, !.made = @ \cup {ib}]
<1>1. Types /\ BatchInv /\ AdvInv /\ FrontInv
  BY DEF IInv
<1>2. Running(t) /\ Funnel(t)
  BY DEF Running, Funnel, Under
<1>3. q \in Active /\ Asked(q) /\ Holds(q)
  BY <1>1, <1>2, RunOf DEF BatchInv
<1>4. w \in Want
  BY <1>3 DEF Active
<1>u. UNCHANGED <<world, bundles, overlapped, page>>
  BY DEF CreateInbound
<1>5. CASE /\ Rollback(t, inbounds) /\ End(t, "refused")
  BY <1>2, <1>5, <1>u, RefuseKeeps DEF Rollback
<1>6. CASE /\ inbounds' = inbounds \cup {ib} /\ run' = [run EXCEPT ![t] = r]
           /\ UNCHANGED <<adv, batch>>
  <2>1. port \in Ports
    <3>1. w.port = 0 \/ w.port \in Ports
      BY <1>3 DEF Asked
    <3>2. DefaultPort[w.proto] \in Ports
      BY <1>4, WizardAssumption DEF WizardAssumption, Want, Ports
    <3>3. QED
      BY <3>1, <3>2, PortPicked
  <2> HIDE DEF port
  <2>2. /\ ib.batch = q.b /\ ib.client = FALSE /\ ib.argo = OnArgo(w) /\ ib.edge = OnEdge(w)
        /\ ib.cdn = (w.cdn /\ w.proto \in Cdn /\ ~OnArgo(w) /\ ~OnEdge(w))
        /\ ib.listen = IF OnArgo(w) \/ OnEdge(w) THEN "127.0.0.1" ELSE listenForHost(q.host)
    BY DEF NewInbound
  <2>3. listenForHost(q.host) \in Address /\ listenForHost(q.host) # "127.0.0.1"
    BY <1>3 DEF Active, listenForHost, Address
  <2>4. OnArgo(w) \in BOOLEAN /\ OnEdge(w) \in BOOLEAN /\ (w.cdn /\ w.proto \in Cdn /\ ~OnArgo(w) /\ ~OnEdge(w)) \in BOOLEAN
        /\ ~(OnArgo(w) /\ OnEdge(w))
    BY DEF OnArgo, OnEdge
  <2>5. /\ w.proto \in Protos /\ Backend[w.proto] \in STRING
        /\ hostFamily(q.host) \in Families /\ q.b \in 0..MaxBatches /\ q.b \in 1..MaxBatches
    <3>1. q.b \in 1..MaxBatches
      BY <1>3 DEF Active
    <3>2. q.b \in 0..MaxBatches
      BY <3>1
    <3>3. QED
      BY <1>4, <3>1, <3>2, WizardAssumption DEF WizardAssumption, Want, hostFamily, Families
  <2>6. ib \in Inbound
    <3>1. (IF OnArgo(w) \/ OnEdge(w) THEN "127.0.0.1" ELSE listenForHost(q.host)) \in Address
      BY <2>3 DEF Address
    <3>2. QED
      BY <2>1, <2>4, <2>5, <3>1 DEF NewInbound, Inbound
  <2>7. Fronted(ib)
    BY <2>2, <2>3, <2>4 DEF Fronted
  <2> HIDE DEF ib
  <2>8. /\ r.st = "creating" /\ r.b = q.b /\ r.todo = q.todo \ {w} /\ r.full = q.full
        /\ r.made = q.made \cup {ib} /\ r.before = q.before /\ r.over = q.over
    BY <1>3 DEF Active
  <2>9. r \in Active
    <3>1. port \in Nat
      BY <2>1, WizardAssumption DEF WizardAssumption, Ports
    <3>2. q.todo \ {w} \in SUBSET Want /\ q.used \cup {port} \in SUBSET Nat /\ q.made \cup {ib} \in SUBSET Inbound
      BY <1>3, <2>6, <3>1 DEF Active
    <3>3. QED
      BY <1>3, <3>2 DEF Active
  <2>10. run' = [run EXCEPT ![t] = r]
    BY <1>6
  <2> HIDE DEF r
  <2>11. Asked(r)
    <3>1. IsFiniteSet(r.todo)
      BY <1>3, <2>8, FS_Subset DEF Asked
    <3>2. QED
      BY <1>3, <2>8, <3>1 DEF Asked
  <2>12. /\ run' \in [Tabs -> Runs] /\ run'[t] = r
         /\ \A u \in Tabs \ {t} : run'[u] = run[u] /\ Running(u)' = Running(u) /\ Funnel(u)' = Funnel(u)
         /\ \A u \in Tabs : Running(u)' => Asked(run[u])'
    BY <1>1, <2>9, <2>10, <2>11, Goes
  <2>13. inbounds' \subseteq Inbound
    BY <1>1, <1>6, <2>6 DEF Types
  <2>14. Types'
    BY <1>1, <1>6, <1>u, <2>12, <2>13 DEF Types, Runs, Running, world
  <2>15. BatchInv'
    <3>1. q.b \in DOMAIN batch /\ batch \in Seq(Hows)
      BY <1>1, <1>3 DEF Holds, Types
    <3>2. q.b <= Len(batch)
      BY <3>1
    <3>3. \A o \in inbounds' : o.batch <= Len(batch)
      BY <1>1, <1>6, <2>2, <3>2 DEF BatchInv, ib
    <3>4. \A d : Rows(d)' = IF d = r.b THEN Rows(d) \cup {ib} ELSE Rows(d)
      BY <1>6, <2>2, <2>8 DEF Rows, ib
    <3>5. r.made = Rows(r.b) \cup {ib}
      BY <1>3, <2>8 DEF Holds
    <3>6. QED
      BY <1>2, <1>6, <1>u, <2>8, <2>9, <2>10, <2>11, <3>3, <3>4, <3>5, BatchGoes
  <2>16. AdvInv'
    BY <1>2, <1>6, <1>u, <2>8, <2>9, <2>10, <2>11, AdvGoes
  <2>17. FrontInv'
    <3>1. \A o \in inbounds' : Fronted(o)
      BY <1>1, <1>6, <2>7 DEF FrontInv
    <3>2. ASSUME ~overlapped PROVE OneTunnel'
      <4>1. /\ \A i, j \in inbounds : i.argo /\ j.argo => i = j
            /\ \A x \in q.todo : OnArgo(x) => /\ \A y \in q.todo : OnArgo(y) => y = x
                                              /\ \A o \in inbounds : ~o.argo
        BY <1>1, <1>2, <3>2 DEF FrontInv, OneTunnel
      <4>2. \A u \in Tabs : Funnel(u)' => u = t
        BY <1>1, <1>2, <2>12, <3>2 DEF AdvInv
      <4>3. ib.argo <=> OnArgo(w)
        BY <2>2 DEF ib
      <4>4. \A i, j \in inbounds' : i.argo /\ j.argo => i = j
        BY <1>6, <4>1, <4>3
      <4>5. \A x \in r.todo : OnArgo(x) => /\ \A y \in r.todo : OnArgo(y) => y = x
                                           /\ \A o \in inbounds' : ~o.argo
        BY <1>6, <2>8, <4>1, <4>3
      <4>6. QED
        BY <2>12, <4>2, <4>4, <4>5 DEF OneTunnel, OnArgo
    <3>3. QED
      BY <1>u, <3>1, <3>2 DEF FrontInv, Fronted
  <2>18. QED
    BY <2>14, <2>15, <2>16, <2>17 DEF IInv
<1>7. QED
  BY <1>5, <1>6 DEF CreateInbound

LEMMA CreateClientKeeps ==
  ASSUME IInv, NEW t \in Tabs, NEW ib \in run[t].made, CreateClient(t, ib)
  PROVE  IInv'
<1> DEFINE q    == run[t]
           with == [ib EXCEPT !.client = TRUE]
           r    == [q EXCEPT !.made = (@ \ {ib}) \cup {with}]
<1>1. Types /\ BatchInv /\ AdvInv /\ FrontInv
  BY DEF IInv
<1>0. q.st = "creating"
  BY DEF CreateClient
<1>2. Running(t) /\ Funnel(t)
  BY <1>0 DEF Running, Funnel, Under
<1>3. q \in Active /\ Asked(q) /\ Holds(q)
  BY <1>1, <1>2, RunOf DEF BatchInv
<1>u. UNCHANGED <<world, bundles, overlapped, page>>
  BY DEF CreateClient, past
<1>5. CASE /\ Rollback(t, inbounds) /\ End(t, "refused")
  BY <1>2, <1>5, <1>u, RefuseKeeps DEF Rollback
<1>6. CASE /\ inbounds' = (inbounds \ {ib}) \cup {with} /\ run' = [run EXCEPT ![t] = r]
           /\ UNCHANGED <<adv, batch>>
  <2>1. ib \in inbounds /\ ib.batch = q.b /\ ib \in Inbound
    BY <1>1, <1>3 DEF Holds, Rows, Types
  <2>2. /\ with \in Inbound /\ with.batch = ib.batch /\ with.argo = ib.argo /\ with.edge = ib.edge
        /\ with.cdn = ib.cdn /\ with.listen = ib.listen
    BY <2>1 DEF Inbound
  <2> HIDE DEF with
  <2>8. /\ r.st = "creating" /\ r.b = q.b /\ r.todo = q.todo /\ r.full = q.full
        /\ r.made = (q.made \ {ib}) \cup {with} /\ r.before = q.before /\ r.over = q.over
    BY <1>0, <1>3 DEF Active
  <2>9. r \in Active
    <3>1. (q.made \ {ib}) \cup {with} \in SUBSET Inbound
      BY <1>3, <2>2 DEF Active
    <3>2. QED
      BY <1>3, <3>1 DEF Active
  <2>10. run' = [run EXCEPT ![t] = r]
    BY <1>6
  <2> HIDE DEF r
  <2>11. Asked(r)
    BY <1>0, <1>3, <2>8 DEF Asked
  <2>12. /\ run' \in [Tabs -> Runs] /\ run'[t] = r
         /\ \A u \in Tabs \ {t} : run'[u] = run[u] /\ Running(u)' = Running(u) /\ Funnel(u)' = Funnel(u)
         /\ \A u \in Tabs : Running(u)' => Asked(run[u])'
    BY <1>1, <2>9, <2>10, <2>11, Goes
  <2>13. inbounds' \subseteq Inbound
    BY <1>1, <1>6, <2>2 DEF Types
  <2>14. Types'
    BY <1>1, <1>6, <1>u, <2>12, <2>13 DEF Types, Runs, Running, world
  <2>15. BatchInv'
    <3>1. \A o \in inbounds' : o.batch <= Len(batch)
      BY <1>1, <1>6, <2>1, <2>2 DEF BatchInv
    <3>2. \A d : Rows(d)' = IF d = r.b THEN (Rows(d) \ {ib}) \cup {with} ELSE Rows(d)
      BY <1>6, <2>1, <2>2, <2>8 DEF Rows
    <3>3. r.made = (Rows(r.b) \ {ib}) \cup {with}
      BY <1>3, <2>8 DEF Holds
    <3>4. QED
      BY <1>2, <1>6, <1>u, <2>8, <2>9, <2>10, <2>11, <3>1, <3>2, <3>3, BatchGoes
  <2>16. AdvInv'
    BY <1>2, <1>6, <1>u, <2>8, <2>9, <2>10, <2>11, AdvGoes
  <2>17. FrontInv'
    <3>1. \A o \in inbounds' : Fronted(o)
      BY <1>1, <1>6, <2>1, <2>2 DEF FrontInv, Fronted
    <3>2. ASSUME ~overlapped PROVE OneTunnel'
      <4>1. OneTunnel
        BY <1>1, <3>2 DEF FrontInv
      <4>2. \A i, j \in inbounds' : i.argo /\ j.argo => i = j
        BY <1>6, <2>1, <2>2, <4>1 DEF OneTunnel
      <4>3. (\A o \in inbounds : ~o.argo) => (\A o \in inbounds' : ~o.argo)
        BY <1>6, <2>1, <2>2
      <4>4. \A u \in Tabs : Funnel(u)' => Funnel(u) /\ run'[u].todo = run[u].todo
        BY <1>2, <2>8, <2>12
      <4>5. QED
        BY <4>1, <4>2, <4>3, <4>4 DEF OneTunnel, OnArgo
    <3>3. QED
      BY <1>u, <3>1, <3>2 DEF FrontInv, Fronted
  <2>18. QED
    BY <2>14, <2>15, <2>16, <2>17 DEF IInv
<1>7. QED
  BY <1>5, <1>6 DEF CreateClient

LEMMA CreateSubscriptionKeeps ==
  ASSUME IInv, NEW t \in Tabs, CreateSubscription(t)
  PROVE  IInv'
<1> DEFINE q == run[t]
           b == run[t].b
<1>1. Types /\ BatchInv /\ AdvInv /\ FrontInv
  BY DEF IInv
<1>0. q.st = "creating" /\ q.todo = {} /\ \A o \in q.made : o.client
  BY DEF CreateSubscription
<1>2. Running(t) /\ Funnel(t)
  BY <1>0 DEF Running, Funnel, Under
<1>3. q \in Active /\ Holds(q)
  BY <1>1, <1>2, RunOf DEF BatchInv
<1>u. UNCHANGED <<world, overlapped, page>>
  BY DEF CreateSubscription, past
<1>5. CASE /\ Rollback(t, inbounds) /\ End(t, "refused") /\ UNCHANGED bundles
  BY <1>2, <1>5, <1>u, RefuseKeeps DEF Rollback
<1>6. CASE /\ bundles' = [bundles EXCEPT ![b] = q.made] /\ End(t, "made")
           /\ UNCHANGED <<inbounds, adv>>
  <2>1. /\ b \in DOMAIN batch /\ batch[b] = "running" /\ q.made = Rows(b) /\ q.made # {}
        /\ b \in 1..MaxBatches /\ q.made \in SUBSET Inbound
    BY <1>0, <1>3 DEF Holds, Active
  <2>2. /\ run' \in [Tabs -> Runs] /\ \A u \in Tabs \ {t} : run'[u] = run[u]
        /\ ~Running(t)' /\ ~Funnel(t)'
        /\ batch' \in Seq(Hows) /\ Len(batch') = Len(batch) /\ DOMAIN batch' = DOMAIN batch
        /\ batch'[b] = "made" /\ \A d \in DOMAIN batch \ {b} : batch'[d] = batch[d]
    BY <1>1, <1>2, <1>6, <2>1, Ended DEF Hows
  <2>3. \A u \in Tabs : /\ Running(u)' => Running(u) /\ u # t /\ run'[u] = run[u]
                        /\ Funnel(u)' => Funnel(u) /\ u # t /\ run'[u] = run[u]
    BY <2>2 DEF Running, Funnel
  <2>4. /\ bundles' \in [1..MaxBatches -> SUBSET Inbound] /\ bundles'[b] = q.made
        /\ \A d \in 1..MaxBatches \ {b} : bundles'[d] = bundles[d]
    BY <1>1, <1>6, <2>1 DEF Types
  <2>5. Types'
    BY <1>1, <1>6, <1>u, <2>2, <2>3, <2>4 DEF Types, Runs, Running, Asked, OnArgo, world
  <2>6. \A d : Rows(d)' = Rows(d)
    BY <1>6 DEF Rows
  <2>7. BatchInv'
    <3>1. ASSUME NEW u \in Tabs, Running(u)' PROVE Holds(run[u])'
      <4>1. Running(u) /\ u # t /\ run'[u] = run[u]
        BY <2>3, <3>1
      <4>2. Holds(run[u]) /\ run[u].b # b /\ run[u] \in Active
        BY <1>1, <1>2, <4>1, RunOf DEF BatchInv
      <4>3. bundles'[run[u].b] = bundles[run[u].b]
        BY <2>4, <4>2 DEF Active
      <4>4. QED
        BY <2>2, <2>6, <4>1, <4>2, <4>3 DEF Holds
    <3>2. \A u, v \in Tabs : Running(u)' /\ Running(v)' /\ run'[u].b = run'[v].b => u = v
      BY <1>1, <2>3 DEF BatchInv
    <3>3. \A o \in inbounds' : o.batch <= Len(batch')
      BY <1>1, <1>6, <2>2 DEF BatchInv
    <3>4. ASSUME NEW d \in 1..MaxBatches, d > Len(batch') PROVE bundles'[d] = {}
      <4>1. d # b
        BY <1>1, <2>1, <2>2, <3>4 DEF Types
      <4>2. QED
        BY <1>1, <2>2, <2>4, <3>4, <4>1 DEF BatchInv
    <3>5. ASSUME NEW d \in DOMAIN batch'
          PROVE  /\ batch'[d] = "refused" => Rows(d)' = {} /\ bundles'[d] = {}
                 /\ batch'[d] = "made" => Rows(d)' = bundles'[d] /\ Rows(d)' # {} /\ \A o \in Rows(d)' : o.client
      <4>1. CASE d = b
        BY <1>0, <2>1, <2>2, <2>4, <2>6, <4>1
      <4>2. CASE d # b
        <5>0. DOMAIN batch = 1..Len(batch) /\ Len(batch) \in Nat /\ Len(batch) <= MaxBatches /\ MaxBatches \in Nat
          BY <1>1, WizardAssumption DEF Types, WizardAssumption
        <5>1. d \in 1..MaxBatches
          BY <2>2, <5>0
        <5>2. QED
          BY <1>1, <2>2, <2>4, <2>6, <4>2, <5>1 DEF BatchInv
      <4>3. QED
        BY <4>1, <4>2
    <3>6. QED
      BY <3>1, <3>2, <3>3, <3>4, <3>5 DEF BatchInv
  <2>8. AdvInv'
    <3> SUFFICES ASSUME ~overlapped
                 PROVE  /\ \A u, v \in Tabs : Funnel(u)' /\ Funnel(v)' => u = v
                        /\ Stands(adv)'
                        /\ \A u \in Tabs : Funnel(u)' => Stands(run[u].before)'
      BY <1>u DEF AdvInv
    <3>1. /\ \A u, v \in Tabs : Funnel(u) /\ Funnel(v) => u = v
          /\ Stands(adv) \/ \E u \in Tabs : Funnel(u) /\ run[u].over /\ run[u].b = adv
      BY <1>1 DEF AdvInv
    <3>2. \A u \in Tabs : ~Funnel(u)'
      BY <1>2, <2>3, <3>1
    <3>3. Stands(adv) \/ adv = b
      BY <1>2, <3>1
    <3>4. Stands(adv)'
      BY <1>6, <2>1, <2>2, <3>3 DEF Stands
    <3>5. QED
      BY <3>2, <3>4
  <2>9. FrontInv'
    BY <1>1, <1>6, <1>u, <2>3 DEF FrontInv, OneTunnel, OnArgo
  <2>10. QED
    BY <2>5, <2>7, <2>8, <2>9 DEF IInv
<1>7. QED
  BY <1>5, <1>6 DEF CreateSubscription

LEMMA CrashKeeps ==
  ASSUME IInv, Crash
  PROVE  IInv'
<1>1. Types /\ BatchInv /\ AdvInv /\ FrontInv
  BY DEF IInv
<1>u. UNCHANGED <<world, inbounds, bundles, adv, overlapped, page>>
  BY DEF Crash, past
<1>2. \A t \in Tabs : Running(t) => Holds(run[t])
  BY <1>1 DEF BatchInv
<1>3. /\ batch' \in Seq(Hows) /\ Len(batch') = Len(batch) /\ DOMAIN batch' = DOMAIN batch
      /\ \A b \in DOMAIN batch : batch'[b] = IF batch[b] = "running" THEN "lost" ELSE batch[b]
  <2> DEFINE n == Len(batch)
  <2>1. n \in Nat /\ DOMAIN batch = 1..n /\ \A b \in 1..n : batch[b] \in Hows
    BY <1>1, LenProperties DEF Types
  <2>2. batch' = [b \in 1..n |-> IF batch[b] = "running" THEN "lost" ELSE batch[b]]
    BY <2>1 DEF Crash
  <2> HIDE DEF n
  <2>3. batch' \in [1..n -> Hows]
    BY <2>1, <2>2 DEF Hows
  <2>4. batch' \in Seq(Hows)
    BY <2>1, <2>3, SeqDef
  <2>5. Len(batch') = n
    BY <2>1, <2>3, <2>4, LenProperties
  <2>6. QED
    BY <2>1, <2>2, <2>4, <2>5 DEF n
<1>4. run' \in [Tabs -> Runs] /\ \A t \in Tabs : ~Running(t)' /\ ~Funnel(t)'
  <2>1. run' = [t \in Tabs |-> IF run[t] = NoRun \/ run[t].st = "answered" THEN run[t]
                               ELSE [st |-> "answered", b |-> run[t].b, ok |-> FALSE]]
    BY DEF Crash
  <2>2. ASSUME NEW t \in Tabs PROVE run'[t] \in Runs /\ run'[t].st \in {"idle", "answered"}
    <3>1. CASE run[t] = NoRun \/ run[t].st = "answered"
      BY <1>1, <2>1, <3>1, RunOf
    <3>2. CASE ~(run[t] = NoRun \/ run[t].st = "answered")
      <4>1. run[t] \in Active
        BY <1>1, <3>2, RunOf DEF Runs, Answered
      <4>2. [st |-> "answered", b |-> run[t].b, ok |-> FALSE] \in Answered
        BY <4>1 DEF Active, Answered
      <4>3. QED
        BY <2>1, <3>2, <4>2 DEF Runs
    <3>3. QED
      BY <3>1, <3>2
  <2>3. run' \in [Tabs -> Runs]
    BY <2>1, <2>2
  <2>4. QED
    BY <2>2, <2>3 DEF Running, Funnel, Under
<1>5. Types'
  BY <1>1, <1>3, <1>4, <1>u DEF Types, Runs, Running, world
<1>6. \A d : Rows(d)' = Rows(d)
  BY <1>u DEF Rows
<1>7. BatchInv'
  BY <1>1, <1>3, <1>4, <1>6, <1>u DEF BatchInv
<1>8. AdvInv'
  <2>1. ASSUME ~overlapped PROVE Stands(adv)'
    <3>1. Stands(adv) \/ \E t \in Tabs : Funnel(t) /\ run[t].b = adv
      BY <1>1, <2>1 DEF AdvInv
    <3>2. \A t \in Tabs : Funnel(t) => run[t].b \in DOMAIN batch /\ batch[run[t].b] = "running"
      BY <1>1, <1>2, RunOf DEF Holds
    <3>3. QED
      BY <1>3, <1>u, <3>1, <3>2 DEF Stands
  <2>2. QED
    BY <1>4, <1>u, <2>1 DEF AdvInv
<1>9. FrontInv'
  BY <1>1, <1>4, <1>u DEF FrontInv, OneTunnel, Fronted
<1>10. QED
  BY <1>5, <1>7, <1>8, <1>9 DEF IInv

\* One in a set of at most one is all of it.
LEMMA OnlyOne ==
  ASSUME NEW S, IsFiniteSet(S), ~(Cardinality(S) > 1), NEW a \in S, NEW b \in S
  PROVE  a = b
<1> SUFFICES ASSUME a # b PROVE FALSE
  OBVIOUS
<1>1. IsFiniteSet({b}) /\ Cardinality({b}) = 1
  BY FS_Singleton
<1>2. Cardinality({b} \cup {a}) = 2
  <2> DEFINE B == {b}
  <2>1. IsFiniteSet(B) /\ a \notin B /\ Cardinality(B) = 1
    BY <1>1
  <2> HIDE DEF B
  <2>2. Cardinality(B \cup {a}) = Cardinality(B) + 1
    BY <2>1, FS_AddElement
  <2>3. QED
    BY <2>1, <2>2 DEF B
<1>3. Cardinality({b} \cup {a}) <= Cardinality(S) /\ Cardinality(S) \in Nat
  BY FS_Subset, FS_CardinalityType
<1>4. QED
  BY <1>2, <1>3

LEMMA GuardsKeep ==
  ASSUME IInv, NEW t \in Tabs, Guards(t)
  PROVE  IInv'
<1> DEFINE q      == run[t]
           tunnel == \E w \in q.todo : OnArgo(w)
           over   == q.full /\ (tunnel \/ \E w \in q.todo : w.cdn)
           r      == [q EXCEPT !.st = "issuing", !.before = adv, !.over = over]
<1>1. Types /\ BatchInv /\ AdvInv /\ FrontInv
  BY DEF IInv
<1>0. q.st = "sent"
  BY DEF Guards
<1>2. Running(t) /\ ~Funnel(t)
  BY <1>0 DEF Running, Funnel, Under
<1>3. q \in Active /\ Asked(q) /\ Holds(q)
  BY <1>1, <1>2, RunOf DEF BatchInv
<1>u. UNCHANGED <<world, inbounds, bundles, page>>
  BY DEF Guards
<1>5. CASE Refused(q)
  <2>1. End(t, "refused") /\ UNCHANGED <<adv, overlapped>>
    BY <1>5 DEF Guards
  <2>2. q.made = {}
    BY <1>0, <1>3 DEF Holds
  <2>3. inbounds' = {ib \in inbounds : ib \notin q.made}
    BY <1>u, <2>2
  <2>4. QED
    BY <1>2, <1>u, <2>1, <2>3, RefuseKeeps
<1>6. CASE ~Refused(q)
  <2>1. /\ run' = [run EXCEPT ![t].st = "issuing", ![t].before = adv, ![t].over = over]
        /\ adv' = IF tunnel THEN q.b ELSE adv
        /\ overlapped' = (overlapped \/ \E u \in Tabs \ {t} : run[u].st \in {"issuing", "creating"})
        /\ UNCHANGED batch
    BY <1>6 DEF Guards
  <2>2. run' = [run EXCEPT ![t] = r]
    BY <1>1, <1>3, <2>1 DEF Types, Active
  <2>3. tunnel \in BOOLEAN /\ over \in BOOLEAN /\ (tunnel => over)
    <3>1. q.full \in BOOLEAN /\ (tunnel => q.full)
      BY <1>3 DEF Active, Asked
    <3>2. QED
      BY <3>1
  <2> HIDE DEF over, tunnel
  <2>4. adv \in 0..MaxBatches /\ q.b \in 1..MaxBatches /\ q.b \in 0..MaxBatches
    <3>1. adv \in 0..MaxBatches /\ q.b \in 1..MaxBatches
      BY <1>1, <1>3 DEF Types, Active
    <3>2. QED
      BY <3>1
  <2>5. /\ r \in Active /\ r.st = "issuing" /\ r.b = q.b /\ r.todo = q.todo /\ r.full = q.full
        /\ r.made = q.made /\ r.before = adv /\ r.over = over
    BY <1>3, <2>3, <2>4 DEF Active, Under
  <2> HIDE DEF r
  <2>6. Asked(r)
    <3>1. \A w \in q.todo : w.port = 0 \/ w.port \in Ports
      BY <1>6 DEF Refused, BadPort, Ports
    <3>2. QED
      BY <1>3, <2>5, <3>1 DEF Asked
  <2>7. /\ run' \in [Tabs -> Runs] /\ run'[t] = r
        /\ \A u \in Tabs \ {t} : run'[u] = run[u] /\ Running(u)' = Running(u) /\ Funnel(u)' = Funnel(u)
        /\ \A u \in Tabs : Running(u)' => Asked(run[u])'
    BY <1>1, <2>2, <2>5, <2>6, Goes
  <2>8. adv' \in 0..MaxBatches /\ overlapped' \in BOOLEAN
    BY <1>1, <2>1, <2>4 DEF Types
  <2>9. Types'
    BY <1>1, <1>u, <2>1, <2>7, <2>8 DEF Types, Runs, Running, world
  <2>10. BatchInv'
    <3>1. \A d : Rows(d)' = Rows(d)
      BY <1>u DEF Rows
    <3>2. /\ r.made = Rows(r.b) /\ (r.todo # {} \/ r.made # {}) /\ r.made = {}
          /\ \A ib \in inbounds' : ib.batch <= Len(batch)
      BY <1>0, <1>1, <1>3, <1>u, <2>5 DEF Holds, BatchInv
    <3>3. QED
      BY <1>2, <1>u, <2>1, <2>2, <2>5, <2>6, <3>1, <3>2, BatchGoes
  <2>11. ASSUME ~overlapped' PROVE ~overlapped /\ \A u \in Tabs : ~Funnel(u) /\ (Funnel(u)' <=> u = t)
    <3>1. ~overlapped /\ \A u \in Tabs \ {t} : ~Funnel(u)
      BY <2>1, <2>11 DEF Funnel
    <3>2. Funnel(t)'
      BY <2>5, <2>7 DEF Funnel
    <3>3. QED
      BY <1>2, <2>7, <3>1, <3>2
  <2>12. AdvInv'
    <3> SUFFICES ASSUME ~overlapped'
                 PROVE  /\ \A u, v \in Tabs : Funnel(u)' /\ Funnel(v)' => u = v
                        /\ Stands(adv)' \/ (Funnel(t) /\ run[t].over /\ run[t].b = adv)'
                        /\ \A u \in Tabs : Funnel(u)' => Stands(run[u].before)'
      BY DEF AdvInv
    <3>1. Stands(adv)
      BY <1>1, <2>11 DEF AdvInv
    <3>2. \A u \in Tabs : Funnel(u)' <=> u = t
      BY <2>11
    <3>3. Stands(run[t].before)'
      BY <2>1, <2>5, <2>7, <3>1 DEF Stands
    <3>4. CASE tunnel
      BY <2>1, <2>3, <2>5, <2>7, <3>2, <3>3, <3>4
    <3>5. CASE ~tunnel
      <4>1. Stands(adv)'
        BY <2>1, <3>1, <3>5 DEF Stands
      <4>2. QED
        BY <3>2, <3>3, <4>1
    <3>6. QED
      BY <3>4, <3>5
  <2>13. FrontInv'
    <3>1. ASSUME ~overlapped' PROVE OneTunnel'
      <4>1. \A i, j \in inbounds : i.argo /\ j.argo => i = j
        BY <1>1, <2>11, <3>1 DEF FrontInv, OneTunnel
      <4>2. ASSUME NEW w \in q.todo, OnArgo(w)
            PROVE  (\A x \in q.todo : OnArgo(x) => x = w) /\ (\A ib \in inbounds : ~ib.argo)
        <5> DEFINE argo == {x \in q.todo : OnArgo(x)}
        <5>1. ~(Cardinality(argo) > 1) /\ ~(argo # {} /\ \E ib \in inbounds : ib.argo)
          BY <1>6 DEF Refused, SecondTunnel
        <5>2. IsFiniteSet(argo)
          BY <1>3, FS_Subset DEF Asked
        <5>3. w \in argo /\ \A x \in q.todo : OnArgo(x) => x \in argo
          BY <4>2
        <5> HIDE DEF argo
        <5>4. \A x \in argo : x = w
          BY <5>1, <5>2, <5>3, OnlyOne
        <5>5. QED
          BY <5>1, <5>3, <5>4
      <4>3. \A u \in Tabs : Funnel(u)' => u = t
        BY <2>11, <3>1
      <4>4. run'[t].todo = q.todo
        BY <2>5, <2>7
      <4>5. QED
        BY <1>u, <4>1, <4>2, <4>3, <4>4 DEF OneTunnel, OnArgo
    <3>2. QED
      BY <1>1, <1>u, <3>1 DEF FrontInv, Fronted
  <2>14. QED
    BY <2>9, <2>10, <2>12, <2>13 DEF IInv
<1>7. QED
  BY <1>5, <1>6

\* What is ticked is what is wanted; the quick form never wants the tunnel.
LEMMA WantedIs ==
  ASSUME Types, NEW t \in Tabs
  PROVE  /\ Wanted(t) \in SUBSET Want /\ IsFiniteSet(Wanted(t))
         /\ DOMAIN page[t].sel # {} => Wanted(t) # {}
         /\ page[t].mode = "quick" => \A w \in Wanted(t) : ~OnArgo(w)
<1> DEFINE s    == page[t].sel
           D    == DOMAIN s
           of(p) == [proto |-> p, port |-> s[p].port, cdn |-> s[p].cdn,
                     ride |-> IF page[t].mode = "quick" /\ edgeName /\ p \in Edge THEN "edge" ELSE s[p].ride]
           f    == [p \in D |-> of(p)]
<1>1. D \subseteq Protos /\ Plain(page[t]) /\ \A p \in D : s[p] \in Choice
  BY PageOf
<1>2. Wanted(t) = {of(p) : p \in D}
  BY DEF Wanted
<1>3. \A p \in D : of(p) \in Want
  BY <1>1 DEF Choice, Want, Rides
<1>4. \A p \in D : page[t].mode = "quick" => of(p).ride # "argo"
  BY <1>1 DEF Plain
<1>5. \A p \in D : f[p] = of(p)
  OBVIOUS
<1> HIDE DEF of
<1>6. IsFiniteSet(D)
  BY <1>1, FS_Subset, WizardAssumption DEF WizardAssumption
<1>7. f \in Surjection(D, Wanted(t))
  BY <1>2, <1>5 DEF Surjection
<1> HIDE DEF f, D
<1>8. IsFiniteSet(Wanted(t))
  BY <1>6, <1>7, FS_Surjection
<1>9. QED
  BY <1>2, <1>3, <1>4, <1>8 DEF OnArgo, D

LEMMA CreateKeeps ==
  ASSUME IInv, NEW t \in Tabs, Create(t), page[t].mode \in {"full", "quick"}
  PROVE  IInv'
<1> DEFINE n    == Len(batch) + 1
           r    == [st |-> "sent", b |-> n, host |-> page[t].host, domain |-> page[t].domain,
                    full |-> page[t].mode = "full",
                    todo |-> Wanted(t), before |-> 0, over |-> FALSE, used |-> {}, made |-> {}]
           next == [page[t] EXCEPT !.creating = TRUE]
<1>1. Types /\ BatchInv /\ AdvInv /\ FrontInv
  BY DEF IInv
<1>2. page[t] \in Page /\ Plain(page[t])
  BY <1>1, PageOf
<1>3. /\ DOMAIN page[t].sel # {} /\ run[t] = NoRun /\ Len(batch) < MaxBatches
      /\ page' = [page EXCEPT ![t].creating = TRUE] /\ batch' = Append(batch, "running")
      /\ run' = [run EXCEPT ![t] = r]
  BY DEF Create
<1>u. UNCHANGED <<world, inbounds, bundles, adv, overlapped>>
  BY DEF Create, past
<1>4. /\ Wanted(t) \in SUBSET Want /\ IsFiniteSet(Wanted(t)) /\ Wanted(t) # {}
      /\ page[t].mode = "quick" => \A w \in Wanted(t) : ~OnArgo(w)
  BY <1>1, <1>3, WantedIs
<1>5. /\ batch \in Seq(Hows) /\ Len(batch) \in Nat /\ DOMAIN batch = 1..Len(batch) /\ MaxBatches \in Nat
  BY <1>1, WizardAssumption DEF Types, WizardAssumption
<1>6. n \in 1..MaxBatches /\ n \notin DOMAIN batch /\ 0 \in 0..MaxBatches /\ n \in Nat
  BY <1>3, <1>5
<1>7. /\ batch' \in Seq(Hows) /\ Len(batch') = n /\ DOMAIN batch' = DOMAIN batch \cup {n} /\ batch'[n] = "running"
      /\ \A d \in DOMAIN batch : batch'[d] = batch[d]
  <2>1. "running" \in Hows
    BY DEF Hows
  <2>2. /\ batch' \in Seq(Hows) /\ Len(batch') = n
        /\ \A d \in 1..Len(batch) : batch'[d] = batch[d]
        /\ batch'[n] = "running"
    BY <1>3, <1>5, <2>1, AppendProperties
  <2>3. DOMAIN batch' = 1..n
    BY <2>2
  <2>4. QED
    BY <1>5, <2>2, <2>3
<1> HIDE DEF n
<1>8. /\ r.st = "sent" /\ r.b = n /\ r.todo = Wanted(t) /\ r.made = {}
      /\ r.full = (page[t].mode = "full")
  OBVIOUS
<1>9. r \in Active
  BY <1>2, <1>4, <1>6 DEF Active, Under, Page
<1> HIDE DEF r
<1>10. Asked(r)
  BY <1>4, <1>8 DEF Asked
<1>11. /\ run' \in [Tabs -> Runs] /\ run'[t] = r /\ Running(t)'
       /\ \A u \in Tabs \ {t} : run'[u] = run[u] /\ Running(u)' = Running(u) /\ Funnel(u)' = Funnel(u)
       /\ \A u \in Tabs : Running(u)' => Asked(run[u])'
  BY <1>1, <1>3, <1>9, <1>10, Goes
<1>12. ~Funnel(t) /\ ~Funnel(t)' /\ ~Running(t)
  BY <1>3, <1>8, <1>11, RunOf DEF Funnel, Running, NoRun, Under
<1>13. page' \in [Tabs -> Page] /\ \A u \in Tabs : Plain(page'[u])
  <2>1. page' = [page EXCEPT ![t] = next]
    BY <1>1, <1>2, <1>3 DEF Types, Page
  <2>2. next \in Page /\ Plain(next)
    BY <1>2 DEF Page, Plain
  <2> HIDE DEF next
  <2>3. QED
    BY <1>1, <2>1, <2>2 DEF Types
<1>14. Len(batch') <= MaxBatches
  BY <1>5, <1>6, <1>7
<1>15. Types'
  BY <1>1, <1>7, <1>11, <1>13, <1>14, <1>u DEF Types, Runs, Running, world
<1>16. \A d : Rows(d)' = Rows(d)
  BY <1>u DEF Rows
<1>17. BatchInv'
  <2>1. Rows(n) = {}
    BY <1>1, <1>5 DEF Rows, BatchInv, n, Types, Inbound
  <2>2. bundles[n] = {}
    BY <1>1, <1>5, <1>6 DEF BatchInv, n
  <2>3. \A u \in Tabs \ {t} : Running(u)' => Running(u) /\ run'[u] = run[u] /\ Holds(run[u]) /\ run[u].b \in DOMAIN batch
    BY <1>1, <1>11 DEF BatchInv, Holds
  <2>4. ASSUME NEW u \in Tabs, Running(u)' PROVE Holds(run[u])'
    <3>1. CASE u = t
      BY <1>4, <1>7, <1>8, <1>11, <1>16, <1>u, <2>1, <2>2, <3>1 DEF Holds
    <3>2. CASE u # t
      BY <1>7, <1>16, <1>u, <2>3, <2>4, <3>2 DEF Holds
    <3>3. QED
      BY <3>1, <3>2
  <2>5. \A u, v \in Tabs : Running(u)' /\ Running(v)' /\ run'[u].b = run'[v].b => u = v
    BY <1>1, <1>6, <1>8, <1>11, <2>3 DEF BatchInv
  <2>6. /\ \A ib \in inbounds' : ib.batch <= Len(batch')
        /\ \A b \in 1..MaxBatches : b > Len(batch') => bundles'[b] = {}
    <3>1. \A ib \in inbounds : ib.batch <= Len(batch) /\ ib.batch \in Int
      BY <1>1, <1>5 DEF BatchInv, Types, Inbound
    <3>2. \A b \in 1..MaxBatches : b > Len(batch) => bundles[b] = {}
      BY <1>1 DEF BatchInv
    <3>3. QED
      BY <1>5, <1>7, <1>u, <3>1, <3>2 DEF n
  <2>7. \A b \in DOMAIN batch' :
          /\ batch'[b] = "refused" => Rows(b)' = {} /\ bundles'[b] = {}
          /\ batch'[b] = "made" => Rows(b)' = bundles'[b] /\ Rows(b)' # {} /\ \A ib \in Rows(b)' : ib.client
    BY <1>1, <1>7, <1>16, <1>u DEF BatchInv
  <2>8. QED
    BY <2>4, <2>5, <2>6, <2>7 DEF BatchInv
<1>18. \A u \in Tabs : Funnel(u)' <=> Funnel(u) /\ u # t
  BY <1>11, <1>12
<1>19. AdvInv'
  BY <1>1, <1>7, <1>11, <1>12, <1>18, <1>u DEF AdvInv, Stands
<1>20. FrontInv'
  BY <1>1, <1>11, <1>18, <1>u DEF FrontInv, OneTunnel, OnArgo, Fronted
<1>21. QED
  BY <1>15, <1>17, <1>19, <1>20 DEF IInv

LEMMA HearCreatedKeeps ==
  ASSUME IInv, NEW t \in Tabs, HearCreated(t)
  PROVE  IInv'
<1> DEFINE next == IF ~page[t].creating THEN page[t]
                   ELSE [page[t] EXCEPT !.creating = FALSE, !.step = IF run[t].ok THEN 4 ELSE @]
<1>1. Types /\ BatchInv /\ AdvInv /\ FrontInv
  BY DEF IInv
<1>2. page[t] \in Page /\ Plain(page[t])
  BY <1>1, PageOf
<1>u. UNCHANGED <<world, server>>
  BY DEF HearCreated
<1>3. page' \in [Tabs -> Page] /\ \A u \in Tabs : Plain(page'[u])
  <2>1. page' = [page EXCEPT ![t] = next]
    <3>1. page' = [page EXCEPT ![t] = IF ~page[t].creating THEN page[t]
            ELSE [page[t] EXCEPT !.creating = FALSE, !.step = IF run[t].ok THEN 4 ELSE @]]
      BY <1>1 DEF HearCreated, Types
    <3>2. QED
      BY <3>1
  <2>2. next \in Page /\ Plain(next)
    BY <1>2, StepsAre DEF Page, Plain
  <2> HIDE DEF next
  <2>3. QED
    BY <1>1, <2>1, <2>2 DEF Types
<1>4. run' \in [Tabs -> Runs] /\ run'[t] = NoRun /\ \A u \in Tabs \ {t} : run'[u] = run[u]
  BY <1>1, RunOf, Turned DEF HearCreated
<1>5. \A u \in Tabs : /\ Running(u)' <=> Running(u)
                      /\ Funnel(u)' <=> Funnel(u)
                      /\ Running(u) => run'[u] = run[u]
                      /\ Funnel(u) => run'[u] = run[u]
  <2>1. ~Running(t) /\ ~Funnel(t) /\ ~Running(t)' /\ ~Funnel(t)'
    BY <1>4 DEF HearCreated, Running, Funnel, Under, NoRun
  <2>2. QED
    BY <1>4, <2>1 DEF Running, Funnel
<1>6. Types'
  BY <1>1, <1>3, <1>4, <1>5, <1>u DEF Types, Runs, Running, Asked, OnArgo, world, server, past
<1>7. BatchInv'
  BY <1>1, <1>5, <1>u DEF BatchInv, Holds, Rows, server, past
<1>8. AdvInv' /\ FrontInv'
  BY <1>1, <1>5, <1>u DEF AdvInv, Stands, FrontInv, OneTunnel, Fronted, OnArgo, server, past
<1>9. QED
  BY <1>6, <1>7, <1>8 DEF IInv

LEMMA SystemInfoKeeps ==
  ASSUME IInv, SystemInfoPage \/ UNCHANGED vars
  PROVE  IInv'
<1>1. UNCHANGED <<node, edgeName, server, run, page>> /\ (installed' = TRUE \/ installed' = installed)
  BY DEF SystemInfoPage, InstallXray, vars, world
<1>2. Types'
  BY <1>1 DEF IInv, Types, server, past
<1>3. BatchInv' /\ AdvInv' /\ FrontInv'
  BY <1>1 DEF IInv, BatchInv, Running, Holds, Rows, AdvInv, Stands, Funnel, FrontInv, OneTunnel, server, past
<1>4. QED
  BY <1>2, <1>3 DEF IInv

LEMMA AtMostOne ==
  ASSUME NEW S, \A a, b \in S : a = b
  PROVE  Cardinality(S) <= 1
<1>1. CASE S = {}
  BY <1>1, FS_EmptySet
<1>2. CASE S # {}
  <2>1. PICK a \in S : S = {a}
    BY <1>2
  <2>2. QED
    BY <2>1, FS_Singleton
<1>3. QED
  BY <1>1, <1>2

(***************************************************************************)
(* The states that can be reached                                          *)
(***************************************************************************)
\* What a visit before has left is an inbound like those of the batches.
LEMMA EarlierIs ==
  ASSUME node \in Nodes, NEW ride \in {"direct", "argo"}
  PROVE  /\ Earlier(ride) \in Inbound /\ Earlier(ride).batch = 0 /\ Fronted(Earlier(ride))
         /\ Earlier(ride).client /\ Earlier(ride).listen \in {"127.0.0.1", listenForHost("a4")}
<1> DEFINE p  == CHOOSE x \in Cdn : x \notin Xray
           w  == [proto |-> p, port |-> 0, cdn |-> FALSE, ride |-> ride]
           q  == [host |-> "a4", b |-> 0]
           ib == NewInbound(q, w, DefaultPort[w.proto])
<1>1. p \in Cdn /\ Cdn \subseteq Protos
  BY WizardAssumption DEF WizardAssumption
<1> HIDE DEF p
<1>2. /\ w.proto = p /\ p \in Protos /\ DefaultPort[p] \in Ports /\ Backend[p] \in STRING /\ MaxBatches \in Nat
  BY <1>1, WizardAssumption DEF WizardAssumption, Ports
<1>3. w.cdn = FALSE /\ OnArgo(w) \in BOOLEAN /\ OnEdge(w) = FALSE
  BY <1>1 DEF OnArgo, OnEdge
<1>4. listenForHost("a4") \in Address /\ listenForHost("a4") # "127.0.0.1" /\ hostFamily("a4") \in Families
  BY DEF listenForHost, Address, hostFamily, Families
<1>5. q.host = "a4" /\ q.b = 0
  OBVIOUS
<1> HIDE DEF w, q
<1>6. ib = [proto |-> p, type |-> Backend[p], fam |-> hostFamily("a4"), port |-> DefaultPort[p],
            listen |-> IF OnArgo(w) THEN "127.0.0.1" ELSE listenForHost("a4"),
            argo |-> OnArgo(w), edge |-> FALSE, cdn |-> FALSE, batch |-> 0, client |-> FALSE]
  <2>1. (w.cdn /\ w.proto \in Cdn /\ ~OnArgo(w) /\ ~OnEdge(w)) = FALSE
    BY <1>3
  <2>2. QED
    BY <1>2, <1>3, <1>5, <2>1 DEF NewInbound
<1>7. (IF OnArgo(w) THEN "127.0.0.1" ELSE listenForHost("a4")) \in Address
  BY <1>4 DEF Address
<1>8. 0 \in 0..MaxBatches
  BY <1>2
<1>9. ib \in Inbound /\ ib.batch = 0 /\ ib.cdn = FALSE /\ ib.edge = FALSE /\ ib.argo = OnArgo(w)
      /\ ib.listen = IF OnArgo(w) THEN "127.0.0.1" ELSE listenForHost("a4")
  BY <1>2, <1>3, <1>4, <1>6, <1>7, <1>8 DEF Inbound
<1>10. Earlier(ride) = [ib EXCEPT !.client = TRUE]
  BY DEF Earlier, p, w, q
<1> HIDE DEF ib
<1>11. /\ Earlier(ride) \in Inbound /\ Earlier(ride).batch = 0 /\ Earlier(ride).client
       /\ Earlier(ride).cdn = FALSE /\ Earlier(ride).edge = FALSE /\ Earlier(ride).argo = OnArgo(w)
       /\ Earlier(ride).listen = IF OnArgo(w) THEN "127.0.0.1" ELSE listenForHost("a4")
  BY <1>9, <1>10 DEF Inbound
<1>12. QED
  BY <1>3, <1>4, <1>11 DEF Fronted

LEMMA OpenedAre ==
  ASSUME installed \in BOOLEAN, NEW t, NEW pg \in Opened(t)
  PROVE  pg \in Page /\ Plain(pg)
<1> DEFINE f == Fresh("a4")
<1>1. NoSel \in Sel /\ DOMAIN NoSel = {}
  BY NoneTicked
<1>2. f \in Page /\ f.mode = "choose"
  BY <1>1, StepsAre DEF Fresh, Page
<1> HIDE DEF f
<1>3. \A d \in Domains : LET g == [f EXCEPT !.mode = "full", !.step = 3, !.domain = d, !.verdict = "proxied"]
                         IN  g \in Page /\ g.mode = "full"
  BY <1>2, StepsAre DEF Page, Verdicts
<1>4. PICK g \in {f} \cup {[f EXCEPT !.mode = "full", !.step = 3, !.domain = d, !.verdict = "proxied"] :
                           d \in IF "full" \in Flows[t] THEN Domains ELSE {}} :
        pg = [g EXCEPT !.xray = installed]
  BY DEF Opened, f
<1>5. g \in Page /\ g.mode \in {"choose", "full"}
  BY <1>2, <1>3, <1>4
<1>6. pg \in Page /\ pg.mode = g.mode
  BY <1>4, <1>5 DEF Page
<1>7. QED
  BY <1>5, <1>6 DEF Plain

LEMMA InitHolds == Init => IInv
<1> SUFFICES ASSUME Init PROVE IInv
  OBVIOUS
<1>1. node \in Nodes /\ installed \in BOOLEAN /\ edgeName \in BOOLEAN
  <2>1. PICK w \in Worlds : node = w.node /\ installed = w.installed /\ edgeName = w.edgeName
    BY DEF Init
  <2>2. w \in World
    BY <2>1, WizardAssumption DEF WizardAssumption
  <2>3. QED
    BY <2>1, <2>2 DEF World
<1>2. PICK found \in {{}} \cup {{r} : r \in {"direct", "argo"}} : inbounds = {Earlier(r) : r \in found}
  BY DEF Init
<1>3. \A ib \in inbounds : /\ ib \in Inbound /\ ib.batch = 0 /\ Fronted(ib)
                           /\ \A o \in inbounds : o = ib
  BY <1>1, <1>2, EarlierIs
<1>4. /\ bundles = [b \in 1..MaxBatches |-> {}] /\ adv = 0 /\ batch = <<>> /\ overlapped = FALSE
      /\ run = [t \in Tabs |-> NoRun] /\ page \in [Tabs -> UNION {Opened(t) : t \in Tabs}]
      /\ \A t \in Tabs : page[t] \in Opened(t)
  BY DEF Init
<1>5. \A t \in Tabs : run[t] = NoRun /\ run[t].st = "idle" /\ ~Running(t) /\ ~Funnel(t)
  BY <1>4 DEF NoRun, Running, Funnel, Under
<1>6. page \in [Tabs -> Page] /\ \A t \in Tabs : Plain(page[t])
  <2>1. \A t \in Tabs : page[t] \in Page /\ Plain(page[t])
    BY <1>1, <1>4, OpenedAre
  <2>2. QED
    BY <1>4, <2>1
<1>7. batch \in Seq(Hows) /\ Len(batch) = 0 /\ DOMAIN batch = {} /\ MaxBatches \in Nat
  BY <1>4, WizardAssumption DEF WizardAssumption
<1>8. Types
  <2>1. inbounds \subseteq Inbound /\ bundles \in [1..MaxBatches -> SUBSET Inbound]
    BY <1>3, <1>4
  <2>2. adv \in 0..MaxBatches /\ Len(batch) <= MaxBatches
    BY <1>4, <1>7
  <2>3. run \in [Tabs -> {NoRun} \cup Active \cup Answered] /\ \A t \in Tabs : run[t].st \notin Under
    BY <1>4, <1>5 DEF Under
  <2>4. QED
    BY <1>1, <1>4, <1>6, <1>7, <2>1, <2>2, <2>3 DEF Types
<1>9. BatchInv
  BY <1>3, <1>4, <1>5, <1>7 DEF BatchInv
<1>10. AdvInv
  BY <1>4, <1>5 DEF AdvInv, Stands
<1>11. FrontInv
  BY <1>3, <1>5 DEF FrontInv, OneTunnel
<1>12. QED
  BY <1>8, <1>9, <1>10, <1>11 DEF IInv

LEMMA NextKeeps == IInv /\ [Next]_vars => IInv'
<1> SUFFICES ASSUME IInv, [Next]_vars PROVE IInv'
  OBVIOUS
<1>1. ASSUME NEW t \in Tabs, Operator(t) PROVE IInv'
  <2>1. CASE \/ Refetch(t) \/ PickFull(t) \/ BackToModes(t) \/ \E h \in Hosts : ChooseHost(t, h)
             \/ \E s \in Quick, ticked \in BOOLEAN : PickQuick(t, s, ticked)
    BY <2>1, ModesKeep
  <2>2. CASE \/ Validate(t) \/ Skip(t) \/ NextStep(t) \/ BackStep(t) \/ Another(t) \/ HearVerdict(t)
             \/ \E d \in Domains : SetDomain(t, d)
    BY <2>2, StepsKeep
  <2>3. CASE \/ SelectAll(t)
             \/ \E p \in Protos : Toggle(t, p) \/ (\E n \in Typed \cup Whitelist : SetPort(t, p, n))
             \/ \E p \in Protos : SetCdn(t, p) \/ (\E r \in Rides : SetRide(t, p, r))
    BY <2>3, RowsKeep
  <2>4. CASE Create(t) /\ page[t].mode \in {"full", "quick"}
    BY <2>4, CreateKeeps
  <2>5. QED
    BY <1>1, <2>1, <2>2, <2>3, <2>4 DEF Operator, QuickFlow, FullFlow, Step3Protocols, Rows3
<1>2. ASSUME NEW t \in Tabs, Service(t) PROVE IInv'
  BY <1>2, GuardsKeep, ReadPortsKeep, CreateSubscriptionKeeps, CreateInboundKeeps, CreateClientKeeps DEF Service
<1>3. ASSUME NEW t \in Tabs, HearVerdict(t) PROVE IInv'
  BY <1>3, StepsKeep
<1>4. ASSUME NEW t \in Tabs, HearCreated(t) PROVE IInv'
  BY <1>4, HearCreatedKeeps
<1>5. CASE SystemInfoPage \/ UNCHANGED vars
  BY <1>5, SystemInfoKeeps
<1>6. CASE Crash
  BY <1>6, CrashKeeps
<1>7. QED
  BY <1>1, <1>2, <1>3, <1>4, <1>5, <1>6 DEF Next

LEMMA Invariance == Spec => []IInv
<1>1. Init => IInv
  BY InitHolds
<1>2. IInv /\ [Next]_vars => IInv'
  BY NextKeeps
<1>3. QED
  BY <1>1, <1>2, PTL DEF Spec

(***************************************************************************)
(* The sockets                                                             *)
(***************************************************************************)
LEMMA ShownHost ==
  ASSUME Types, NEW t \in Tabs, NEW next, page' = [page EXCEPT ![t] = next],
         next.host \in {page[t].host} \cup Hosts
  PROVE  \A u \in Tabs : page'[u].host \in {page[u].host} \cup Hosts
BY DEF Types

\* A page takes the addresses of the node it was opened on.
LEMMA HostChosen ==
  ASSUME Types, NEW t \in Tabs, Operator(t) \/ HearVerdict(t), ~Create(t)
  PROVE  /\ UNCHANGED <<world, server, run>>
         /\ \A u \in Tabs : page'[u].host \in {page[u].host} \cup Hosts
<1> DEFINE Fine == /\ UNCHANGED <<world, server, run>>
                   /\ \A u \in Tabs : page'[u].host \in {page[u].host} \cup Hosts
<1>1. page[t] \in Page /\ page[t].host \in {page[t].host} \cup Hosts
  BY PageOf
<1>2. ASSUME NEW next, Shown(t, next), next.host \in {page[t].host} \cup Hosts PROVE Fine
  BY <1>2, ShownHost DEF Shown
<1>3. ASSUME Refetch(t) PROVE Fine
  <2>1. Snapshot(page[t]).host = page[t].host
    BY <1>1 DEF Snapshot, Page
  <2>2. QED
    BY <1>1, <1>3, <2>1, ShownHost DEF Refetch
<1>4. ASSUME NEW h \in Hosts, ChooseHost(t, h) PROVE Fine
  <2>1. [page[t] EXCEPT !.host = h].host = h
    BY <1>1 DEF Page
  <2> HIDE DEF Fine
  <2>2. QED
    BY <1>2, <1>4, <2>1 DEF ChooseHost
<1>5. ASSUME PickFull(t) PROVE Fine
  <2>1. [page[t] EXCEPT !.mode = "full", !.step = 1].host = page[t].host
    BY <1>1 DEF Page
  <2> HIDE DEF Fine
  <2>2. QED
    BY <1>1, <1>2, <1>5, <2>1 DEF PickFull
<1>6. ASSUME NEW s \in Quick, NEW ticked \in BOOLEAN, PickQuick(t, s, ticked) PROVE Fine
  <2> DEFINE sel == IF ticked THEN [p \in s |-> newSelection(t, p, FALSE)] ELSE NoSel
             next == [page[t] EXCEPT !.mode = "quick", !.step = 3, !.seed = s, !.sel = sel]
  <2>1. Shown(t, next)
    BY <1>6 DEF PickQuick
  <2> HIDE DEF sel, Fine
  <2>2. next.host = page[t].host
    BY <1>1 DEF Page
  <2> HIDE DEF next
  <2>3. QED
    BY <1>1, <1>2, <2>1, <2>2
<1>7. ASSUME BackToModes(t) PROVE Fine
  <2> DEFINE f == Fresh(page[t].host)
             next == [f EXCEPT !.ports = page[t].ports, !.argo = page[t].argo, !.xray = page[t].xray]
  <2>1. next.host = page[t].host
    BY DEF Fresh
  <2>2. Shown(t, next)
    BY <1>7 DEF BackToModes
  <2> HIDE DEF next, Fine
  <2>3. QED
    BY <1>1, <1>2, <2>1, <2>2
<1>8. ASSUME NEW d \in Domains, SetDomain(t, d) PROVE Fine
  <2>1. [page[t] EXCEPT !.domain = d].host = page[t].host
    BY <1>1 DEF Page
  <2> HIDE DEF Fine
  <2>2. QED
    BY <1>1, <1>2, <1>8, <2>1 DEF SetDomain
<1>9. ASSUME Validate(t) PROVE Fine
  <2>1. [page[t] EXCEPT !.asked = TRUE].host = page[t].host
    BY <1>1 DEF Page
  <2> HIDE DEF Fine
  <2>2. QED
    BY <1>1, <1>2, <1>9, <2>1 DEF Validate
<1>10. ASSUME HearVerdict(t) PROVE Fine
  <2>1. PICK v : Shown(t, [page[t] EXCEPT !.asked = FALSE, !.verdict = v])
    BY <1>10 DEF HearVerdict
  <2>2. [page[t] EXCEPT !.asked = FALSE, !.verdict = v].host = page[t].host
    BY <1>1 DEF Page
  <2> HIDE DEF Fine
  <2>3. QED
    BY <1>1, <1>2, <2>1, <2>2
<1>11. ASSUME Skip(t) PROVE Fine
  <2>1. [page[t] EXCEPT !.domain = "", !.verdict = "plain", !.step = 2].host = page[t].host
    BY <1>1 DEF Page
  <2> HIDE DEF Fine
  <2>2. QED
    BY <1>1, <1>2, <1>11, <2>1 DEF Skip
<1>12. ASSUME NextStep(t) \/ BackStep(t) PROVE Fine
  <2>1. ASSUME NEW n PROVE [page[t] EXCEPT !.step = n].host = page[t].host
    BY <1>1 DEF Page
  <2>2. PICK n : Shown(t, [page[t] EXCEPT !.step = n])
    BY <1>12 DEF NextStep, BackStep
  <2> HIDE DEF Fine
  <2>3. QED
    BY <1>1, <1>2, <2>1, <2>2
<1>13. ASSUME Another(t) PROVE Fine
  <2>1. PICK n : Shown(t, [page[t] EXCEPT !.step = n, !.domain = "", !.verdict = "unset", !.sel = NoSel])
    BY <1>13 DEF Another
  <2>2. [page[t] EXCEPT !.step = n, !.domain = "", !.verdict = "unset", !.sel = NoSel].host = page[t].host
    BY <1>1 DEF Page
  <2> HIDE DEF Fine
  <2>3. QED
    BY <1>1, <1>2, <2>1, <2>2
<1>14. ASSUME NEW sel, Shown(t, [page[t] EXCEPT !.sel = sel]) PROVE Fine
  <2>1. [page[t] EXCEPT !.sel = sel].host = page[t].host
    BY <1>1 DEF Page
  <2> HIDE DEF Fine
  <2>2. QED
    BY <1>1, <1>2, <1>14, <2>1
<1>15. ASSUME SelectAll(t) PROVE Fine
  <2>1. PICK sel : Shown(t, [page[t] EXCEPT !.sel = sel])
    BY <1>15 DEF SelectAll
  <2> HIDE DEF Fine
  <2>2. QED
    BY <1>14, <2>1
<1>16. ASSUME NEW p \in Protos, Toggle(t, p) PROVE Fine
  <2>1. PICK sel : Shown(t, [page[t] EXCEPT !.sel = sel])
    BY <1>16 DEF Toggle
  <2> HIDE DEF Fine
  <2>2. QED
    BY <1>14, <2>1
<1>17. ASSUME NEW p \in Protos, NEW n, SetPort(t, p, n) PROVE Fine
  <2>1. Shown(t, [page[t] EXCEPT !.sel = [page[t].sel EXCEPT ![p].port = n]])
    BY <1>1, <1>17 DEF SetPort, Page
  <2> HIDE DEF Fine
  <2>2. QED
    BY <1>14, <2>1
<1>18. ASSUME NEW p \in Protos, SetCdn(t, p) PROVE Fine
  <2>1. Shown(t, [page[t] EXCEPT !.sel = [page[t].sel EXCEPT ![p].cdn = ~@]])
    BY <1>1, <1>18 DEF SetCdn, Page
  <2> HIDE DEF Fine
  <2>2. QED
    BY <1>14, <2>1
<1>19. ASSUME NEW p \in Protos, NEW r \in Rides, SetRide(t, p, r) PROVE Fine
  <2>1. Shown(t, [page[t] EXCEPT !.sel = [page[t].sel EXCEPT ![p].ride = r, ![p].cdn = IF r = "edge" THEN FALSE ELSE @]])
    BY <1>1, <1>19 DEF SetRide, Page
  <2> HIDE DEF Fine
  <2>2. QED
    BY <1>14, <2>1
<1> HIDE DEF Fine
<1>20. Fine
  BY <1>3, <1>4, <1>5, <1>6, <1>7, <1>8, <1>9, <1>10, <1>11, <1>12, <1>13, <1>15, <1>16, <1>17, <1>18, <1>19
  DEF Operator, QuickFlow, FullFlow, Step3Protocols, Rows3
<1>21. QED
  BY <1>20 DEF Fine

\* A step that makes no inbound and reads no ports.
LEMMA SockKept ==
  ASSUME SockInv, UNCHANGED <<node, edgeName>>, inbounds' \subseteq inbounds,
         overlapped => overlapped', crowded => crowded',
         \A u \in Tabs : page'[u].host \in {page[u].host} \cup Hosts,
         \A u \in Tabs : Running(u)' => run'[u].host \in Hosts,
         \A u \in Tabs : run'[u].st = "creating" => run[u].st = "creating" /\ run'[u].used = run[u].used
  PROVE  SockInv'
<1>1. Hosts' = Hosts
  BY DEF Hosts
<1>2. Listeners' = Listeners
  BY <1>1 DEF Listeners, listenForHost
<1>3. Sparse' => Sparse
  BY DEF Sparse
<1>4. QED
  BY <1>1, <1>2, <1>3 DEF SockInv

\* No two listeners share a socket, and on a node with the wildcard only the new
\* one has a port that none of the others has.
LEMMA SockGrown ==
  ASSUME SockInv, UNCHANGED <<node, edgeName, overlapped, page>>, crowded => crowded',
         NEW t \in Tabs, NEW ib, inbounds' = inbounds \cup {ib},
         \A o \in inbounds : ~(o.listen = ib.listen /\ o.port = ib.port),
         ib.listen \in Listeners,
         Sparse' => \A o \in inbounds : o.port # ib.port,
         \A u \in Tabs \ {t} : run'[u] = run[u],
         run'[t].host = run[t].host, run'[t].used = run[t].used \cup {ib.port}, run[t].st = "creating",
         Sparse' => \A u \in Tabs \ {t} : run[u].st # "creating"
  PROVE  SockInv'
<1>1. Hosts' = Hosts
  BY DEF Hosts
<1>2. Listeners' = Listeners
  BY <1>1 DEF Listeners, listenForHost
<1>3. Sparse' => Sparse
  BY DEF Sparse
<1>4. \A u \in Tabs : page'[u].host \in Hosts' /\ (Running(u)' => run'[u].host \in Hosts')
  BY <1>1 DEF SockInv, Running, Under
<1>5. \A i, j \in inbounds' : i.listen = j.listen /\ i.port = j.port => i = j
  BY DEF SockInv
<1>6. node' # "nat" => \A o \in inbounds' : o.listen \in Listeners'
  BY <1>2 DEF SockInv
<1>7. ASSUME Sparse'
      PROVE  /\ \A i, j \in inbounds' : i.port = j.port => i = j
             /\ \A u \in Tabs : run'[u].st = "creating" => \A o \in inbounds' : o.port \in run'[u].used
  BY <1>3, <1>7 DEF SockInv
<1>8. QED
  BY <1>4, <1>5, <1>6, <1>7 DEF SockInv

LEMMA EndHosts ==
  ASSUME IInv, SockInv, NEW t \in Tabs, Running(t), NEW how \in Hows, End(t, how)
  PROVE  /\ \A u \in Tabs : Running(u)' => run'[u].host \in Hosts
         /\ \A u \in Tabs : run'[u].st = "creating" => run[u].st = "creating" /\ run'[u].used = run[u].used
<1>1. Types /\ run[t].b \in DOMAIN batch
  BY DEF IInv, BatchInv, Holds
<1>2. /\ run'[t] = [st |-> "answered", b |-> run[t].b, ok |-> how = "made"] /\ ~Running(t)'
      /\ \A u \in Tabs \ {t} : run'[u] = run[u]
  BY <1>1, Ended
<1>3. run'[t].st = "answered"
  BY <1>2
<1>4. \A u \in Tabs \ {t} : Running(u)' => Running(u)
  BY <1>2 DEF Running
<1>5. QED
  BY <1>2, <1>3, <1>4 DEF SockInv

\* Whoever ends, with an answer or an error, has made no inbound in that step.
LEMMA SockEnds ==
  ASSUME IInv, SockInv, NEW t \in Tabs, Running(t), NEW how \in Hows, End(t, how),
         UNCHANGED <<world, past, page>>, inbounds' \subseteq inbounds
  PROVE  SockInv'
<1>1. /\ \A u \in Tabs : Running(u)' => run'[u].host \in Hosts
      /\ \A u \in Tabs : run'[u].st = "creating" => run[u].st = "creating" /\ run'[u].used = run[u].used
  BY EndHosts
<1>2. UNCHANGED <<node, edgeName, overlapped, crowded, page>>
  BY DEF world, past
<1>3. \A u \in Tabs : page'[u].host \in {page[u].host} \cup Hosts
  BY <1>2
<1>4. QED
  BY <1>1, <1>2, <1>3, SockKept

LEMMA GuardsSockets ==
  ASSUME IInv, SockInv, NEW t \in Tabs, Guards(t)
  PROVE  SockInv'
<1> DEFINE q == run[t]
<1>0. q.st = "sent" /\ UNCHANGED <<world, inbounds, crowded, page>>
  BY DEF Guards
<1>1. Running(t) /\ Types
  BY <1>0 DEF Running, Under, IInv
<1>2. q \in Active
  BY <1>1, RunOf
<1>3. CASE Refused(q)
  <2>1. End(t, "refused") /\ UNCHANGED past
    BY <1>0, <1>3 DEF Guards, past
  <2>2. QED
    BY <1>0, <1>1, <2>1, SockEnds DEF Hows
<1>4. CASE ~Refused(q)
  <2>1. PICK over : run' = [run EXCEPT ![t].st = "issuing", ![t].before = adv, ![t].over = over]
    BY <1>4 DEF Guards
  <2>2. overlapped => overlapped'
    BY <1>4 DEF Guards
  <2>3. run'[t].st = "issuing" /\ run'[t].host = q.host /\ \A u \in Tabs \ {t} : run'[u] = run[u]
    BY <1>1, <1>2, <2>1 DEF Types, Active
  <2>4. \A u \in Tabs : Running(u)' => run'[u].host \in Hosts
    BY <1>1, <2>3 DEF Running, SockInv
  <2>5. \A u \in Tabs : run'[u].st = "creating" => run[u].st = "creating" /\ run'[u].used = run[u].used
    BY <2>3
  <2>6. UNCHANGED <<node, edgeName>> /\ (crowded => crowded') /\ inbounds' \subseteq inbounds
        /\ \A u \in Tabs : page'[u].host \in {page[u].host} \cup Hosts
    BY <1>0 DEF world
  <2>7. QED
    BY <2>2, <2>4, <2>5, <2>6, SockKept
<1>5. QED
  BY <1>3, <1>4

\* The list is of one family, which on a node with IPv4 only is everything.
LEMMA ReadPortsSockets ==
  ASSUME IInv, SockInv, NEW t \in Tabs, ReadPorts(t)
  PROVE  SockInv'
<1> DEFINE ports == UsedPorts(inbounds, hostFamily(run[t].host))
<1>0. run[t].st = "issuing" /\ run' = [run EXCEPT ![t].st = "creating", ![t].used = ports]
      /\ UNCHANGED <<world, server, page>>
  BY DEF ReadPorts
<1>1. Running(t) /\ Funnel(t) /\ Types
  BY <1>0 DEF Running, Funnel, Under, IInv
<1>2. run[t] \in Active /\ run[t].host \in Hosts
  BY <1>1, RunOf DEF SockInv
<1> HIDE DEF ports
<1>3. run'[t].used = ports /\ run'[t].host = run[t].host /\ \A u \in Tabs \ {t} : run'[u] = run[u]
  BY <1>0, <1>1, <1>2 DEF Types, Active
<1>4. UNCHANGED <<node, edgeName, inbounds, overlapped, crowded, page>>
  BY <1>0 DEF world, server, past
<1>5. Hosts' = Hosts
  BY <1>4 DEF Hosts
<1>6. Listeners' = Listeners
  BY <1>4, <1>5 DEF Listeners, listenForHost
<1>7. Sparse' = Sparse
  BY <1>4 DEF Sparse
<1>8. ASSUME Sparse PROVE \A ib \in inbounds : ib.port \in ports
  <2>1. Hosts = {"a4"} /\ listenForHost("a4") = "0.0.0.0"
    BY <1>8 DEF Sparse, Hosts, listenForHost
  <2>2. hostFamily(run[t].host) = "v4"
    BY <1>2, <2>1 DEF hostFamily
  <2>3. Listeners = {"127.0.0.1", "0.0.0.0"}
    BY <2>1 DEF Listeners
  <2>4. \A ib \in inbounds : ib.listen \in {"127.0.0.1", "0.0.0.0"}
    BY <1>8, <2>3 DEF SockInv, Sparse
  <2>5. \A ib \in inbounds : hostFamily(ib.listen) = "v4"
    BY <2>4 DEF hostFamily
  <2>6. QED
    BY <2>2, <2>5 DEF ports, UsedPorts
<1>9. \A u \in Tabs : Running(u)' => run'[u].host \in Hosts'
  <2>1. \A u \in Tabs \ {t} : Running(u)' => Running(u)
    BY <1>3 DEF Running
  <2>2. QED
    BY <1>2, <1>3, <1>5, <2>1 DEF SockInv
<1>10. Sparse' => /\ \A i, j \in inbounds' : i.port = j.port => i = j
                  /\ \A u \in Tabs : run'[u].st = "creating" => \A ib \in inbounds' : ib.port \in run'[u].used
  BY <1>3, <1>4, <1>7, <1>8 DEF SockInv
<1>11. QED
  BY <1>4, <1>5, <1>6, <1>9, <1>10 DEF SockInv

LEMMA CreateInboundSockets ==
  ASSUME IInv, SockInv, NEW t \in Tabs, run[t].st = "creating", NEW w \in run[t].todo, CreateInbound(t, w)
  PROVE  SockInv'
<1> DEFINE q    == run[t]
           port == pickFreePort(IF w.port = 0 THEN DefaultPort[w.proto] ELSE w.port, q.used)
           ib   == NewInbound(q, w, port)
<1>1. Running(t) /\ Funnel(t) /\ Types
  BY DEF Running, Funnel, Under, IInv
<1>2. q \in Active /\ q.host \in Hosts
  BY <1>1, RunOf DEF SockInv
<1>u. UNCHANGED <<world, bundles, overlapped, page>>
  BY DEF CreateInbound
<1>3. CASE Rollback(t, inbounds) /\ End(t, "refused") /\ UNCHANGED crowded
  <2>1. inbounds' \subseteq inbounds /\ UNCHANGED <<world, past, page>>
    BY <1>3, <1>u DEF Rollback, past
  <2>2. QED
    BY <1>1, <1>3, <2>1, SockEnds DEF Hows
<1>4. CASE /\ ~Clash(ib) /\ inbounds' = inbounds \cup {ib}
           /\ run' = [run EXCEPT ![t].todo = @ \ {w}, ![t].used = @ \cup {port}, ![t].made = @ \cup {ib}]
           /\ crowded' = (crowded \/ port \in q.used)
  <2> HIDE DEF port
  <2>1. ib.port = port /\ ib.listen = IF OnArgo(w) \/ OnEdge(w) THEN "127.0.0.1" ELSE listenForHost(q.host)
    BY DEF NewInbound
  <2> HIDE DEF ib
  <2>2. \A o \in inbounds : ~(o.listen = ib.listen /\ o.port = ib.port)
    BY <1>4 DEF Clash
  <2>3. ib.listen \in Listeners
    BY <1>2, <2>1 DEF Listeners
  <2>4. /\ run'[t].host = q.host /\ run'[t].used = q.used \cup {ib.port}
        /\ \A u \in Tabs \ {t} : run'[u] = run[u]
    BY <1>1, <1>2, <1>4, <2>1 DEF Types, Active
  <2>5. UNCHANGED <<node, edgeName, overlapped, page>> /\ (crowded => crowded')
    BY <1>4, <1>u DEF world
  <2>6. ASSUME Sparse' PROVE /\ \A o \in inbounds : o.port # ib.port
                             /\ \A u \in Tabs \ {t} : run[u].st # "creating"
    <3>1. Sparse /\ port \notin q.used /\ ~overlapped
      BY <1>4, <2>5, <2>6 DEF Sparse
    <3>2. \A o \in inbounds : o.port \in q.used
      BY <3>1 DEF SockInv
    <3>3. \A u \in Tabs : Funnel(u) => u = t
      BY <1>1, <3>1 DEF IInv, AdvInv
    <3>4. QED
      BY <2>1, <3>1, <3>2, <3>3 DEF Funnel
  <2>7. QED
    BY <1>4, <2>2, <2>3, <2>4, <2>5, <2>6, SockGrown
<1>5. QED
  BY <1>3, <1>4 DEF CreateInbound

LEMMA CreateClientSockets ==
  ASSUME IInv, SockInv, NEW t \in Tabs, NEW ib \in run[t].made, CreateClient(t, ib)
  PROVE  SockInv'
<1> DEFINE q    == run[t]
           with == [ib EXCEPT !.client = TRUE]
<1>0. q.st = "creating" /\ UNCHANGED <<world, past, page>>
  BY DEF CreateClient
<1>1. Running(t) /\ Types
  BY <1>0 DEF Running, Under, IInv
<1>2. q \in Active /\ ib \in inbounds /\ ib \in Inbound
  BY <1>1, RunOf DEF IInv, BatchInv, Holds, Rows, Types
<1>3. CASE Rollback(t, inbounds) /\ End(t, "refused")
  <2>1. inbounds' \subseteq inbounds
    BY <1>3 DEF Rollback
  <2>2. QED
    BY <1>0, <1>1, <1>3, <2>1, SockEnds DEF Hows
<1>4. CASE /\ inbounds' = (inbounds \ {ib}) \cup {with}
           /\ run' = [run EXCEPT ![t].made = (@ \ {ib}) \cup {with}]
  <2>1. with.port = ib.port /\ with.listen = ib.listen
    BY <1>2 DEF Inbound
  <2> HIDE DEF with
  <2>2. \A u \in Tabs : run'[u].host = run[u].host /\ run'[u].used = run[u].used /\ run'[u].st = run[u].st
    BY <1>1, <1>2, <1>4 DEF Types, Active
  <2>3. UNCHANGED <<node, edgeName, overlapped, crowded, page>>
    BY <1>0 DEF world, past
  <2>4. Hosts' = Hosts /\ Sparse' = Sparse
    BY <2>3 DEF Hosts, Sparse
  <2>5. Listeners' = Listeners
    BY <2>3, <2>4 DEF Listeners, listenForHost
  <2>6. \A u \in Tabs : page'[u].host \in Hosts' /\ (Running(u)' => run'[u].host \in Hosts')
    BY <2>2, <2>3, <2>4 DEF SockInv, Running
  <2>7. \A i \in inbounds' : i = with \/ (i \in inbounds /\ i # ib)
    BY <1>4
  <2>8. \A i, j \in inbounds' : i.listen = j.listen /\ i.port = j.port => i = j
    BY <1>2, <2>1, <2>7 DEF SockInv
  <2>9. node' # "nat" => \A o \in inbounds' : o.listen \in Listeners'
    BY <1>2, <2>1, <2>3, <2>5, <2>7 DEF SockInv
  <2>10. ASSUME Sparse'
         PROVE  /\ \A i, j \in inbounds' : i.port = j.port => i = j
                /\ \A u \in Tabs : run'[u].st = "creating" => \A o \in inbounds' : o.port \in run'[u].used
    BY <1>2, <2>1, <2>2, <2>4, <2>7, <2>10 DEF SockInv
  <2>11. QED
    BY <2>6, <2>8, <2>9, <2>10 DEF SockInv
<1>5. QED
  BY <1>3, <1>4 DEF CreateClient

LEMMA ServiceSockets ==
  ASSUME IInv, SockInv, NEW t \in Tabs, Service(t)
  PROVE  SockInv'
<1>1. CASE CreateSubscription(t)
  <2>1. Running(t) /\ UNCHANGED <<world, past, page>>
    BY <1>1 DEF CreateSubscription, Running, Under
  <2>2. \/ End(t, "made") /\ inbounds' \subseteq inbounds
        \/ End(t, "refused") /\ inbounds' \subseteq inbounds
    BY <1>1 DEF CreateSubscription, Rollback
  <2>3. QED
    BY <2>1, <2>2, SockEnds DEF Hows
<1>2. QED
  BY <1>1, GuardsSockets, ReadPortsSockets, CreateInboundSockets, CreateClientSockets DEF Service

LEMMA OtherSockets ==
  ASSUME IInv, SockInv,
         \/ \E t \in Tabs : Operator(t) \/ HearVerdict(t) \/ HearCreated(t)
         \/ SystemInfoPage \/ Crash \/ UNCHANGED vars
  PROVE  SockInv'
<1>t. Types
  BY DEF IInv
<1>1. ASSUME NEW t \in Tabs, Operator(t) \/ HearVerdict(t), ~Create(t) PROVE SockInv'
  <2>1. /\ UNCHANGED <<world, server, run>>
        /\ \A u \in Tabs : page'[u].host \in {page[u].host} \cup Hosts
    BY <1>t, <1>1, HostChosen
  <2>2. \A u \in Tabs : Running(u)' => run'[u].host \in Hosts
    BY <2>1 DEF SockInv, Running
  <2>3. QED
    BY <2>1, <2>2, SockKept DEF world, server, past
<1>2. ASSUME NEW t \in Tabs, Create(t) PROVE SockInv'
  <2>1. PICK r : r.st = "sent" /\ r.host = page[t].host /\ run' = [run EXCEPT ![t] = r]
    <3> DEFINE r == [st |-> "sent", b |-> Len(batch) + 1, host |-> page[t].host, domain |-> page[t].domain,
                     full |-> page[t].mode = "full",
                     todo |-> Wanted(t), before |-> 0, over |-> FALSE, used |-> {}, made |-> {}]
    <3>1. run' = [run EXCEPT ![t] = r]
      BY <1>2 DEF Create
    <3>2. r.st = "sent" /\ r.host = page[t].host
      OBVIOUS
    <3> HIDE DEF r
    <3>3. QED
      BY <3>1, <3>2
  <2>2. run'[t] = r /\ \A u \in Tabs \ {t} : run'[u] = run[u]
    BY <1>t, <2>1 DEF Types
  <2>3. \A u \in Tabs : Running(u)' => run'[u].host \in Hosts
    BY <2>1, <2>2 DEF SockInv, Running
  <2>4. \A u \in Tabs : run'[u].st = "creating" => run[u].st = "creating" /\ run'[u].used = run[u].used
    BY <2>1, <2>2
  <2>5. page' = [page EXCEPT ![t].creating = TRUE] /\ UNCHANGED <<world, inbounds, past>>
    BY <1>2 DEF Create
  <2>6. \A u \in Tabs : page'[u].host = page[u].host
    BY <1>t, <2>5 DEF Types, Page
  <2>7. QED
    BY <2>3, <2>4, <2>5, <2>6, SockKept DEF world, past
<1>3. ASSUME NEW t \in Tabs, HearCreated(t) PROVE SockInv'
  <2>1. run'[t] = NoRun /\ \A u \in Tabs \ {t} : run'[u] = run[u]
    BY <1>t, <1>3, RunOf, Turned DEF HearCreated
  <2>2. run'[t].st = "idle"
    BY <2>1 DEF NoRun
  <2>3. \A u \in Tabs : Running(u)' => run'[u].host \in Hosts
    BY <2>1, <2>2 DEF SockInv, Running, Under
  <2>4. \A u \in Tabs : run'[u].st = "creating" => run[u].st = "creating" /\ run'[u].used = run[u].used
    BY <2>1, <2>2
  <2>5. page' = [page EXCEPT ![t] = IF ~page[t].creating THEN page[t]
                   ELSE [page[t] EXCEPT !.creating = FALSE, !.step = IF run[t].ok THEN 4 ELSE @]]
    BY <1>t, <1>3 DEF HearCreated, Types
  <2>6. \A u \in Tabs : page'[u].host = page[u].host
    BY <1>t, <2>5 DEF Types, Page
  <2>7. UNCHANGED <<world, inbounds, past>>
    BY <1>3 DEF HearCreated, server
  <2>8. QED
    BY <2>3, <2>4, <2>6, <2>7, SockKept DEF world, past
<1>4. CASE SystemInfoPage \/ UNCHANGED vars
  <2>1. UNCHANGED <<node, edgeName, inbounds, overlapped, crowded, run, page>>
    BY <1>4 DEF SystemInfoPage, InstallXray, vars, world, server, past
  <2>2. \A u \in Tabs : Running(u)' => run'[u].host \in Hosts
    BY <2>1 DEF SockInv, Running
  <2>3. QED
    BY <2>1, <2>2, SockKept
<1>5. CASE Crash
  <2>1. UNCHANGED <<world, inbounds, past, page>>
    BY <1>5 DEF Crash
  <2>2. \A u \in Tabs : run'[u] = IF run[u] = NoRun \/ run[u].st = "answered" THEN run[u]
                                  ELSE [st |-> "answered", b |-> run[u].b, ok |-> FALSE]
    BY <1>5 DEF Crash
  <2>3. \A u \in Tabs : run'[u].st \notin Under
    <3> TAKE u \in Tabs
    <3>0. NoRun.st = "idle" /\ "idle" \notin Under /\ "answered" \notin Under
      BY DEF NoRun, Under
    <3>1. CASE run[u] = NoRun \/ run[u].st = "answered"
      BY <2>2, <3>0, <3>1
    <3>2. CASE ~(run[u] = NoRun \/ run[u].st = "answered")
      <4>1. run'[u] = [st |-> "answered", b |-> run[u].b, ok |-> FALSE]
        BY <2>2, <3>2
      <4>2. run'[u].st = "answered"
        BY <4>1
      <4>3. QED
        BY <3>0, <4>2
    <3>3. QED
      BY <3>1, <3>2
  <2>4. QED
    BY <2>1, <2>3, SockKept DEF world, past, Running, Under
<1>6. QED
  BY <1>1, <1>2, <1>3, <1>4, <1>5

SockAll == IInv /\ SockInv

LEMMA SockInit == Init => SockAll
<1> SUFFICES ASSUME Init PROVE SockInv
  BY InitHolds DEF SockAll
<1>1. node \in Nodes
  BY InitHolds DEF IInv, Types
<1>2. PICK found \in {{}} \cup {{r} : r \in {"direct", "argo"}} : inbounds = {Earlier(r) : r \in found}
  BY DEF Init
<1>3. \A ib, o \in inbounds : o = ib
  BY <1>2
<1>4. "a4" \in Hosts
  BY DEF Hosts
<1>5. \A r \in {"direct", "argo"} : Earlier(r).listen \in Listeners
  <2> TAKE r \in {"direct", "argo"}
  <2>1. Earlier(r).listen \in {"127.0.0.1", listenForHost("a4")}
    BY <1>1, EarlierIs
  <2>2. QED
    BY <1>4, <2>1 DEF Listeners
<1>6. \A ib \in inbounds : ib.listen \in Listeners
  BY <1>2, <1>5
<1>7. \A t \in Tabs : page[t].host = "a4"
  <2> TAKE t \in Tabs
  <2>1. page[t] \in Opened(t)
    BY DEF Init
  <2> DEFINE f == Fresh("a4")
  <2>2. f.host = "a4"
    BY DEF Fresh
  <2>3. PICK g \in {f} \cup {[f EXCEPT !.mode = "full", !.step = 3, !.domain = d, !.verdict = "proxied"] :
                           d \in IF "full" \in Flows[t] THEN Domains ELSE {}} :
          page[t] = [g EXCEPT !.xray = installed]
    BY <2>1 DEF Opened
  <2>4. g.host = "a4" /\ page[t].host = g.host
    BY <2>2, <2>3 DEF Fresh
  <2>5. QED
    BY <2>4
<1>8. \A t \in Tabs : ~Running(t) /\ run[t].st = "idle"
  BY DEF Init, NoRun, Running, Under
<1>9. QED
  BY <1>3, <1>4, <1>6, <1>7, <1>8 DEF SockInv

LEMMA SockNext == SockAll /\ [Next]_vars => SockAll'
<1> SUFFICES ASSUME IInv, SockInv, [Next]_vars PROVE IInv' /\ SockInv'
  BY DEF SockAll
<1>1. IInv'
  BY NextKeeps
<1>2. ASSUME NEW t \in Tabs, Service(t) PROVE SockInv'
  BY <1>2, ServiceSockets
<1>3. ASSUME NEW t \in Tabs, Operator(t) \/ HearVerdict(t) \/ HearCreated(t) PROVE SockInv'
  BY <1>3, OtherSockets
<1>4. ASSUME SystemInfoPage \/ Crash \/ UNCHANGED vars PROVE SockInv'
  BY <1>4, OtherSockets
<1>5. QED
  BY <1>1, <1>2, <1>3, <1>4 DEF Next

(***************************************************************************)
(* The theorems                                                            *)
(***************************************************************************)
\* The database, the requests under way and the pages keep their shapes: a
\* request has a batch of its own, its ports are ones that may be bound once it
\* is past the checks, and the quick form never asks for the tunnel
\* (CreateFromFunnel, the wizard's pages).
THEOREM WizardTypes == Spec => []Types
<1>1. IInv => Types
  BY DEF IInv
<1>2. QED
  BY <1>1, Invariance, PTL

\* Whatever the protocols, the ports and the pages, a funnel that answers with
\* an error has left nothing behind, and one that answers with a result has made
\* the whole of its subscription (CreateFromFunnel and its rollback).
THEOREM NothingByHalves == Spec => []AllOrNothing
<1>1. IInv => AllOrNothing
  <2> SUFFICES ASSUME IInv, NEW b \in DOMAIN batch
               PROVE  /\ batch[b] = "refused" => Rows(b) = {} /\ bundles[b] = {} /\ (adv # b \/ overlapped)
                      /\ batch[b] = "made" => Rows(b) = bundles[b] /\ Rows(b) # {} /\ \A ib \in Rows(b) : ib.client
    BY DEF AllOrNothing
  <2>1. /\ batch[b] = "refused" => Rows(b) = {} /\ bundles[b] = {}
        /\ batch[b] = "made" => Rows(b) = bundles[b] /\ Rows(b) # {} /\ \A ib \in Rows(b) : ib.client
    BY DEF IInv, BatchInv
  <2>2. ASSUME batch[b] = "refused", ~overlapped PROVE adv # b
    <3>1. ~Stands(b)
      <4>1. b # 0
        BY DEF IInv, Types
      <4>2. QED
        BY <2>2, <4>1 DEF Stands
    <3>2. \A t \in Tabs : Funnel(t) => batch[run[t].b] = "running"
      BY RunOf DEF IInv, BatchInv, Holds
    <3>3. Stands(adv) \/ \E t \in Tabs : Funnel(t) /\ run[t].b = adv
      BY <2>2 DEF IInv, AdvInv
    <3>4. QED
      BY <2>2, <3>1, <3>2, <3>3
  <2>3. QED
    BY <2>1, <2>2
<1>2. QED
  BY <1>1, Invariance, PTL

\* Whatever the protocols and however old the pages' snapshots, an inbound of
\* the wizard is fronted by one thing and listens on the loopback only behind
\* the tunnel or the edge; the tunnel gets a second inbound only from two funnels
\* at once (CreateFromFunnel: the second-tunnel check, the row it builds).
THEOREM FrontedOnce == Spec => []OneFront
<1>1. IInv => OneFront
  <2> SUFFICES ASSUME IInv PROVE OneFront
    OBVIOUS
  <2>1. ASSUME ~overlapped PROVE Cardinality({ib \in inbounds : ib.argo}) <= 1
    <3> DEFINE S == {ib \in inbounds : ib.argo}
    <3>1. \A i, j \in S : i = j
      BY <2>1 DEF IInv, FrontInv, OneTunnel
    <3> HIDE DEF S
    <3>2. Cardinality(S) <= 1
      BY <3>1, AtMostOne
    <3>3. QED
      BY <3>2 DEF S
  <2>2. ASSUME NEW ib \in inbounds
        PROVE  /\ Cardinality({f \in {"cdn", "argo", "edge"} :
                      CASE f = "cdn" -> ib.cdn [] f = "argo" -> ib.argo [] OTHER -> ib.edge}) <= 1
               /\ ib.argo \/ ib.edge <=> ib.listen = "127.0.0.1"
    <3> DEFINE S == {f \in {"cdn", "argo", "edge"} :
                      CASE f = "cdn" -> ib.cdn [] f = "argo" -> ib.argo [] OTHER -> ib.edge}
    <3>1. Fronted(ib)
      BY DEF IInv, FrontInv
    <3>2. \A f, g \in S : f = g
      BY <3>1 DEF Fronted
    <3> HIDE DEF S
    <3>3. Cardinality(S) <= 1
      BY <3>2, AtMostOne
    <3>4. QED
      BY <3>1, <3>3 DEF S, Fronted
  <2>3. QED
    BY <2>1, <2>2 DEF OneFront
<1>2. QED
  BY <1>1, Invariance, PTL

\* Whatever the node, but one behind NAT, and whatever its ports and pages, what
\* the wizard has created can be bound: on both families for good, on IPv4 only
\* unless two funnels went on together or no port was free above the preferred
\* one (pickFreePort, listenForHost, the unique index of address and port).
THEOREM SocketsStayApart == Spec => []SocketsFit
<1>1. SockAll => SocketsFit
  <2> SUFFICES ASSUME SockInv, NEW i \in inbounds, NEW j \in inbounds, i # j, i.port = j.port,
                      node = "dual" \/ Sparse
               PROVE  ~Covers(i.listen, j.listen)
    BY DEF SockAll, SocketsFit, Apart, Sparse
  <2>1. CASE Sparse
    BY <2>1 DEF SockInv
  <2>2. CASE node = "dual"
    <3>1. Hosts = {"a4", "a6"} /\ \A h : listenForHost(h) = h
      BY <2>2 DEF Hosts, listenForHost
    <3>2. i.listen \in {"127.0.0.1", "a4", "a6"}
      BY <2>2, <3>1 DEF SockInv, Listeners
    <3>3. i.listen # j.listen
      BY DEF SockInv
    <3>4. QED
      BY <3>2, <3>3 DEF Covers
  <2>3. QED
    BY <2>1, <2>2
<1>2. QED
  BY <1>1, SockInit, SockNext, PTL DEF Spec
=============================================================================
