---------------------------- MODULE AdvancedProofs ----------------------------
(***************************************************************************)
(* Theorems about Advanced for all values of its constants: a panel writes *)
(* its own slice of the row, the logs do what the row says, the tunnel     *)
(* feeds the inbound that is bound to it, and a move of the tunnel takes   *)
(* its users along.                                                        *)
(*                                                                         *)
(* All four speak of requests at rest; the invariant says what a request   *)
(* under way knows, place by place: RowInv of who holds the row, BoundInv  *)
(* of the one request about the tunnel and where the tunnel is bound,      *)
(* FeedInv of what runs meanwhile, UsersInv of who has a client where.     *)
(***************************************************************************)
EXTENDS Advanced, FiniteSetTheorems, WellFoundedInduction, TLAPS

(***************************************************************************)
(* The states of the requests                                              *)
(***************************************************************************)
Modes  == {"", "temp", "fixed"}
Row    == [cdn: BOOLEAN, pool: SUBSET Entries, enabled: BOOLEAN, mode: Modes, token: BOOLEAN,
           quic: BOOLEAN, redact: BOOLEAN]
Origin == [id: Nat \ {0}, argo: BOOLEAN, edge: BOOLEAN, standby: BOOLEAN, on: BOOLEAN]

Ops == {"idle", "cdn", "quic", "redact", "provision", "argo"} \cup AboutTunnel
Pcs == {"idle", "load", "save", "live", "provision", "start", "saveEnabled", "launch", "cancel",
        "reset", "spawn", "await", "boot", "origin", "flag", "park", "users", "restart",
        "wasArgo", "delete", "clear", "saveCleared"}
Req == [op: Ops, pc: Pcs, row: Row, want: Row, id: Nat, from: Nat, pid: Nat, start: BOOLEAN,
        wasArgo: BOOLEAN]

\* Where a request of each kind passes.
Begins  == {"start", "move", "boot"}
Running == {"cancel", "reset", "spawn", "await"}
Flow(r) ==
  /\ r.op = "idle"               => r.pc = "idle"
  /\ r.op \in {"cdn", "quic"}    => r.pc \in {"load", "save"}
  /\ r.op = "redact"             => r.pc \in {"load", "save", "live"}
  /\ r.op = "provision"          => r.pc \in {"provision", "save"}
  /\ r.op = "argo"               => r.pc \in {"load", "save"}
  /\ r.op = "start"              => r.pc \in {"start", "saveEnabled", "launch"} \cup Running
  /\ r.op = "stop"               => r.pc \in {"cancel", "reset"}
  /\ r.op = "boot"               => r.pc \in {"boot"} \cup Running
  /\ r.op = "move"               => r.pc \in {"origin", "flag", "park", "users", "restart"} \cup Running
  /\ r.op = "delete"             => r.pc \in {"wasArgo", "delete", "cancel", "reset", "clear", "saveCleared"}

Statuses    == {"idle", "starting", "running", "failed"}
Unique(ins) == \A i, j \in ins : i.id = j.id => i = j

Types ==
  /\ row \in Row /\ redacting \in BOOLEAN
  /\ inbounds \subseteq Origin /\ Unique(inbounds)
  /\ {i.id : i \in inbounds} \subseteq {i.id : i \in Origins}
  /\ page \in [Tabs -> [row: Row, origins: SUBSET Origin, status: Statuses]]
  /\ req \in [Sources -> Req] /\ \A s \in Sources : Flow(req[s])
  /\ nextPid \in Nat \ {0}
  /\ crossed \in BOOLEAN /\ strayed \in BOOLEAN /\ torn \in BOOLEAN

SupTypes ==
  status \in Statuses /\ cmd \in Nat /\ procs \subseteq [pid: Nat \ {0}, dial: Nat, mode: Modes]

(***************************************************************************)
(* The row                                                                 *)
(***************************************************************************)
\* Who is about to write the row has what it read in every column but its own.
Writing == {"save", "saveEnabled", "saveCleared"}
OthersKept(r, w) == r.pc \in Writing => \A c \in DOMAIN NoRow : c \notin Slice(r.op) => r.row[c] = w[c]

\* Who has written the switch of the logs is about to raise the flag.
Flagged == (\E s \in Sources : req[s].pc = "live") \/ redacting = row.redact

RowInv ==
  ~crossed =>
    /\ Flagged
    /\ \A s \in Sources : /\ OthersKept(req[s], row)
                          /\ req[s].pc = "live" => req[s].row.redact = row.redact

(***************************************************************************)
(* The inbound that is bound to the tunnel                                 *)
(***************************************************************************)
About(r) == r.op \in AboutTunnel \cup {"argo"}
Alone    == \A s, u \in Sources : About(req[s]) /\ About(req[u]) => s = u
Nobody   == \A s \in Sources : ~About(req[s])

Single(B) == \A i, j \in B : i = j

\* What a request about the tunnel knows of the bound inbounds B.
Where(r, B) ==
  /\ r.pc # "park" => Single(B)
  /\ r.pc \in {"load", "save"} => IF r.start THEN r.id \in B ELSE B = {}
  /\ r.pc = "start" => r.id = 0 \/ r.id \in B
  /\ r.pc \in {"saveEnabled", "launch"} => r.id \in B
  /\ r.op \in Begins /\ r.pc \in Running => r.id \in B
  /\ r.pc = "flag" => IF r.from = 0 THEN B = {} ELSE r.from \in B
  /\ r.pc = "park" => B = {r.from, r.id} /\ r.from # r.id /\ r.from # 0
  /\ r.pc \in {"users", "restart"} => r.id \in B
  /\ r.pc = "users" => r.from # 0
  /\ r.pc = "delete" => r.wasArgo = (r.id \in B)
  /\ r.op = "delete" /\ r.pc \notin {"wasArgo", "delete"} => B = {}

Calm == ~strayed /\ ~torn

BoundInv ==
  Calm => /\ Alone
          /\ \A s \in Sources : About(req[s]) => Where(req[s], Bound)
          /\ Nobody => Single(Bound)

(***************************************************************************)
(* What runs: the processes P, in the mode m of the row and the state st   *)
(* of the supervisor                                                       *)
(***************************************************************************)
Fed(P, B)          == P # {} => B # {}
Dials(P, m, st, B) == \A p \in P : p.mode = "temp" /\ m = "temp" /\ st = "running" => p.dial \in B
Rests(P, m, st, B) == Fed(P, B) /\ Dials(P, m, st, B)

\* A request that moves the tunnel has seen in which mode it is.
Seen(r, m) == m = "temp" => r.row.mode = "temp"

Feeds(r, P, m, st, B) ==
  /\ r.pc \in {"load", "save", "boot", "origin", "wasArgo", "delete", "flag"} => Rests(P, m, st, B)
  /\ r.pc = "load" => r.want.mode # ""
  /\ r.pc = "save" => r.row.mode # ""
  /\ r.pc = "start" => IF r.id = 0 THEN Rests(P, m, st, B) ELSE m # ""
  /\ r.pc = "saveEnabled" => r.row.mode = m /\ m # ""
  /\ r.pc \in {"launch", "flag", "park", "users", "restart"} => Seen(r, m)
  /\ r.pc \in {"reset", "spawn", "clear", "saveCleared"} => P = {}
  /\ r.pc = "await" => \A p \in P : p.dial = r.id

Undisturbed == Calm /\ ~crossed

FeedInv ==
  Undisturbed =>
    /\ \A p \in procs : p.pid = cmd
    /\ \A s \in Sources :
         /\ About(req[s]) => Feeds(req[s], procs, row.mode, status, Bound)
         /\ req[s].op = "provision" /\ req[s].pc = "save" => req[s].row.mode = "fixed"
    /\ Nobody => Rests(procs, row.mode, status, Bound)

(***************************************************************************)
(* The users of the tunnel: the clients cl on the inbounds ins             *)
(***************************************************************************)
OnOf(cl, id)   == {c[1] : c \in {x \in cl : x[2] = id}}
BoundOf(ins)   == {i.id : i \in {x \in ins : x.argo}}

\* The users of every inbound that was parked are on this one.
Gathers(id, ins, cl) == \A i \in ins : i.standby => OnOf(cl, i.id) \subseteq OnOf(cl, id)
Open(id, ins)        == \E i \in ins : i.id = id /\ i.on /\ ~i.standby
Serves(ins, cl)      == \E b \in BoundOf(ins) : Open(b, ins) /\ Gathers(b, ins, cl)

\* The tunnel is fed at first, by an inbound that has the clients of all parked,
\* and none of the inbounds has been deleted since.
FedAtFirst == Serves(Origins, Grants)
Whole(ins) == FedAtFirst /\ {i.id : i \in ins} = {i.id : i \in Origins}

Moved(r, ins, cl) ==
  IF r.pc \in {"park", "users"} THEN Open(r.id, ins) /\ Gathers(r.from, ins, cl) ELSE Serves(ins, cl)

UsersInv ==
  Calm /\ Whole(inbounds) =>
    /\ \A s \in Sources : About(req[s]) => Moved(req[s], inbounds, clients)
    /\ Nobody => Serves(inbounds, clients)

IInv == Types /\ RowInv /\ BoundInv /\ FeedInv

(***************************************************************************)
(* The operators of the model                                              *)
(***************************************************************************)
LEMMA MinOfNat ==
  ASSUME NEW S \in SUBSET Nat, S # {}
  PROVE  Min(S) \in S /\ \A y \in S : Min(S) <= y
<1> DEFINE R == OpToRel(<, Nat)
<1>r. \A x, y \in Nat : x < y => <<x, y>> \in R
  BY DEF OpToRel
<1>w. IsWellFoundedOn(R, Nat)
  BY NatLessThanWellFounded
<1> HIDE DEF R
<1>1. \E x \in S : \A y \in S : ~(<<y, x>> \in R)
  BY <1>w, WFMin
<1>2. \E x \in S : \A y \in S : x <= y
  <2>1. PICK x \in S : \A y \in S : ~(<<y, x>> \in R)
    BY <1>1
  <2>2. \A y \in S : ~(y < x)
    BY <2>1, <1>r
  <2>3. QED
    BY <2>2
<1>3. QED
  BY <1>2 DEF Min

LEMMA MinOf ==
  ASSUME NEW B \in SUBSET (Nat \ {0})
  PROVE  /\ (IF B = {} THEN 0 ELSE Min(B)) \in Nat
         /\ B = {} <=> (IF B = {} THEN 0 ELSE Min(B)) = 0
         /\ B # {} => (IF B = {} THEN 0 ELSE Min(B)) \in B
<1>1. CASE B = {}
  BY <1>1
<1>2. CASE B # {}
  <2>1. B \in SUBSET Nat
    OBVIOUS
  <2>2. Min(B) \in B
    BY <1>2, <2>1, MinOfNat
  <2>3. Min(B) \in Nat \ {0}
    BY <2>2
  <2>4. QED
    BY <1>2, <2>2, <2>3
<1>3. QED
  BY <1>1, <1>2

LEMMA PortOf ==
  ASSUME Types
  PROVE  /\ Bound \in SUBSET (Nat \ {0})
         /\ argoInboundPort \in Nat /\ (argoInboundPort = 0 <=> Bound = {})
         /\ Bound # {} => argoInboundPort \in Bound
<1>1. Bound \in SUBSET (Nat \ {0})
  BY DEF Types, Bound, Origin
<1>2. QED
  BY <1>1, MinOf DEF argoInboundPort

\* What a page takes for the bound inbound; if it is up to date, it is.
LEMMA PortShown ==
  ASSUME Types, NEW t \in Tabs
  PROVE  /\ argoInbound(t) \in Nat
         /\ ~Outdated(t) => argoInbound(t) = argoInboundPort
<1> DEFINE ids == {i.id : i \in {x \in page[t].origins : x.argo}}
<1>1. ids \in SUBSET (Nat \ {0})
  BY DEF Types, Origin
<1>2. argoInbound(t) = IF ids = {} THEN 0 ELSE Min(ids)
  BY DEF argoInbound
<1>3. ~Outdated(t) => ids = Bound
  BY DEF Outdated, Bound
<1> HIDE DEF ids
<1>4. QED
  BY <1>1, <1>2, <1>3, MinOf DEF argoInboundPort

LEMMA IdleReq ==
  Idle \in Req /\ Flow(Idle) /\ ~About(Idle) /\ Idle.pc = "idle" /\ Idle.op = "idle"
BY DEF Idle, NoRow, Req, Row, Ops, Pcs, Modes, Flow, About, AboutTunnel

LEMMA MergeOf ==
  ASSUME NEW op \in Ops, NEW read \in Row, NEW want \in Row
  PROVE  /\ Merge(op, read, want) \in Row
         /\ \A c \in DOMAIN NoRow : c \notin Slice(op) => Merge(op, read, want)[c] = read[c]
         /\ op = "argo" => Merge(op, read, want).mode = want.mode
<1> DEFINE w == [want EXCEPT !.token = @ \/ (op = "argo" /\ read.token),
                             !.pool = IF want.cdn /\ @ = {} THEN Recommended ELSE @]
<1>1. w \in Row /\ w.mode = want.mode
  BY AdvancedAssumption DEF AdvancedAssumption, Row, Modes
<1>2. Merge(op, read, want) = [c \in DOMAIN read |-> IF c \in Slice(op) THEN w[c] ELSE read[c]]
  BY DEF Merge
<1>3. DOMAIN read = DOMAIN NoRow
  BY DEF Row, NoRow
<1> HIDE DEF w
<1>4. Merge(op, read, want) \in Row
  BY <1>1, <1>2 DEF Row
<1>5. \A c \in DOMAIN NoRow : c \notin Slice(op) => Merge(op, read, want)[c] = read[c]
  BY <1>2, <1>3
<1>6. op = "argo" => "mode" \in Slice(op)
  BY DEF Slice
<1>7. QED
  BY <1>1, <1>2, <1>4, <1>5, <1>6 DEF Row

(***************************************************************************)
(* What a step of one request leaves of the invariant                      *)
(***************************************************************************)
Turn(s, q) == req' = [req EXCEPT ![s] = q]

LEMMA Turned ==
  ASSUME Types, NEW s \in Sources, NEW q \in Req, Flow(q), Turn(s, q)
  PROVE  /\ req' \in [Sources -> Req] /\ \A u \in Sources : Flow(req'[u])
         /\ req'[s] = q /\ \A u \in Sources \ {s} : req'[u] = req[u]
BY DEF Types, Turn

\* Steps that leave the row and the flag of the logs alone.
LEMMA RowKeeps ==
  ASSUME Types, RowInv, NEW s \in Sources, NEW q \in Req, Flow(q), Turn(s, q),
         row' = row, redacting' = redacting, ~crossed' => ~crossed,
         req[s].pc # "live", q.pc # "live",
         ~crossed => OthersKept(q, row)
  PROVE  RowInv'
<1>1. /\ req'[s] = q /\ \A u \in Sources \ {s} : req'[u] = req[u]
  BY Turned
<1> SUFFICES ASSUME ~crossed'
             PROVE  /\ Flagged'
                    /\ \A u \in Sources : /\ OthersKept(req'[u], row')
                                          /\ req'[u].pc = "live" => req'[u].row.redact = row'.redact
  BY DEF RowInv
<1>2. /\ Flagged
      /\ \A u \in Sources : /\ OthersKept(req[u], row)
                            /\ req[u].pc = "live" => req[u].row.redact = row.redact
  BY DEF RowInv
<1>3. Flagged'
  BY <1>1, <1>2 DEF Flagged
<1>4. QED
  BY <1>1, <1>2, <1>3

LEMMA BoundKeeps ==
  ASSUME Types, BoundInv, NEW s \in Sources, NEW q \in Req, Flow(q), Turn(s, q),
         Calm' => Calm,
         About(q) => About(req[s]),
         Calm' /\ About(q) => Where(q, Bound'),
         Calm' /\ ~About(q) /\ About(req[s]) => Single(Bound'),
         ~About(req[s]) => Bound' = Bound
  PROVE  BoundInv'
<1>1. /\ req'[s] = q /\ \A u \in Sources \ {s} : req'[u] = req[u]
  BY Turned
<1> SUFFICES ASSUME Calm'
             PROVE  /\ Alone'
                    /\ \A u \in Sources : About(req'[u]) => Where(req'[u], Bound')
                    /\ Nobody' => Single(Bound')
  BY DEF BoundInv
<1>2. /\ Alone
      /\ \A u \in Sources : About(req[u]) => Where(req[u], Bound)
      /\ Nobody => Single(Bound)
  BY DEF BoundInv
<1>3. CASE About(req[s])
  <2>1. \A u \in Sources \ {s} : ~About(req'[u])
    BY <1>1, <1>2, <1>3 DEF Alone
  <2>2. QED
    BY <1>1, <2>1, <1>3 DEF Alone, Nobody
<1>4. CASE ~About(req[s])
  <2>1. ~About(q) /\ Bound' = Bound
    BY <1>4
  <2>2. \A u \in Sources : About(req'[u]) => u # s /\ req'[u] = req[u]
    BY <1>1, <2>1
  <2>3. \A u \in Sources : About(req'[u]) <=> About(req[u])
    BY <1>1, <1>4, <2>1
  <2>4. Alone' /\ (Nobody' <=> Nobody)
    BY <1>2, <2>3 DEF Alone, Nobody
  <2>5. QED
    BY <1>2, <2>1, <2>2, <2>3, <2>4
<1>5. QED
  BY <1>3, <1>4

\* A tunnel request that is not writing the row does not mind the row being
\* written by another, in whose slice the mode is not, or which makes it fixed.
LEMMA FeedsStill ==
  ASSUME NEW r, NEW P, NEW m, NEW n, NEW st, NEW B,
         Feeds(r, P, m, st, B), n = m \/ (n = "fixed" /\ r.pc \notin Writing)
  PROVE  Feeds(r, P, n, st, B)
BY DEF Feeds, Rests, Dials, Seen, Writing

LEMMA FeedKeeps ==
  ASSUME Types, BoundInv, FeedInv, NEW s \in Sources, NEW q \in Req, Flow(q), Turn(s, q),
         Undisturbed' => Undisturbed,
         About(q) => About(req[s]),
         Undisturbed' => \A p \in procs' : p.pid = cmd',
         Undisturbed' /\ About(q) => Feeds(q, procs', row'.mode, status', Bound'),
         Undisturbed' /\ ~About(q) /\ About(req[s]) => Rests(procs', row'.mode, status', Bound'),
         Undisturbed' /\ q.op = "provision" /\ q.pc = "save" => q.row.mode = "fixed",
         ~About(req[s]) => /\ Bound' = Bound /\ procs' = procs /\ status' = status
                           /\ Undisturbed' => \/ row'.mode = row.mode
                                              \/ /\ row'.mode = "fixed"
                                                 /\ \A u \in Sources \ {s} : req[u].pc \notin Writing
  PROVE  FeedInv'
<1>1. /\ req'[s] = q /\ \A u \in Sources \ {s} : req'[u] = req[u]
  BY Turned
<1> SUFFICES ASSUME Undisturbed'
             PROVE  /\ \A u \in Sources :
                         /\ About(req'[u]) => Feeds(req'[u], procs', row'.mode, status', Bound')
                         /\ req'[u].op = "provision" /\ req'[u].pc = "save" => req'[u].row.mode = "fixed"
                    /\ Nobody' => Rests(procs', row'.mode, status', Bound')
  BY DEF FeedInv
<1>2. /\ Alone
      /\ \A u \in Sources :
           /\ About(req[u]) => Feeds(req[u], procs, row.mode, status, Bound)
           /\ req[u].op = "provision" /\ req[u].pc = "save" => req[u].row.mode = "fixed"
      /\ Nobody => Rests(procs, row.mode, status, Bound)
  BY DEF FeedInv, BoundInv, Undisturbed
<1>3. \A u \in Sources : req'[u].op = "provision" /\ req'[u].pc = "save" => req'[u].row.mode = "fixed"
  BY <1>1, <1>2
<1>4. CASE About(req[s])
  <2>1. \A u \in Sources \ {s} : ~About(req'[u])
    BY <1>1, <1>2, <1>4 DEF Alone
  <2>2. \A u \in Sources : About(req'[u]) => Feeds(req'[u], procs', row'.mode, status', Bound')
    BY <1>1, <2>1
  <2>3. Nobody' => Rests(procs', row'.mode, status', Bound')
    BY <1>1, <1>4 DEF Nobody
  <2>4. QED
    BY <1>3, <2>2, <2>3
<1>5. CASE ~About(req[s])
  <2>1. ~About(q) /\ Bound' = Bound /\ procs' = procs /\ status' = status
    BY <1>5
  <2>2. ASSUME NEW u \in Sources, About(req'[u])
        PROVE  Feeds(req'[u], procs', row'.mode, status', Bound')
    <3>1. u # s /\ req'[u] = req[u] /\ About(req[u])
      BY <1>1, <2>1, <2>2
    <3>2. row'.mode = row.mode \/ (row'.mode = "fixed" /\ req[u].pc \notin Writing)
      BY <1>5, <3>1
    <3>3. Feeds(req[u], procs, row.mode, status, Bound)
      BY <1>2, <3>1
    <3>4. Feeds(req[u], procs, row'.mode, status, Bound)
      BY <3>2, <3>3, FeedsStill
    <3>5. QED
      BY <2>1, <3>1, <3>4
  <2>3. ASSUME Nobody' PROVE Rests(procs', row'.mode, status', Bound')
    <3>1. Nobody
      BY <1>1, <1>5, <2>3 DEF Nobody
    <3>2. Rests(procs, row.mode, status, Bound)
      BY <1>2, <3>1
    <3>3. row'.mode = row.mode \/ row'.mode = "fixed"
      BY <1>5
    <3>4. QED
      BY <2>1, <3>2, <3>3 DEF Rests, Dials
  <2>4. QED
    BY <1>3, <2>2, <2>3
<1>6. QED
  BY <1>4, <1>5

LEMMA UsersKeep ==
  ASSUME Types, BoundInv, UsersInv, NEW s \in Sources, NEW q \in Req, Flow(q), Turn(s, q),
         Calm' /\ Whole(inbounds') => Calm /\ Whole(inbounds),
         About(q) => About(req[s]),
         Calm' /\ Whole(inbounds') /\ About(q) => Moved(q, inbounds', clients'),
         Calm' /\ Whole(inbounds') /\ ~About(q) /\ About(req[s]) => Serves(inbounds', clients'),
         ~About(req[s]) => inbounds' = inbounds /\ clients' = clients
  PROVE  UsersInv'
<1>1. /\ req'[s] = q /\ \A u \in Sources \ {s} : req'[u] = req[u]
  BY Turned
<1> SUFFICES ASSUME Calm', Whole(inbounds')
             PROVE  /\ \A u \in Sources : About(req'[u]) => Moved(req'[u], inbounds', clients')
                    /\ Nobody' => Serves(inbounds', clients')
  BY DEF UsersInv
<1>2. /\ Alone
      /\ \A u \in Sources : About(req[u]) => Moved(req[u], inbounds, clients)
      /\ Nobody => Serves(inbounds, clients)
  BY DEF UsersInv, BoundInv
<1>3. CASE About(req[s])
  <2>1. \A u \in Sources \ {s} : ~About(req'[u])
    BY <1>1, <1>2, <1>3 DEF Alone
  <2>2. QED
    BY <1>1, <2>1, <1>3 DEF Nobody
<1>4. CASE ~About(req[s])
  <2>1. ~About(q) /\ inbounds' = inbounds /\ clients' = clients
    BY <1>4
  <2>2. \A u \in Sources : About(req'[u]) => About(req[u]) /\ req'[u] = req[u]
    BY <1>1, <2>1
  <2>3. Nobody' => Nobody
    BY <1>1, <1>4 DEF Nobody
  <2>4. QED
    BY <1>2, <2>1, <2>2, <2>3
<1>5. QED
  BY <1>3, <1>4

Inv == IInv /\ UsersInv

\* A step of one request that only reads the database: what it goes on with is
\* true of it, and if it is about the tunnel it may change what runs.
LEMMA Reads ==
  ASSUME Inv, NEW s \in Sources, NEW q \in Req, Flow(q), Turn(s, q),
         UNCHANGED <<row, inbounds, clients, redacting, page, crossed, strayed, torn>>,
         nextPid' \in Nat \ {0},
         req[s].pc # "live", q.pc # "live",
         ~crossed => OthersKept(q, row),
         About(q) => About(req[s]),
         Calm /\ About(q) => Where(q, Bound),
         Calm /\ ~About(q) /\ About(req[s]) => Single(Bound),
         Undisturbed => \A p \in procs' : p.pid = cmd',
         Undisturbed /\ About(q) => Feeds(q, procs', row.mode, status', Bound),
         Undisturbed /\ ~About(q) /\ About(req[s]) => Rests(procs', row.mode, status', Bound),
         Undisturbed /\ q.op = "provision" /\ q.pc = "save" => q.row.mode = "fixed",
         ~About(req[s]) => UNCHANGED <<procs, status>>,
         Calm /\ Whole(inbounds) /\ About(q) => Moved(q, inbounds, clients),
         Calm /\ Whole(inbounds) /\ ~About(q) /\ About(req[s]) => Serves(inbounds, clients)
  PROVE  Inv'
<1>1. Types /\ RowInv /\ BoundInv /\ FeedInv /\ UsersInv
  BY DEF Inv, IInv
<1>2. Bound' = Bound /\ Calm' = Calm /\ Undisturbed' = Undisturbed
  BY DEF Bound, Calm, Undisturbed
<1>3. Types'
  BY <1>1, Turned DEF Types, Unique
<1>4. RowInv'
  BY <1>1, RowKeeps
<1>5. BoundInv'
  BY <1>1, <1>2, BoundKeeps
<1>6. FeedInv'
  BY <1>1, <1>2, FeedKeeps
<1>7. UsersInv'
  BY <1>1, <1>2, UsersKeep
<1>8. QED
  BY <1>3, <1>4, <1>5, <1>6, <1>7 DEF Inv, IInv

\* A request ends.
LEMMA Ends ==
  ASSUME Inv, NEW s \in Sources, End(s),
         UNCHANGED <<row, inbounds, clients, redacting, page, crossed, strayed, torn>>,
         nextPid' \in Nat \ {0}, req[s].pc # "live",
         Calm /\ About(req[s]) => Single(Bound),
         Undisturbed => \A p \in procs' : p.pid = cmd',
         Undisturbed /\ About(req[s]) => Rests(procs', row.mode, status', Bound),
         ~About(req[s]) => UNCHANGED <<procs, status>>,
         Calm /\ Whole(inbounds) /\ About(req[s]) => Serves(inbounds, clients)
  PROVE  Inv'
<1>1. Turn(s, Idle)
  BY DEF End, Then, Turn
<1>2. OthersKept(Idle, row)
  BY IdleReq DEF OthersKept, Writing
<1>3. QED
  BY <1>1, <1>2, IdleReq, Reads

\* What the invariant says of one request.
LEMMA Known ==
  ASSUME Inv, NEW s \in Sources
  PROVE  /\ req[s] \in Req /\ Flow(req[s]) /\ Types
         /\ ~crossed => OthersKept(req[s], row) /\ (req[s].pc = "live" => req[s].row.redact = row.redact)
         /\ Calm /\ About(req[s]) => Where(req[s], Bound)
         /\ Undisturbed => \A p \in procs : p.pid = cmd
         /\ Undisturbed /\ About(req[s]) => Feeds(req[s], procs, row.mode, status, Bound)
         /\ Undisturbed /\ req[s].op = "provision" /\ req[s].pc = "save" => req[s].row.mode = "fixed"
         /\ Calm /\ Whole(inbounds) /\ About(req[s]) => Moved(req[s], inbounds, clients)
BY DEF Inv, IInv, Types, RowInv, BoundInv, FeedInv, UsersInv

(***************************************************************************)
(* The advanced handlers                                                   *)
(***************************************************************************)
LEMMA LoadKeeps == ASSUME Inv, NEW s \in Sources, Load(s) PROVE Inv'
<1> DEFINE r == req[s]
           new == Merge(r.op, row, r.want)
           q == [r EXCEPT !.pc = "save", !.row = new, !.want = NoRow]
<1>1. /\ r \in Req /\ Flow(r) /\ r.pc = "load" /\ row \in Row /\ nextPid \in Nat \ {0}
      /\ UNCHANGED <<row, inbounds, clients, redacting, page, crossed, strayed, torn, procs, cmd, status, nextPid>>
  BY Known DEF Load, At, db, sup, past, Types
<1>2. /\ new \in Row /\ \A c \in DOMAIN NoRow : c \notin Slice(r.op) => new[c] = row[c]
      /\ r.op = "argo" => new.mode = r.want.mode
  BY <1>1, MergeOf DEF Req
<1>3. CASE r.op = "argo" /\ BadArgo(new)
  <2>1. End(s)
    BY <1>3 DEF Load
  <2>2. About(r) => r.op = "argo"
    BY <1>1 DEF Flow, About, AboutTunnel, Running
  <2>3. QED
    BY <1>1, <2>1, Known, Ends DEF Where, Feeds, Moved
<1>4. CASE ~(r.op = "argo" /\ BadArgo(new))
  <2>1. Turn(s, q)
    BY <1>4 DEF Load, Then, Turn
  <2> HIDE DEF new
  <2>2. NoRow \in Row
    BY DEF NoRow, Row, Modes
  <2>3. q \in Req
    BY <1>1, <1>2, <2>2 DEF Req, Pcs
  <2>4. /\ q.pc = "save" /\ q.op = r.op /\ q.row = new /\ q.id = r.id /\ q.start = r.start
        /\ q.from = r.from /\ q.wasArgo = r.wasArgo
    BY <1>1 DEF Req
  <2>5. Flow(q)
    BY <1>1, <2>4 DEF Flow, Running
  <2>6. r.op # "provision"
    BY <1>1 DEF Flow
  <2>7. About(q) = About(r) /\ (About(r) => r.op = "argo")
    BY <1>1, <2>4 DEF Flow, About, AboutTunnel, Running
  <2> HIDE DEF q
  <2>8. OthersKept(q, row)
    BY <2>4, <1>2 DEF OthersKept
  <2>9. Calm /\ About(r) => Where(q, Bound)
    BY <1>1, <2>4, <2>7, Known DEF Where, Begins
  <2>10. Undisturbed /\ About(r) => Feeds(q, procs, row.mode, status, Bound)
    BY <1>1, <1>2, <2>4, <2>7, Known DEF Feeds
  <2>11. Calm /\ Whole(inbounds) /\ About(r) => Moved(q, inbounds, clients)
    BY <1>1, <2>4, Known DEF Moved
  <2>12. QED
    BY <1>1, <2>1, <2>3, <2>4, <2>5, <2>6, <2>7, <2>8, <2>9, <2>10, <2>11, Known, Reads
<1>5. QED
  BY <1>3, <1>4

LEMMA ProvisionKeeps == ASSUME Inv, NEW s \in Sources, ArgoCFProvision(s) PROVE Inv'
<1> DEFINE r == req[s]
           new == [row EXCEPT !.mode = "fixed", !.token = TRUE]
           q == [r EXCEPT !.pc = "save", !.row = new]
<1>1. /\ r \in Req /\ Flow(r) /\ r.pc = "provision" /\ row \in Row /\ nextPid \in Nat \ {0}
      /\ UNCHANGED <<row, inbounds, clients, redacting, page, crossed, strayed, torn, procs, cmd, status, nextPid>>
  BY Known DEF ArgoCFProvision, At, db, sup, past, Types
<1>2. r.op = "provision" /\ ~About(r)
  BY <1>1 DEF Flow, Req, Ops, About, AboutTunnel, Running
<1>3. CASE End(s)
  BY <1>1, <1>2, <1>3, Known, Ends
<1>4. CASE ~End(s)
  <2>1. Turn(s, q)
    BY <1>4 DEF ArgoCFProvision, Then, Turn
  <2>2. new \in Row /\ new.mode = "fixed" /\ \A c \in DOMAIN NoRow : c \notin {"enabled", "mode", "token"} => new[c] = row[c]
    BY <1>1 DEF Row, Modes, NoRow
  <2> HIDE DEF new
  <2>3. q \in Req
    BY <1>1, <2>2 DEF Req, Pcs
  <2>4. q.pc = "save" /\ q.op = "provision" /\ q.row = new
    BY <1>1, <1>2 DEF Req
  <2> HIDE DEF q
  <2>5. Flow(q) /\ ~About(q)
    BY <2>4 DEF Flow, About, AboutTunnel
  <2>6. OthersKept(q, row)
    BY <2>2, <2>4 DEF OthersKept, Slice
  <2>7. QED
    BY <1>1, <1>2, <2>1, <2>2, <2>3, <2>4, <2>5, <2>6, Known, Reads
<1>5. QED
  BY <1>3, <1>4

(***************************************************************************)
(* The supervisor                                                          *)
(***************************************************************************)
\* A request about the tunnel goes on to a place where it holds no row.
LEMMA GoesOn ==
  ASSUME Inv, NEW s \in Sources, NEW q \in Req, Flow(q), Turn(s, q),
         UNCHANGED <<row, inbounds, clients, redacting, page, crossed, strayed, torn>>,
         nextPid' \in Nat \ {0},
         About(req[s]), req[s].pc # "live", q.op = req[s].op, q.pc \notin Writing \cup {"live"},
         Calm => Where(q, Bound),
         Undisturbed => \A p \in procs' : p.pid = cmd',
         Undisturbed => Feeds(q, procs', row.mode, status', Bound),
         Calm /\ Whole(inbounds) => Moved(q, inbounds, clients)
  PROVE  Inv'
<1>1. About(q) /\ q.op # "provision"
  BY DEF About, AboutTunnel
<1>2. OthersKept(q, row) /\ q.pc # "live"
  BY DEF OthersKept
<1>3. QED
  BY <1>1, <1>2, Reads

LEMMA StopCancelKeeps == ASSUME Inv, NEW s \in Sources, StopCancel(s) PROVE Inv'
<1> DEFINE r == req[s]
           q == [r EXCEPT !.pc = "reset"]
<1>1. /\ r \in Req /\ Flow(r) /\ r.pc = "cancel" /\ nextPid' \in Nat \ {0}
      /\ UNCHANGED <<row, inbounds, clients, redacting, page, crossed, strayed, torn, cmd>>
      /\ procs' = {p \in procs : p.pid \notin {cmd}} /\ Turn(s, q)
  BY Known DEF StopCancel, Kill, At, To, Then, Turn, db, past, Types
<1>2. About(r) /\ r.op \in {"start", "stop", "move", "delete", "boot"}
  BY <1>1 DEF Flow, Req, Ops, About, AboutTunnel, Running
<1>3. q \in Req /\ q.pc = "reset" /\ q.op = r.op /\ q.id = r.id
  BY <1>1 DEF Req, Pcs
<1> HIDE DEF q
<1>4. Flow(q) /\ q.pc \notin Writing \cup {"live"}
  BY <1>2, <1>3 DEF Flow, Running, Writing
<1>5. Calm => Where(q, Bound)
  BY <1>1, <1>2, <1>3, Known DEF Where, Running
<1>6. Undisturbed => procs' = {}
  BY <1>1, Known
<1>7. Undisturbed => Feeds(q, procs', row.mode, status', Bound)
  BY <1>3, <1>6 DEF Feeds
<1>8. Calm /\ Whole(inbounds) => Moved(q, inbounds, clients)
  BY <1>1, <1>2, <1>3, Known DEF Moved
<1>9. QED
  BY <1>1, <1>2, <1>3, <1>4, <1>5, <1>6, <1>7, <1>8, GoesOn

LEMMA StopResetKeeps == ASSUME Inv, NEW s \in Sources, StopReset(s) PROVE Inv'
<1> DEFINE r == req[s]
           q(pc) == [r EXCEPT !.pc = pc]
<1>1. /\ r \in Req /\ Flow(r) /\ r.pc = "reset" /\ nextPid' \in Nat \ {0}
      /\ UNCHANGED <<row, inbounds, clients, redacting, page, crossed, strayed, torn>>
      /\ procs' = {p \in procs : p.pid \notin {cmd}}
  BY Known DEF StopReset, Kill, At, db, past, Types
<1>2. About(r) /\ r.op \in {"start", "stop", "move", "delete", "boot"}
  BY <1>1 DEF Flow, Req, Ops, About, AboutTunnel, Running
<1>3. /\ Calm => Where(r, Bound)
      /\ Undisturbed => procs' = {}
      /\ Calm /\ Whole(inbounds) => Serves(inbounds, clients)
  BY <1>1, <1>2, Known DEF Moved
<1>4. Calm => Single(Bound)
  BY <1>1, <1>3 DEF Where
<1>5. CASE r.op = "stop"
  <2>1. End(s)
    BY <1>5 DEF StopReset
  <2>2. Undisturbed => Rests(procs', row.mode, status', Bound)
    BY <1>3 DEF Rests, Fed, Dials
  <2>3. QED
    BY <1>1, <1>2, <1>3, <1>4, <2>1, <2>2, Ends
<1>6. CASE r.op # "stop"
  <2> DEFINE pc == IF r.op = "delete" THEN "clear" ELSE "spawn"
  <2>1. Turn(s, q(pc))
    BY <1>6 DEF StopReset, To, Then, Turn
  <2>2. q(pc) \in Req /\ q(pc).pc = pc /\ q(pc).op = r.op /\ q(pc).id = r.id
    BY <1>1 DEF Req, Pcs
  <2> HIDE DEF q
  <2>3. Flow(q(pc)) /\ q(pc).pc \notin Writing \cup {"live"}
    BY <1>2, <1>6, <2>2 DEF Flow, Running, Writing
  <2>4. Calm => Where(q(pc), Bound)
    BY <1>1, <1>2, <1>3, <1>6, <2>2 DEF Where, Running, Begins
  <2>5. Undisturbed => Feeds(q(pc), procs', row.mode, status', Bound)
    BY <1>3, <2>2 DEF Feeds
  <2>6. Calm /\ Whole(inbounds) => Moved(q(pc), inbounds, clients)
    BY <1>3, <2>2 DEF Moved
  <2>7. QED
    BY <1>1, <1>2, <1>3, <2>1, <2>2, <2>3, <2>4, <2>5, <2>6, GoesOn
<1>7. QED
  BY <1>5, <1>6

LEMMA SpawnKeeps == ASSUME Inv, NEW s \in Sources, Spawn(s) PROVE Inv'
<1> DEFINE r == req[s]
           q == [r EXCEPT !.pc = "await", !.pid = nextPid]
           x == [pid |-> nextPid, dial |-> r.id, mode |-> r.row.mode]
<1>1. /\ r \in Req /\ Flow(r) /\ r.pc = "spawn" /\ nextPid \in Nat \ {0}
      /\ UNCHANGED <<row, inbounds, clients, redacting, page, crossed, strayed, torn>>
      /\ procs' = procs \cup {x} /\ cmd' = nextPid /\ nextPid' = nextPid + 1 /\ Turn(s, q)
  BY Known DEF Spawn, At, Then, Turn, db, past, Types
<1>2. About(r) /\ r.op \in Begins
  BY <1>1 DEF Flow, Req, Ops, About, AboutTunnel, Running, Begins
<1>3. q \in Req /\ q.pc = "await" /\ q.op = r.op /\ q.id = r.id
  BY <1>1 DEF Req, Pcs
<1> HIDE DEF q
<1>4. Flow(q) /\ q.pc \notin Writing \cup {"live"}
  BY <1>2, <1>3 DEF Flow, Running, Writing, Begins
<1>5. Calm => Where(q, Bound)
  BY <1>1, <1>2, <1>3, Known DEF Where, Running
<1>6. Undisturbed => procs = {}
  BY <1>1, <1>2, Known DEF Feeds
<1>7. x.pid = nextPid /\ x.dial = r.id
  OBVIOUS
<1> HIDE DEF x
<1>8. Undisturbed => Feeds(q, procs', row.mode, status', Bound)
  BY <1>1, <1>3, <1>6, <1>7 DEF Feeds
<1>9. Calm /\ Whole(inbounds) => Moved(q, inbounds, clients)
  BY <1>1, <1>2, <1>3, Known DEF Moved
<1>10. Undisturbed => \A p \in procs' : p.pid = cmd'
  BY <1>1, <1>6, <1>7
<1>11. nextPid' \in Nat \ {0}
  BY <1>1
<1>12. QED
  BY <1>1, <1>2, <1>3, <1>4, <1>5, <1>8, <1>9, <1>10, <1>11, GoesOn

LEMMA AwaitKeeps == ASSUME Inv, NEW s \in Sources, Await(s) PROVE Inv'
<1> DEFINE r == req[s]
<1>1. /\ r \in Req /\ Flow(r) /\ r.pc = "await" /\ nextPid' \in Nat \ {0}
      /\ UNCHANGED <<row, inbounds, clients, redacting, page, crossed, strayed, torn, procs, cmd>>
      /\ End(s)
  BY Known DEF Await, At, db, past, Types
<1>2. About(r) /\ r.op \in Begins
  BY <1>1 DEF Flow, Req, Ops, About, AboutTunnel, Running, Begins
<1>3. Calm => Single(Bound) /\ r.id \in Bound
  BY <1>1, <1>2, Known DEF Where, Running
<1>4. Undisturbed => \A p \in procs : p.dial = r.id
  BY <1>1, <1>2, Known DEF Feeds
<1>5. Undisturbed => Rests(procs', row.mode, status', Bound)
  BY <1>1, <1>3, <1>4 DEF Rests, Fed, Dials, Undisturbed
<1>6. Calm /\ Whole(inbounds) => Serves(inbounds, clients)
  BY <1>1, <1>2, Known DEF Moved
<1>7. QED
  BY <1>1, <1>2, <1>3, <1>5, <1>6, Known, Ends

LEMMA ExitKeeps == ASSUME Inv, Exit PROVE Inv'
<1>1. /\ procs' \subseteq procs /\ status' \in {status, "failed"}
      /\ UNCHANGED <<row, inbounds, clients, redacting, page, crossed, strayed, torn, cmd, req, nextPid>>
  BY DEF Exit, Kill, db, past
<1>2. Bound' = Bound /\ Calm' = Calm /\ Undisturbed' = Undisturbed
  BY <1>1 DEF Bound, Calm, Undisturbed
<1>3. ASSUME Rests(procs, row.mode, status, Bound) PROVE Rests(procs', row.mode, status', Bound)
  BY <1>1, <1>3 DEF Rests, Fed, Dials
<1>4. ASSUME NEW r, Feeds(r, procs, row.mode, status, Bound) PROVE Feeds(r, procs', row.mode, status', Bound)
  BY <1>1, <1>3, <1>4 DEF Feeds
<1>5. FeedInv'
  BY <1>1, <1>2, <1>3, <1>4 DEF Inv, IInv, FeedInv, Nobody
<1>6. Types' /\ RowInv' /\ BoundInv' /\ UsersInv'
  BY <1>1, <1>2 DEF Inv, IInv, Types, RowInv, Flagged, BoundInv, Alone, Nobody, UsersInv
<1>7. QED
  BY <1>5, <1>6 DEF Inv, IInv

(***************************************************************************)
(* The tunnel handlers                                                     *)
(***************************************************************************)
LEMMA ArgoStartKeeps == ASSUME Inv, NEW s \in Sources, ArgoStart(s) PROVE Inv'
<1> DEFINE r == req[s]
           id == IF r.id # 0 THEN r.id ELSE argoInboundPort
           pc == IF row.enabled THEN "launch" ELSE "saveEnabled"
           new == [row EXCEPT !.enabled = TRUE]
           q == [r EXCEPT !.id = id, !.row = new, !.pc = pc]
<1>1. /\ r \in Req /\ Flow(r) /\ r.pc = "start" /\ row \in Row /\ nextPid \in Nat \ {0}
      /\ UNCHANGED <<row, inbounds, clients, redacting, page, crossed, strayed, torn, procs, cmd, status, nextPid>>
  BY Known DEF ArgoStart, At, db, sup, past, Types
<1>2. r.op = "start" /\ About(r)
  BY <1>1 DEF Flow, Req, Ops, About, AboutTunnel, Running
<1>3. /\ Calm => Single(Bound) /\ (r.id = 0 \/ r.id \in Bound)
      /\ Undisturbed => IF r.id = 0 THEN Rests(procs, row.mode, status, Bound) ELSE row.mode # ""
      /\ Calm /\ Whole(inbounds) => Serves(inbounds, clients)
  BY <1>1, <1>2, Known DEF Where, Feeds, Moved
<1>4. /\ argoInboundPort \in Nat /\ (argoInboundPort = 0 <=> Bound = {})
      /\ Bound # {} => argoInboundPort \in Bound
      /\ 0 \notin Bound
  BY PortOf, Known
<1>5. CASE id = 0 \/ row.mode = ""
  <2>1. End(s)
    BY <1>5 DEF ArgoStart
  <2>2. Undisturbed => Rests(procs, row.mode, status, Bound)
    BY <1>3, <1>4, <1>5 DEF Rests, Dials, Fed, Undisturbed
  <2>3. QED
    BY <1>1, <1>2, <1>3, <2>1, <2>2, Known, Ends
<1>6. CASE ~(id = 0 \/ row.mode = "")
  <2>1. Turn(s, q)
    BY <1>6 DEF ArgoStart, Then, Turn
  <2>2. id \in Nat /\ (Calm => id \in Bound)
    BY <1>1, <1>3, <1>4, <1>6 DEF Req
  <2> HIDE DEF id
  <2>3. new \in Row /\ new.mode = row.mode /\ \A c \in DOMAIN NoRow : c # "enabled" => new[c] = row[c]
    BY <1>1 DEF Row, NoRow
  <2> HIDE DEF new
  <2>4. q \in Req /\ q.pc = pc /\ q.op = "start" /\ q.row = new /\ q.id = id
    BY <1>1, <1>2, <2>2, <2>3 DEF Req, Pcs
  <2>5. pc \in {"launch", "saveEnabled"}
    OBVIOUS
  <2> HIDE DEF q, pc
  <2>6. Flow(q) /\ About(q)
    BY <2>4, <2>5 DEF Flow, About, AboutTunnel
  <2>7. OthersKept(q, row)
    BY <2>3, <2>4 DEF OthersKept, Slice
  <2>8. Calm => Where(q, Bound)
    BY <1>3, <2>2, <2>4, <2>5 DEF Where, Running
  <2>9. Undisturbed => Feeds(q, procs, row.mode, status, Bound)
    BY <1>6, <2>3, <2>4, <2>5 DEF Feeds, Seen
  <2>10. Calm /\ Whole(inbounds) => Moved(q, inbounds, clients)
    BY <1>3, <2>4, <2>5 DEF Moved
  <2>11. QED
    BY <1>1, <1>2, <2>1, <2>4, <2>5, <2>6, <2>7, <2>8, <2>9, <2>10, Known, Reads
<1>7. QED
  BY <1>5, <1>6

LEMMA LaunchKeeps == ASSUME Inv, NEW s \in Sources, Launch(s) PROVE Inv'
<1> DEFINE r == req[s]
           q == [r EXCEPT !.pc = "cancel"]
<1>1. /\ r \in Req /\ Flow(r) /\ r.pc = "launch" /\ row \in Row /\ nextPid \in Nat \ {0}
      /\ UNCHANGED <<row, inbounds, clients, redacting, page, crossed, strayed, torn, procs, cmd, status, nextPid>>
  BY Known DEF Launch, At, db, sup, past, Types
<1>2. r.op = "start" /\ About(r)
  BY <1>1 DEF Flow, Req, Ops, About, AboutTunnel, Running
<1>3. /\ Calm => Single(Bound) /\ r.id \in Bound
      /\ Undisturbed => Seen(r, row.mode)
      /\ Calm /\ Whole(inbounds) => Serves(inbounds, clients)
  BY <1>1, <1>2, Known DEF Where, Feeds, Moved
<1>4. CASE r.row.mode = "fixed" /\ ~r.row.token
  <2>1. End(s)
    BY <1>4 DEF Launch
  <2>2. Undisturbed => Rests(procs, row.mode, status, Bound)
    BY <1>3, <1>4 DEF Rests, Dials, Fed, Undisturbed, Seen
  <2>3. QED
    BY <1>1, <1>2, <1>3, <2>1, <2>2, Known, Ends
<1>5. CASE ~(r.row.mode = "fixed" /\ ~r.row.token)
  <2>1. Turn(s, q)
    BY <1>5 DEF Launch, To, Then, Turn
  <2>2. q \in Req /\ q.pc = "cancel" /\ q.op = "start" /\ q.id = r.id
    BY <1>1, <1>2 DEF Req, Pcs
  <2> HIDE DEF q
  <2>3. Flow(q) /\ q.pc \notin Writing \cup {"live"}
    BY <2>2 DEF Flow, Running, Writing
  <2>4. Calm => Where(q, Bound)
    BY <1>3, <2>2 DEF Where
  <2>5. Undisturbed => Feeds(q, procs, row.mode, status, Bound)
    BY <2>2 DEF Feeds
  <2>6. Calm /\ Whole(inbounds) => Moved(q, inbounds, clients)
    BY <1>3, <2>2 DEF Moved
  <2>7. QED
    BY <1>1, <1>2, <2>1, <2>2, <2>3, <2>4, <2>5, <2>6, Known, GoesOn
<1>6. QED
  BY <1>4, <1>5

LEMMA AutoStartKeeps == ASSUME Inv, AutoStartArgoIfEnabled PROVE Inv'
<1> DEFINE r == req["boot"]
           q == [r EXCEPT !.pc = "cancel", !.row = row, !.id = argoInboundPort]
<1>s. "boot" \in Sources
  BY DEF Sources
<1>1. /\ r \in Req /\ Flow(r) /\ r.pc = "boot" /\ row \in Row /\ nextPid \in Nat \ {0}
      /\ UNCHANGED <<row, inbounds, clients, redacting, page, crossed, strayed, torn, procs, cmd, status, nextPid>>
  BY <1>s, Known DEF AutoStartArgoIfEnabled, At, db, sup, past, Types
<1>2. r.op = "boot" /\ About(r)
  BY <1>1 DEF Flow, Req, Ops, About, AboutTunnel, Running
<1>3. /\ Calm => Single(Bound)
      /\ Undisturbed => Rests(procs, row.mode, status, Bound)
      /\ Calm /\ Whole(inbounds) => Serves(inbounds, clients)
  BY <1>s, <1>1, <1>2, Known DEF Where, Feeds, Moved
<1>4. /\ argoInboundPort \in Nat /\ (argoInboundPort # 0 => argoInboundPort \in Bound)
  BY <1>s, PortOf, Known
<1>5. CASE End("boot")
  BY <1>s, <1>1, <1>2, <1>3, <1>5, Known, Ends
<1>6. CASE ~End("boot")
  <2>1. Turn("boot", q) /\ argoInboundPort # 0
    BY <1>6 DEF AutoStartArgoIfEnabled, Then, Turn
  <2>2. q \in Req /\ q.pc = "cancel" /\ q.op = "boot" /\ q.id = argoInboundPort
    BY <1>1, <1>2, <1>4 DEF Req, Pcs
  <2> HIDE DEF q
  <2>3. Flow(q) /\ q.pc \notin Writing \cup {"live"}
    BY <2>2 DEF Flow, Running, Writing
  <2>4. Calm => Where(q, Bound)
    BY <1>3, <1>4, <2>1, <2>2 DEF Where
  <2>5. Undisturbed => Feeds(q, procs, row.mode, status, Bound)
    BY <2>2 DEF Feeds
  <2>6. Calm /\ Whole(inbounds) => Moved(q, inbounds, clients)
    BY <1>3, <2>2 DEF Moved
  <2>7. QED
    BY <1>s, <1>1, <1>2, <2>1, <2>2, <2>3, <2>4, <2>5, <2>6, Known, GoesOn
<1>7. QED
  BY <1>5, <1>6

LEMMA SetArgoOriginKeeps == ASSUME Inv, NEW s \in Sources, SetArgoOrigin(s) PROVE Inv'
<1> DEFINE r == req[s]
           q == [r EXCEPT !.pc = "flag", !.from = argoInboundPort, !.row.mode = row.mode]
<1>1. /\ r \in Req /\ Flow(r) /\ r.pc = "origin" /\ row \in Row /\ nextPid \in Nat \ {0}
      /\ UNCHANGED <<row, inbounds, clients, redacting, page, crossed, strayed, torn, procs, cmd, status, nextPid>>
  BY Known DEF SetArgoOrigin, At, db, sup, past, Types
<1>2. r.op = "move" /\ About(r)
  BY <1>1 DEF Flow, Req, Ops, About, AboutTunnel, Running
<1>3. /\ Calm => Single(Bound)
      /\ Undisturbed => Rests(procs, row.mode, status, Bound)
      /\ Calm /\ Whole(inbounds) => Serves(inbounds, clients)
  BY <1>1, <1>2, Known DEF Where, Feeds, Moved
<1>4. /\ argoInboundPort \in Nat /\ (argoInboundPort = 0 <=> Bound = {})
      /\ Bound # {} => argoInboundPort \in Bound
  BY PortOf, Known
<1>5. CASE End(s)
  BY <1>1, <1>2, <1>3, <1>5, Known, Ends
<1>6. CASE ~End(s)
  <2>1. Turn(s, q)
    BY <1>6 DEF SetArgoOrigin, Then, Turn
  <2>2. q \in Req /\ q.pc = "flag" /\ q.op = "move" /\ q.from = argoInboundPort /\ q.row.mode = row.mode
    BY <1>1, <1>2, <1>4 DEF Req, Pcs, Row
  <2> HIDE DEF q
  <2>3. Flow(q) /\ q.pc \notin Writing \cup {"live"}
    BY <2>2 DEF Flow, Writing
  <2>4. Calm => Where(q, Bound)
    BY <1>3, <1>4, <2>2 DEF Where, Running
  <2>5. Undisturbed => Feeds(q, procs, row.mode, status, Bound)
    BY <1>3, <2>2 DEF Feeds, Seen
  <2>6. Calm /\ Whole(inbounds) => Moved(q, inbounds, clients)
    BY <1>3, <2>2 DEF Moved
  <2>7. QED
    BY <1>1, <1>2, <2>1, <2>2, <2>3, <2>4, <2>5, <2>6, Known, GoesOn
<1>7. QED
  BY <1>5, <1>6

LEMMA RestartTempKeeps == ASSUME Inv, NEW s \in Sources, RestartTemp(s) PROVE Inv'
<1> DEFINE r == req[s]
           q == [r EXCEPT !.pc = "cancel"]
<1>1. /\ r \in Req /\ Flow(r) /\ r.pc = "restart" /\ row \in Row /\ nextPid \in Nat \ {0}
      /\ UNCHANGED <<row, inbounds, clients, redacting, page, crossed, strayed, torn, procs, cmd, status, nextPid>>
  BY Known DEF RestartTemp, At, db, sup, past, Types
<1>2. r.op = "move" /\ About(r)
  BY <1>1 DEF Flow, Req, Ops, About, AboutTunnel, Running
<1>3. /\ Calm => Single(Bound) /\ r.id \in Bound
      /\ Undisturbed => Seen(r, row.mode)
      /\ Calm /\ Whole(inbounds) => Serves(inbounds, clients)
  BY <1>1, <1>2, Known DEF Where, Feeds, Moved
<1>4. CASE ~(r.row.mode = "temp" /\ status = "running")
  <2>1. End(s)
    BY <1>4 DEF RestartTemp
  <2>2. Undisturbed => Rests(procs, row.mode, status, Bound)
    BY <1>3, <1>4 DEF Rests, Dials, Fed, Undisturbed, Seen
  <2>3. QED
    BY <1>1, <1>2, <1>3, <2>1, <2>2, Known, Ends
<1>5. CASE r.row.mode = "temp" /\ status = "running"
  <2>1. Turn(s, q)
    BY <1>5 DEF RestartTemp, To, Then, Turn
  <2>2. q \in Req /\ q.pc = "cancel" /\ q.op = "move" /\ q.id = r.id
    BY <1>1, <1>2 DEF Req, Pcs
  <2> HIDE DEF q
  <2>3. Flow(q) /\ q.pc \notin Writing \cup {"live"}
    BY <2>2 DEF Flow, Running, Writing
  <2>4. Calm => Where(q, Bound)
    BY <1>3, <2>2 DEF Where
  <2>5. Undisturbed => Feeds(q, procs, row.mode, status, Bound)
    BY <2>2 DEF Feeds
  <2>6. Calm /\ Whole(inbounds) => Moved(q, inbounds, clients)
    BY <1>3, <2>2 DEF Moved
  <2>7. QED
    BY <1>1, <1>2, <2>1, <2>2, <2>3, <2>4, <2>5, <2>6, Known, GoesOn
<1>6. QED
  BY <1>4, <1>5

LEMMA WasArgoKeeps == ASSUME Inv, NEW s \in Sources, WasArgo(s) PROVE Inv'
<1> DEFINE r == req[s]
           was == Has(r.id) /\ Get(r.id).argo
           q == [r EXCEPT !.pc = "delete", !.wasArgo = was]
<1>1. /\ r \in Req /\ Flow(r) /\ r.pc = "wasArgo" /\ Types /\ nextPid \in Nat \ {0}
      /\ UNCHANGED <<row, inbounds, clients, redacting, page, crossed, strayed, torn, procs, cmd, status, nextPid>>
      /\ Turn(s, q)
  BY Known DEF WasArgo, At, Then, Turn, db, sup, past, Types
<1>2. r.op = "delete" /\ About(r)
  BY <1>1 DEF Flow, Req, Ops, About, AboutTunnel, Running
<1>3. /\ Calm => Single(Bound)
      /\ Undisturbed => Rests(procs, row.mode, status, Bound)
      /\ Calm /\ Whole(inbounds) => Serves(inbounds, clients)
  BY <1>1, <1>2, Known DEF Where, Feeds, Moved
<1>4. was \in BOOLEAN /\ (was <=> r.id \in Bound)
  <2>1. CASE Has(r.id)
    <3>1. Get(r.id) \in inbounds /\ Get(r.id).id = r.id
      BY <2>1 DEF Has, Get
    <3>2. \A i \in inbounds : i.id = r.id => i = Get(r.id)
      BY <1>1, <3>1 DEF Types, Unique
    <3>3. Get(r.id).argo \in BOOLEAN
      BY <1>1, <3>1 DEF Types, Origin
    <3>4. QED
      BY <2>1, <3>1, <3>2, <3>3 DEF Bound
  <2>2. CASE ~Has(r.id)
    BY <2>2 DEF Has, Bound
  <2>3. QED
    BY <2>1, <2>2
<1> HIDE DEF was
<1>5. q \in Req /\ q.pc = "delete" /\ q.op = "delete" /\ q.id = r.id /\ q.wasArgo = was
  BY <1>1, <1>2, <1>4 DEF Req, Pcs
<1> HIDE DEF q
<1>6. Flow(q) /\ q.pc \notin Writing \cup {"live"}
  BY <1>5 DEF Flow, Writing
<1>7. Calm => Where(q, Bound)
  BY <1>3, <1>4, <1>5 DEF Where, Running
<1>8. Undisturbed => Feeds(q, procs, row.mode, status, Bound)
  BY <1>3, <1>5 DEF Feeds
<1>9. Calm /\ Whole(inbounds) => Moved(q, inbounds, clients)
  BY <1>3, <1>5 DEF Moved
<1>10. QED
  BY <1>1, <1>2, <1>5, <1>6, <1>7, <1>8, <1>9, Known, GoesOn

(***************************************************************************)
(* The writers of the row                                                  *)
(***************************************************************************)
\* A step that writes the row, in the course of one request: everyone else who
\* had it in hand is recorded as crossed.
LEMMA Written ==
  ASSUME Inv, NEW s \in Sources, NEW q \in Req, Flow(q), Turn(s, q), WriteRow(s),
         UNCHANGED <<inbounds, clients, redacting, page, strayed, torn, procs, cmd, status, nextPid>>,
         req[s].pc \in Writing, q.pc \notin Writing,
         q.pc = "live" => q.row = req[s].row,
         req[s].op = "redact" => q.pc = "live",
         About(q) => About(req[s]),
         Calm /\ About(q) => Where(q, Bound),
         Calm /\ ~About(q) /\ About(req[s]) => Single(Bound),
         Undisturbed /\ About(q) => Feeds(q, procs, row'.mode, status, Bound),
         Undisturbed /\ ~About(q) /\ About(req[s]) => Rests(procs, row'.mode, status, Bound),
         Calm /\ Whole(inbounds) /\ About(q) => Moved(q, inbounds, clients),
         Calm /\ Whole(inbounds) /\ ~About(q) /\ About(req[s]) => Serves(inbounds, clients)
  PROVE  Inv'
<1>1. Types /\ RowInv /\ BoundInv /\ FeedInv /\ UsersInv
  BY DEF Inv, IInv
<1>2. /\ req'[s] = q /\ \A u \in Sources \ {s} : req'[u] = req[u]
      /\ row' = req[s].row /\ crossed' \in BOOLEAN
      /\ ~crossed' => ~crossed /\ \A u \in Sources \ {s} : req[u].pc \notin Writing \cup {"live"}
  BY <1>1, Turned DEF WriteRow, Holds, Writing, Types
<1>3. req[s] \in Req /\ Flow(req[s]) /\ row' \in Row
  BY <1>1, <1>2 DEF Types, Req
<1>4. Bound' = Bound /\ Calm' = Calm /\ (Undisturbed' => Undisturbed)
  BY <1>2 DEF Bound, Calm, Undisturbed
<1>5. ~crossed' => \A c \in DOMAIN NoRow : c \notin Slice(req[s].op) => row'[c] = row[c]
  BY <1>1, <1>2 DEF RowInv, OthersKept
<1>6. Types'
  BY <1>1, <1>2, <1>3, Turned DEF Types, Unique
<1>7. RowInv'
  <2> SUFFICES ASSUME ~crossed'
               PROVE  /\ Flagged'
                      /\ \A u \in Sources : /\ OthersKept(req'[u], row')
                                            /\ req'[u].pc = "live" => req'[u].row.redact = row'.redact
    BY DEF RowInv
  <2>1. \A u \in Sources : OthersKept(req'[u], row')
    BY <1>2 DEF OthersKept
  <2>2. \A u \in Sources : req'[u].pc = "live" => req'[u].row.redact = row'.redact
    BY <1>2
  <2>3. CASE q.pc = "live"
    BY <1>2, <2>1, <2>2, <2>3 DEF Flagged
  <2>4. CASE q.pc # "live"
    <3>1. "redact" \notin Slice(req[s].op) /\ "redact" \in DOMAIN NoRow
      BY <2>4 DEF Slice, NoRow
    <3>2. row'.redact = row.redact
      BY <1>5, <3>1
    <3>3. \A u \in Sources : req[u].pc # "live"
      BY <1>2 DEF Writing
    <3>4. redacting = row.redact
      BY <1>1, <1>2, <3>3 DEF RowInv, Flagged
    <3>5. QED
      BY <2>1, <2>2, <3>2, <3>4 DEF Flagged
  <2>5. QED
    BY <2>3, <2>4
<1>8. BoundInv'
  BY <1>1, <1>4, BoundKeeps
<1>9. ASSUME ~About(req[s]), Undisturbed'
      PROVE  \/ row'.mode = row.mode
             \/ row'.mode = "fixed" /\ \A u \in Sources \ {s} : req[u].pc \notin Writing
  <2>1. CASE req[s].op = "provision"
    BY <1>1, <1>2, <1>3, <1>4, <1>9, <2>1 DEF FeedInv, Undisturbed, Flow, Writing
  <2>2. CASE req[s].op # "provision"
    <3>1. req[s].op \in {"cdn", "quic", "redact"}
      BY <1>3, <1>9, <2>2 DEF Req, Ops, About, Flow, Writing
    <3>2. "mode" \notin Slice(req[s].op) /\ "mode" \in DOMAIN NoRow
      BY <3>1 DEF Slice, NoRow
    <3>3. QED
      BY <1>5, <1>9, <3>2 DEF Undisturbed
  <2>3. QED
    BY <2>1, <2>2
<1>10. q.op = "provision" => q.pc # "save"
  BY DEF Writing
<1>11. Undisturbed' => \A p \in procs' : p.pid = cmd'
  BY <1>1, <1>4 DEF FeedInv
<1>12. FeedInv'
  BY <1>1, <1>4, <1>9, <1>10, <1>11, FeedKeeps
<1>13. UsersInv'
  BY <1>1, <1>4, UsersKeep
<1>14. QED
  BY <1>6, <1>7, <1>8, <1>12, <1>13 DEF Inv, IInv

LEMMA SaveKeeps == ASSUME Inv, NEW s \in Sources, Save(s) PROVE Inv'
<1> DEFINE r == req[s]
<1>1. /\ r \in Req /\ Flow(r) /\ r.pc = "save" /\ WriteRow(s) /\ row' = r.row
      /\ UNCHANGED <<inbounds, clients, redacting, page, strayed, torn, procs, cmd, status, nextPid>>
  BY Known DEF Save, At, sup, WriteRow
<1>2. r.op \in {"cdn", "quic", "redact", "argo", "provision"} /\ r.pc \in Writing
  BY <1>1 DEF Flow, Req, Ops, AboutTunnel, Running, Writing
<1>3. CASE r.op = "redact"
  <2> DEFINE q == [r EXCEPT !.pc = "live"]
  <2>1. Turn(s, q)
    BY <1>3 DEF Save, To, Then, Turn
  <2>2. q \in Req /\ q.pc = "live" /\ q.op = "redact" /\ q.row = r.row
    BY <1>1, <1>3 DEF Req, Pcs
  <2> HIDE DEF q
  <2>3. Flow(q) /\ ~About(q) /\ ~About(r) /\ q.pc \notin Writing
    BY <1>3, <2>2 DEF Flow, About, AboutTunnel, Writing
  <2>4. QED
    BY <1>1, <1>2, <2>1, <2>2, <2>3, Written
<1>4. CASE r.op = "argo" /\ r.start
  <2> DEFINE q == [Idle EXCEPT !.op = "start", !.pc = "start", !.id = r.id]
  <2>1. Turn(s, q)
    BY <1>4 DEF Save, Then, Turn
  <2>2. q \in Req /\ q.pc = "start" /\ q.op = "start" /\ q.id = r.id
    BY <1>1, IdleReq DEF Req, Pcs, Ops, AboutTunnel
  <2> HIDE DEF q
  <2>3. Flow(q) /\ About(r) /\ About(q) /\ q.pc \notin Writing \cup {"live"}
    BY <1>4, <2>2 DEF Flow, About, AboutTunnel, Writing
  <2>4. /\ Calm => Single(Bound) /\ r.id \in Bound
        /\ Undisturbed => r.row.mode # ""
        /\ Calm /\ Whole(inbounds) => Serves(inbounds, clients)
    BY <1>1, <1>4, <2>3, Known DEF Where, Feeds, Moved
  <2>5. 0 \notin Bound
    BY PortOf, Known
  <2>6. Calm => Where(q, Bound)
    BY <2>2, <2>4 DEF Where, Running
  <2>7. Undisturbed => Feeds(q, procs, row'.mode, status, Bound)
    BY <1>1, <2>2, <2>4, <2>5 DEF Feeds, Undisturbed
  <2>8. Calm /\ Whole(inbounds) => Moved(q, inbounds, clients)
    BY <2>2, <2>4 DEF Moved
  <2>9. QED
    BY <1>1, <1>2, <1>4, <2>1, <2>2, <2>3, <2>6, <2>7, <2>8, Written
<1>5. CASE r.op # "redact" /\ ~(r.op = "argo" /\ r.start)
  <2>1. Turn(s, Idle) /\ Idle.pc \notin Writing \cup {"live"}
    BY <1>5, IdleReq DEF Save, End, Then, Turn, Writing
  <2>2. ASSUME About(r)
        PROVE  /\ Calm => Single(Bound)
               /\ Undisturbed => Rests(procs, row'.mode, status, Bound)
               /\ Calm /\ Whole(inbounds) => Serves(inbounds, clients)
    <3>1. /\ Calm => Single(Bound) /\ Bound = {}
          /\ Undisturbed => Rests(procs, row.mode, status, Bound)
          /\ Calm /\ Whole(inbounds) => Serves(inbounds, clients)
      BY <1>1, <1>2, <1>5, <2>2, Known DEF Where, Feeds, Moved, About, AboutTunnel
    <3>2. Undisturbed => procs = {}
      BY <3>1 DEF Rests, Fed, Undisturbed
    <3>3. QED
      BY <3>1, <3>2 DEF Rests, Fed, Dials
  <2>3. QED
    BY <1>1, <1>2, <1>5, <2>1, <2>2, IdleReq, Written
<1>6. QED
  BY <1>3, <1>4, <1>5

LEMMA SetEnabledKeeps == ASSUME Inv, NEW s \in Sources, SetEnabled(s) PROVE Inv'
<1>1. /\ req[s] \in Req /\ Flow(req[s]) /\ req[s].pc = "live" /\ redacting' = req[s].row.redact /\ Turn(s, Idle)
      /\ UNCHANGED <<row, inbounds, clients, page, crossed, strayed, torn, procs, cmd, status, nextPid>>
  BY Known DEF SetEnabled, At, End, Then, Turn, db, sup, past
<1>2. Types /\ RowInv /\ BoundInv /\ FeedInv /\ UsersInv
  BY DEF Inv, IInv
<1>3. ~About(req[s])
  BY <1>1 DEF Flow, Req, Ops, About, AboutTunnel, Running
<1>4. /\ req'[s] = Idle /\ \A u \in Sources \ {s} : req'[u] = req[u]
  BY <1>1, <1>2, IdleReq, Turned
<1>5. Bound' = Bound /\ Calm' = Calm /\ Undisturbed' = Undisturbed
  BY <1>1 DEF Bound, Calm, Undisturbed
<1>6. redacting' \in BOOLEAN
  BY <1>1 DEF Req, Row
<1>7. Types'
  BY <1>1, <1>2, <1>6, IdleReq, Turned DEF Types, Unique
<1>8. RowInv'
  BY <1>1, <1>2, <1>4, IdleReq DEF RowInv, Flagged, OthersKept, Writing
<1>9. BoundInv'
  BY <1>1, <1>2, <1>3, <1>5, IdleReq, BoundKeeps
<1>10. Undisturbed' => \A p \in procs' : p.pid = cmd'
  BY <1>1, <1>2, <1>5 DEF FeedInv
<1>11. FeedInv'
  BY <1>1, <1>2, <1>3, <1>5, <1>10, IdleReq, FeedKeeps
<1>12. UsersInv'
  BY <1>1, <1>2, <1>3, <1>5, IdleReq, UsersKeep
<1>13. QED
  BY <1>7, <1>8, <1>9, <1>11, <1>12 DEF Inv, IInv

LEMMA SaveEnabledKeeps == ASSUME Inv, NEW s \in Sources, SaveEnabled(s) PROVE Inv'
<1> DEFINE r == req[s]
           q == [r EXCEPT !.pc = "launch"]
<1>1. /\ r \in Req /\ Flow(r) /\ r.pc = "saveEnabled" /\ WriteRow(s) /\ row' = r.row /\ Turn(s, q)
      /\ UNCHANGED <<inbounds, clients, redacting, page, strayed, torn, procs, cmd, status, nextPid>>
  BY Known DEF SaveEnabled, At, To, Then, Turn, sup, WriteRow
<1>2. r.op = "start" /\ r.pc \in Writing /\ About(r)
  BY <1>1 DEF Flow, Req, Ops, About, AboutTunnel, Running, Writing
<1>3. /\ Calm => Single(Bound) /\ r.id \in Bound
      /\ Calm /\ Whole(inbounds) => Serves(inbounds, clients)
  BY <1>1, <1>2, Known DEF Where, Moved
<1>4. q \in Req /\ q.pc = "launch" /\ q.op = "start" /\ q.row = r.row /\ q.id = r.id
  BY <1>1, <1>2 DEF Req, Pcs
<1> HIDE DEF q
<1>5. Flow(q) /\ About(q) /\ q.pc \notin Writing \cup {"live"}
  BY <1>4 DEF Flow, About, AboutTunnel, Writing
<1>6. Calm => Where(q, Bound)
  BY <1>3, <1>4 DEF Where, Running
<1>7. Feeds(q, procs, row'.mode, status, Bound)
  BY <1>1, <1>4 DEF Feeds, Seen
<1>8. Calm /\ Whole(inbounds) => Moved(q, inbounds, clients)
  BY <1>3, <1>4 DEF Moved
<1>9. QED
  BY <1>1, <1>2, <1>4, <1>5, <1>6, <1>7, <1>8, Written

LEMMA ClearArgoKeeps == ASSUME Inv, NEW s \in Sources, ClearArgo(s) PROVE Inv'
<1> DEFINE r == req[s]
           new == [row EXCEPT !.enabled = FALSE, !.mode = "", !.token = FALSE]
           q == [r EXCEPT !.pc = "saveCleared", !.row = new]
<1>1. /\ r \in Req /\ Flow(r) /\ r.pc \in {"clear", "saveCleared"} /\ row \in Row
      /\ UNCHANGED <<inbounds, clients, redacting, page, strayed, torn, procs, cmd, status, nextPid>>
      /\ nextPid \in Nat \ {0}
  BY Known DEF ClearArgo, At, sup, db, past, Types
<1>2. r.op = "delete" /\ About(r)
  BY <1>1 DEF Flow, Req, Ops, About, AboutTunnel, Running
<1>3. /\ Calm => Single(Bound) /\ Bound = {}
      /\ Undisturbed => procs = {}
      /\ Calm /\ Whole(inbounds) => Serves(inbounds, clients)
  BY <1>1, <1>2, Known DEF Where, Feeds, Moved
<1>4. CASE r.pc = "clear"
  <2>1. Turn(s, q) /\ UNCHANGED <<row, crossed>>
    BY <1>4 DEF ClearArgo, At, Then, Turn, db, past
  <2>2. new \in Row /\ \A c \in DOMAIN NoRow : c \notin {"enabled", "mode", "token"} => new[c] = row[c]
    BY <1>1 DEF Row, Modes, NoRow
  <2> HIDE DEF new
  <2>3. q \in Req /\ q.pc = "saveCleared" /\ q.op = "delete" /\ q.row = new
    BY <1>1, <1>2, <2>2 DEF Req, Pcs
  <2> HIDE DEF q
  <2>4. Flow(q) /\ About(q) /\ q.pc # "live"
    BY <2>3 DEF Flow, About, AboutTunnel
  <2>5. OthersKept(q, row)
    BY <2>2, <2>3 DEF OthersKept, Slice
  <2>6. Calm => Where(q, Bound)
    BY <1>3, <2>3 DEF Where, Running, Begins
  <2>7. Undisturbed => Feeds(q, procs, row.mode, status, Bound)
    BY <1>3, <2>3 DEF Feeds
  <2>8. Calm /\ Whole(inbounds) => Moved(q, inbounds, clients)
    BY <1>3, <2>3 DEF Moved
  <2>9. QED
    BY <1>1, <1>2, <1>4, <2>1, <2>3, <2>4, <2>5, <2>6, <2>7, <2>8, Known, Reads
<1>5. CASE r.pc = "saveCleared"
  <2>1. Turn(s, Idle) /\ WriteRow(s) /\ Idle.pc \notin Writing \cup {"live"} /\ r.pc \in Writing
    BY <1>5, IdleReq DEF ClearArgo, At, End, Then, Turn, Writing
  <2>2. Undisturbed => Rests(procs, row'.mode, status, Bound)
    BY <1>3 DEF Rests, Fed, Dials
  <2>3. QED
    BY <1>1, <1>2, <1>3, <2>1, <2>2, IdleReq, Written
<1>6. QED
  BY <1>1, <1>4, <1>5

(***************************************************************************)
(* The origins and their users                                             *)
(***************************************************************************)
LEMMA BoundIs == Bound = BoundOf(inbounds)
BY DEF Bound, BoundOf

\* A step of one request about the tunnel that changes the inbounds or clients.
LEMMA Changed ==
  ASSUME Inv, NEW s \in Sources, NEW q \in Req, Flow(q), Turn(s, q),
         UNCHANGED <<row, redacting, page, crossed, strayed, procs, cmd, status, nextPid>>,
         torn' \in BOOLEAN, torn => torn',
         inbounds' \subseteq Origin, Unique(inbounds'),
         {i.id : i \in inbounds'} \subseteq {i.id : i \in inbounds},
         About(req[s]), req[s].pc # "live", q.pc \notin Writing \cup {"live"},
         Calm' /\ About(q) => Where(q, Bound'),
         Calm' /\ ~About(q) => Single(Bound'),
         Undisturbed' /\ About(q) => Feeds(q, procs, row.mode, status, Bound'),
         Undisturbed' /\ ~About(q) => Rests(procs, row.mode, status, Bound'),
         Calm' /\ Whole(inbounds') /\ About(q) => Moved(q, inbounds', clients'),
         Calm' /\ Whole(inbounds') /\ ~About(q) => Serves(inbounds', clients')
  PROVE  Inv'
<1>1. Types /\ RowInv /\ BoundInv /\ FeedInv /\ UsersInv
  BY DEF Inv, IInv
<1>2. (Calm' => Calm) /\ (Undisturbed' => Undisturbed)
  BY <1>1 DEF Calm, Undisturbed, Types
<1>3. Whole(inbounds') => Whole(inbounds)
  BY <1>1 DEF Whole, Types
<1>4. Types'
  BY <1>1, Turned DEF Types
<1>5. RowInv'
  BY <1>1, RowKeeps DEF OthersKept
<1>6. BoundInv'
  BY <1>1, <1>2, BoundKeeps
<1>7. Undisturbed' => \A p \in procs' : p.pid = cmd'
  BY <1>1, <1>2 DEF FeedInv
<1>8. q.op = "provision" /\ q.pc = "save" => q.row.mode = "fixed"
  BY DEF Writing
<1>9. FeedInv'
  BY <1>1, <1>2, <1>7, <1>8, FeedKeeps
<1>10. UsersInv'
  BY <1>1, <1>2, <1>3, UsersKeep
<1>11. QED
  BY <1>4, <1>5, <1>6, <1>9, <1>10 DEF Inv, IInv

\* One inbound is rewritten, its id kept.
LEMMA ChangeOf ==
  ASSUME Types, NEW i \in inbounds, NEW j \in Origin, j.id = i.id, Change(j)
  PROVE  /\ inbounds' = {x \in inbounds : x # i} \cup {j}
         /\ inbounds' \subseteq Origin /\ Unique(inbounds')
         /\ {x.id : x \in inbounds'} \subseteq {x.id : x \in inbounds}
         /\ Bound' = {x.id : x \in {y \in inbounds : y # i /\ y.argo}} \cup (IF j.argo THEN {i.id} ELSE {})
<1>1. \A x \in inbounds : x # i <=> x.id # i.id
  BY DEF Types, Unique
<1>2. inbounds' = {x \in inbounds : x # i} \cup {j}
  BY <1>1 DEF Change
<1>3. inbounds' \subseteq Origin /\ Unique(inbounds')
  BY <1>1, <1>2 DEF Types, Unique
<1>4. {x.id : x \in inbounds'} \subseteq {x.id : x \in inbounds}
  BY <1>2
<1>5. Bound' = {x.id : x \in {y \in inbounds : y # i /\ y.argo}} \cup (IF j.argo THEN {i.id} ELSE {})
  BY <1>2 DEF Bound
<1>6. QED
  BY <1>2, <1>3, <1>4, <1>5

LEMMA GetOf ==
  ASSUME Types, NEW id, Has(id)
  PROVE  /\ Get(id) \in inbounds /\ Get(id) \in Origin /\ Get(id).id = id
         /\ \A i \in inbounds : i.id = id => i = Get(id)
<1>1. Get(id) \in inbounds /\ Get(id).id = id
  BY DEF Has, Get
<1>2. QED
  BY <1>1 DEF Types, Unique

LEMMA FlagTargetKeeps == ASSUME Inv, NEW s \in Sources, FlagTarget(s) PROVE Inv'
<1> DEFINE r == req[s]
           i == Get(r.id)
           j == [i EXCEPT !.argo = TRUE, !.standby = FALSE, !.on = TRUE]
           pc == IF r.from \in {0, r.id} THEN "restart" ELSE "park"
           q == [r EXCEPT !.pc = pc]
<1>1. /\ r \in Req /\ Flow(r) /\ r.pc = "flag" /\ Types /\ Has(r.id) /\ Change(j) /\ Turn(s, q)
      /\ UNCHANGED <<row, clients, redacting, page, crossed, strayed, torn, procs, cmd, status, nextPid>>
  BY Known DEF FlagTarget, At, To, Then, Turn, sup, past
<1>2. r.op = "move" /\ About(r)
  BY <1>1 DEF Flow, Req, Ops, About, AboutTunnel, Running
<1>3. i \in inbounds /\ i \in Origin /\ i.id = r.id /\ \A x \in inbounds : x.id = r.id => x = i
  BY <1>1, GetOf
<1> HIDE DEF i
<1>4. j \in Origin /\ j.id = r.id /\ j.argo /\ ~j.standby /\ j.on
  BY <1>3 DEF Origin
<1> HIDE DEF j
<1>5. /\ inbounds' = {x \in inbounds : x # i} \cup {j}
      /\ inbounds' \subseteq Origin /\ Unique(inbounds')
      /\ {x.id : x \in inbounds'} \subseteq {x.id : x \in inbounds}
      /\ Bound' = Bound \cup {r.id}
  <2>1. /\ inbounds' = {x \in inbounds : x # i} \cup {j}
        /\ inbounds' \subseteq Origin /\ Unique(inbounds')
        /\ {x.id : x \in inbounds'} \subseteq {x.id : x \in inbounds}
        /\ Bound' = {x.id : x \in {y \in inbounds : y # i /\ y.argo}} \cup {r.id}
    BY <1>1, <1>3, <1>4, ChangeOf
  <2>2. QED
    BY <2>1, <1>3 DEF Bound
<1>6. pc \in {"restart", "park"}
  OBVIOUS
<1>7. q \in Req /\ q.pc = pc /\ q.op = "move" /\ q.row = r.row /\ q.id = r.id /\ q.from = r.from
  BY <1>1, <1>2 DEF Req, Pcs
<1> HIDE DEF q
<1>8. Flow(q) /\ About(q) /\ q.pc \notin Writing \cup {"live"}
  BY <1>6, <1>7 DEF Flow, About, AboutTunnel, Writing
<1>9. Calm' = Calm /\ (Undisturbed' => Undisturbed)
  BY <1>1 DEF Calm, Undisturbed
<1>10. Calm => Single(Bound) /\ IF r.from = 0 THEN Bound = {} ELSE r.from \in Bound
  BY <1>1, <1>2, Known DEF Where
<1>11. Calm => Where(q, Bound')
  BY <1>5, <1>6, <1>7, <1>10 DEF Where, Running, Single
<1>12. Undisturbed => Feeds(q, procs, row.mode, status, Bound')
  BY <1>1, <1>2, <1>6, <1>7, Known DEF Feeds, Seen
<1>13. ASSUME Calm, Whole(inbounds') PROVE Moved(q, inbounds', clients')
  <2>1. Whole(inbounds)
    BY <1>1, <1>5, <1>13 DEF Whole, Types
  <2>2. Serves(inbounds, clients)
    BY <1>1, <1>2, <1>13, <2>1, Known DEF Moved
  <2>3. PICK b \in Bound : Open(b, inbounds) /\ Gathers(b, inbounds, clients)
    BY <2>2, BoundIs DEF Serves
  <2>4. r.from = b
    BY <1>10, <1>13, <2>3 DEF Single
  <2>5. Gathers(r.from, inbounds', clients')
    BY <1>1, <1>4, <1>5, <2>3, <2>4 DEF Gathers
  <2>6. Open(r.id, inbounds')
    BY <1>4, <1>5 DEF Open
  <2>7. r.id \in BoundOf(inbounds')
    BY <1>4, <1>5 DEF BoundOf
  <2>8. 0 \notin Bound
    BY <1>1, PortOf
  <2>9. q.pc = "restart" => r.from = r.id
    BY <1>7, <2>3, <2>4, <2>8
  <2>10. QED
    BY <1>6, <1>7, <2>5, <2>6, <2>7, <2>9 DEF Moved, Serves
<1>14. torn' \in BOOLEAN /\ (torn => torn')
  BY <1>1 DEF Types
<1>15. QED
  BY <1>1, <1>2, <1>5, <1>7, <1>8, <1>9, <1>11, <1>12, <1>13, <1>14, Changed

LEMMA ParkCurrentKeeps == ASSUME Inv, NEW s \in Sources, ParkCurrent(s) PROVE Inv'
<1> DEFINE r == req[s]
           i == Get(r.from)
           j == [i EXCEPT !.argo = FALSE, !.standby = @ \/ ~i.edge, !.on = @ /\ i.edge]
           q == [r EXCEPT !.pc = "users"]
<1>1. /\ r \in Req /\ Flow(r) /\ r.pc = "park" /\ Types /\ Has(r.from)
      /\ UNCHANGED <<row, clients, redacting, page, crossed, strayed, procs, cmd, status, nextPid>>
  BY Known DEF ParkCurrent, At, sup
<1>2. r.op = "move" /\ About(r)
  BY <1>1 DEF Flow, Req, Ops, About, AboutTunnel, Running
<1>3. i \in inbounds /\ i \in Origin /\ i.id = r.from /\ \A x \in inbounds : x.id = r.from => x = i
  BY <1>1, GetOf
<1>4. CASE torn' = TRUE /\ End(s) /\ UNCHANGED inbounds
  <2>1. Turn(s, Idle) /\ Idle.pc \notin Writing \cup {"live"} /\ ~Calm' /\ ~Undisturbed'
    BY <1>4, IdleReq DEF End, Then, Turn, Writing, Calm, Undisturbed
  <2>2. inbounds' \subseteq Origin /\ Unique(inbounds')
    BY <1>1, <1>4 DEF Types
  <2>3. QED
    BY <1>1, <1>2, <1>4, <2>1, <2>2, IdleReq, Changed
<1>5. CASE Change(j) /\ To(s, "users") /\ UNCHANGED torn
  <2>1. Turn(s, q)
    BY <1>5 DEF To, Then, Turn
  <2>2. i.edge \in BOOLEAN /\ i.standby \in BOOLEAN /\ i.on \in BOOLEAN
    BY <1>3 DEF Origin
  <2> HIDE DEF i
  <2>3. j \in Origin /\ j.id = r.from /\ ~j.argo
    BY <1>3, <2>2 DEF Origin
  <2> HIDE DEF j
  <2>4. /\ inbounds' = {x \in inbounds : x # i} \cup {j}
        /\ inbounds' \subseteq Origin /\ Unique(inbounds')
        /\ {x.id : x \in inbounds'} \subseteq {x.id : x \in inbounds}
        /\ Bound' = {x.id : x \in {y \in inbounds : y # i /\ y.argo}}
    BY <1>1, <1>3, <1>5, <2>3, ChangeOf
  <2>5. Bound' = Bound \ {r.from}
    BY <1>3, <2>4 DEF Bound
  <2>6. q \in Req /\ q.pc = "users" /\ q.op = "move" /\ q.row = r.row /\ q.id = r.id /\ q.from = r.from
    BY <1>1, <1>2 DEF Req, Pcs
  <2> HIDE DEF q
  <2>7. Flow(q) /\ About(q) /\ q.pc \notin Writing \cup {"live"}
    BY <2>6 DEF Flow, About, AboutTunnel, Writing
  <2>8. Calm' = Calm /\ (Undisturbed' => Undisturbed)
    BY <1>1, <1>5 DEF Calm, Undisturbed
  <2>9. Calm => Bound = {r.from, r.id} /\ r.from # r.id /\ r.from # 0
    BY <1>1, <1>2, Known DEF Where
  <2>10. Calm => Where(q, Bound')
    BY <2>5, <2>6, <2>9 DEF Where, Running, Single
  <2>11. Undisturbed => Feeds(q, procs, row.mode, status, Bound')
    BY <1>1, <1>2, <2>6, Known DEF Feeds, Seen
  <2>12. ASSUME Calm, Whole(inbounds') PROVE Moved(q, inbounds', clients')
    <3>1. Whole(inbounds)
      BY <1>1, <2>4, <2>12 DEF Whole, Types
    <3>2. Open(r.id, inbounds) /\ Gathers(r.from, inbounds, clients)
      BY <1>1, <1>2, <2>12, <3>1, Known DEF Moved
    <3>3. Open(r.id, inbounds')
      BY <1>3, <2>4, <2>9, <2>12, <3>2 DEF Open
    <3>4. Gathers(r.from, inbounds', clients')
      BY <1>1, <2>3, <2>4, <3>2 DEF Gathers
    <3>5. QED
      BY <2>6, <3>3, <3>4 DEF Moved
  <2>13. torn' \in BOOLEAN /\ (torn => torn')
    BY <1>1, <1>5 DEF Types
  <2>14. QED
    BY <1>1, <1>2, <2>1, <2>4, <2>6, <2>7, <2>8, <2>10, <2>11, <2>12, <2>13, Changed
<1>6. QED
  BY <1>4, <1>5 DEF ParkCurrent, Broken

LEMMA MoveUsersKeeps == ASSUME Inv, NEW s \in Sources, MoveUsers(s) PROVE Inv'
<1> DEFINE r == req[s]
           q == [r EXCEPT !.pc = "restart"]
<1>1. /\ r \in Req /\ Flow(r) /\ r.pc = "users" /\ Types
      /\ UNCHANGED <<row, inbounds, redacting, page, crossed, strayed, procs, cmd, status, nextPid>>
      /\ inbounds' \subseteq Origin /\ Unique(inbounds')
  BY Known DEF MoveUsers, At, sup, Types
<1>2. r.op = "move" /\ About(r)
  BY <1>1 DEF Flow, Req, Ops, About, AboutTunnel, Running
<1>3. CASE torn' = TRUE /\ End(s)
  <2>1. Turn(s, Idle) /\ Idle.pc \notin Writing \cup {"live"} /\ ~Calm' /\ ~Undisturbed'
    BY <1>3, IdleReq DEF End, Then, Turn, Writing, Calm, Undisturbed
  <2>2. QED
    BY <1>1, <1>2, <1>3, <2>1, IdleReq, Changed
<1>4. CASE /\ clients' = clients \cup {<<u, r.id>> : u \in On(r.from)}
           /\ To(s, "restart") /\ UNCHANGED torn
  <2>1. Turn(s, q)
    BY <1>4 DEF To, Then, Turn
  <2>2. q \in Req /\ q.pc = "restart" /\ q.op = "move" /\ q.row = r.row /\ q.id = r.id
    BY <1>1, <1>2 DEF Req, Pcs
  <2> HIDE DEF q
  <2>3. Flow(q) /\ About(q) /\ q.pc \notin Writing \cup {"live"}
    BY <2>2 DEF Flow, About, AboutTunnel, Writing
  <2>4. Calm' = Calm /\ (Undisturbed' => Undisturbed) /\ Bound' = Bound
    BY <1>1, <1>4 DEF Calm, Undisturbed, Bound
  <2>5. Calm => Single(Bound) /\ r.id \in Bound
    BY <1>1, <1>2, Known DEF Where
  <2>6. Calm => Where(q, Bound')
    BY <2>2, <2>4, <2>5 DEF Where, Running
  <2>7. Undisturbed => Feeds(q, procs, row.mode, status, Bound')
    BY <1>1, <1>2, <2>2, Known DEF Feeds, Seen
  <2>8. ASSUME Calm, Whole(inbounds') PROVE Moved(q, inbounds', clients')
    <3>1. Open(r.id, inbounds) /\ Gathers(r.from, inbounds, clients)
      BY <1>1, <1>2, <2>8, Known DEF Moved
    <3>2. On(r.from) = OnOf(clients, r.from)
      BY DEF On, OnOf
    <3>3. ASSUME NEW u \in OnOf(clients, r.from) PROVE u \in OnOf(clients', r.id)
      <4>1. <<u, r.id>> \in clients'
        BY <1>4, <3>2, <3>3
      <4>2. <<u, r.id>>[1] = u /\ <<u, r.id>>[2] = r.id
        OBVIOUS
      <4>3. QED
        BY <4>1, <4>2 DEF OnOf
    <3>4. ASSUME NEW x \in inbounds, x.standby PROVE OnOf(clients', x.id) \subseteq OnOf(clients', r.id)
      <4>1. x.id # r.id
        BY <1>1, <3>1, <3>4 DEF Open, Types, Unique
      <4>2. OnOf(clients', x.id) \subseteq OnOf(clients, x.id)
        BY <1>4, <4>1 DEF OnOf
      <4>3. OnOf(clients, x.id) \subseteq OnOf(clients, r.from)
        BY <3>1, <3>4 DEF Gathers
      <4>4. QED
        BY <3>3, <4>2, <4>3
    <3>5. Serves(inbounds', clients')
      BY <1>1, <2>5, <2>8, <3>1, <3>4, BoundIs DEF Serves, Gathers
    <3>6. QED
      BY <2>2, <3>5 DEF Moved
  <2>9. torn' \in BOOLEAN /\ (torn => torn')
    BY <1>1, <1>4 DEF Types
  <2>10. QED
    BY <1>1, <1>2, <2>1, <2>2, <2>3, <2>4, <2>6, <2>7, <2>8, <2>9, Changed
<1>5. QED
  BY <1>3, <1>4 DEF MoveUsers, Broken

LEMMA DeleteInboundKeeps == ASSUME Inv, NEW s \in Sources, DeleteInbound(s) PROVE Inv'
<1> DEFINE r == req[s]
           q == [r EXCEPT !.pc = "cancel"]
<1>1. /\ r \in Req /\ Flow(r) /\ r.pc = "delete" /\ Types
      /\ UNCHANGED <<row, redacting, page, crossed, strayed, torn, procs, cmd, status, nextPid>>
      /\ inbounds' = {x \in inbounds : x.id # r.id} /\ clients' = {c \in clients : c[2] # r.id}
  BY Known DEF DeleteInbound, At, sup, past
<1>2. r.op = "delete" /\ About(r)
  BY <1>1 DEF Flow, Req, Ops, About, AboutTunnel, Running
<1>3. /\ inbounds' \subseteq Origin /\ Unique(inbounds')
      /\ {x.id : x \in inbounds'} \subseteq {x.id : x \in inbounds}
      /\ Bound' = Bound \ {r.id}
  BY <1>1 DEF Types, Unique, Bound
<1>4. Calm' = Calm /\ (Undisturbed' => Undisturbed) /\ torn' \in BOOLEAN /\ (torn => torn')
  BY <1>1 DEF Calm, Undisturbed, Types
<1>5. /\ Calm => Single(Bound) /\ r.wasArgo = (r.id \in Bound)
      /\ Undisturbed => Rests(procs, row.mode, status, Bound)
      /\ Calm /\ Whole(inbounds) => Serves(inbounds, clients)
  BY <1>1, <1>2, Known DEF Where, Feeds, Moved
<1>6. Whole(inbounds') => Whole(inbounds) /\ \A x \in inbounds : x.id # r.id
  <2> SUFFICES ASSUME Whole(inbounds') PROVE Whole(inbounds) /\ \A x \in inbounds : x.id # r.id
    OBVIOUS
  <2>1. {x.id : x \in inbounds} \subseteq {x.id : x \in inbounds'}
    BY <1>1 DEF Whole, Types
  <2>2. \A x \in inbounds' : x.id # r.id
    BY <1>1
  <2>3. QED
    BY <1>1, <2>1, <2>2 DEF Whole, Types
<1>7. CASE r.wasArgo
  <2>1. Turn(s, q)
    BY <1>7 DEF DeleteInbound, To, Then, Turn
  <2>2. q \in Req /\ q.pc = "cancel" /\ q.op = "delete"
    BY <1>1, <1>2 DEF Req, Pcs
  <2> HIDE DEF q
  <2>3. Flow(q) /\ About(q) /\ q.pc \notin Writing \cup {"live"}
    BY <2>2 DEF Flow, About, AboutTunnel, Writing
  <2>4. Calm => Bound' = {} /\ r.id \in Bound
    BY <1>3, <1>5, <1>7 DEF Single
  <2>5. Calm => Where(q, Bound')
    BY <2>2, <2>4 DEF Where, Single, Begins
  <2>6. Feeds(q, procs, row.mode, status, Bound')
    BY <2>2 DEF Feeds
  <2>7. ~(Calm /\ Whole(inbounds'))
    BY <1>6, <2>4 DEF Bound
  <2>8. QED
    BY <1>1, <1>2, <1>3, <1>4, <2>1, <2>2, <2>3, <2>5, <2>6, <2>7, Changed
<1>8. CASE ~r.wasArgo
  <2>1. Turn(s, Idle) /\ Idle.pc \notin Writing \cup {"live"}
    BY <1>8, IdleReq DEF DeleteInbound, End, Then, Turn, Writing
  <2>2. Calm => Bound' = Bound
    BY <1>3, <1>5, <1>8
  <2>3. ASSUME Calm, Whole(inbounds') PROVE Serves(inbounds', clients')
    <3>1. inbounds' = inbounds
      BY <1>1, <1>6, <2>3
    <3>2. \A x \in inbounds : OnOf(clients', x.id) = OnOf(clients, x.id)
      BY <1>1, <1>6, <2>3 DEF OnOf
    <3>3. PICK b \in BoundOf(inbounds) : Open(b, inbounds) /\ Gathers(b, inbounds, clients)
      BY <1>5, <1>6, <2>3 DEF Serves
    <3>4. OnOf(clients', b) = OnOf(clients, b)
      BY <3>2, <3>3 DEF Open
    <3>5. QED
      BY <3>1, <3>2, <3>3, <3>4 DEF Serves, Gathers
  <2>4. Undisturbed => Rests(procs, row.mode, status, Bound')
    BY <1>5, <2>2 DEF Undisturbed
  <2>5. QED
    BY <1>1, <1>2, <1>3, <1>4, <1>5, <2>1, <2>2, <2>3, <2>4, IdleReq, Changed
<1>9. QED
  BY <1>7, <1>8

(***************************************************************************)
(* The pages and the restart                                               *)
(***************************************************************************)
\* A request is sent: one about the tunnel from an up-to-date page while no
\* other is under way, or it is recorded as strayed.
LEMMA Asked ==
  ASSUME Inv, NEW t \in Tabs, NEW r \in Req, Flow(r), Ask(t, r),
         r.pc \notin Writing \cup {"live", "park", "users"},
         About(r) /\ ~Outdated(t) /\ Single(Bound) => Where(r, Bound),
         About(r) /\ ~Outdated(t) /\ Rests(procs, row.mode, status, Bound)
           => Feeds(r, procs, row.mode, status, Bound)
  PROVE  Inv'
<1>1. Types /\ RowInv /\ BoundInv /\ FeedInv /\ UsersInv
  BY DEF Inv, IInv
<1>2. /\ t \in Sources /\ req[t] = Idle /\ Turn(t, r)
      /\ strayed' = (strayed \/ (About(r) /\ (Outdated(t) \/ \E u \in Sources \ {t} : About(req[u]))))
      /\ UNCHANGED <<row, inbounds, clients, redacting, page, crossed, torn, procs, cmd, status, nextPid>>
  BY DEF Ask, Turn, db, sup, Sources, About
<1>3. /\ req'[t] = r /\ \A u \in Sources \ {t} : req'[u] = req[u]
  BY <1>1, <1>2, Turned
<1>4. Bound' = Bound /\ (Calm' => Calm) /\ (Undisturbed' => Undisturbed /\ Calm')
  BY <1>1, <1>2 DEF Bound, Calm, Undisturbed, Types
<1>5. Types'
  BY <1>1, <1>2, Turned DEF Types, Unique
<1>6. RowInv'
  BY <1>1, <1>2, IdleReq, RowKeeps DEF OthersKept
<1>7. Undisturbed' => \A p \in procs' : p.pid = cmd'
  BY <1>1, <1>2, <1>4 DEF FeedInv
<1>8. CASE ~About(r)
  <2>1. BoundInv'
    BY <1>1, <1>2, <1>4, <1>8, IdleReq, BoundKeeps
  <2>2. r.op = "provision" => r.pc # "save"
    BY DEF Writing
  <2>3. FeedInv'
    BY <1>1, <1>2, <1>4, <1>7, <1>8, <2>2, IdleReq, FeedKeeps
  <2>4. UsersInv'
    BY <1>1, <1>2, <1>4, <1>8, IdleReq, UsersKeep
  <2>5. QED
    BY <1>5, <1>6, <2>1, <2>3, <2>4 DEF Inv, IInv
<1>9. CASE About(r)
  <2>1. ~Nobody'
    BY <1>2, <1>3, <1>9 DEF Nobody
  <2>2. Calm' => /\ Nobody /\ ~Outdated(t) /\ Single(Bound)
                 /\ \A u \in Sources : About(req'[u]) => u = t
    BY <1>1, <1>2, <1>3, <1>4, <1>9, IdleReq DEF Calm, Nobody, BoundInv
  <2>3. BoundInv'
    BY <1>2, <1>3, <1>4, <2>1, <2>2 DEF BoundInv, Alone
  <2>4. Undisturbed' => Rests(procs, row.mode, status, Bound)
    BY <1>1, <1>4, <2>2 DEF FeedInv
  <2>5. r.op # "provision"
    BY <1>9 DEF About, AboutTunnel
  <2>6. \A u \in Sources : Undisturbed' /\ req'[u].op = "provision" /\ req'[u].pc = "save" => req'[u].row.mode = "fixed"
    BY <1>1, <1>3, <1>4, <2>5 DEF FeedInv
  <2>7. FeedInv'
    BY <1>2, <1>3, <1>4, <1>7, <2>1, <2>2, <2>4, <2>6 DEF FeedInv
  <2>8. UsersInv'
    BY <1>1, <1>2, <1>3, <1>4, <2>1, <2>2 DEF UsersInv, Moved
  <2>9. QED
    BY <1>5, <1>6, <2>3, <2>7, <2>8 DEF Inv, IInv
<1>10. QED
  BY <1>8, <1>9

Saved == {"cdn", "quic", "redact", "argo"}

LEMMA PutReq ==
  ASSUME NEW op \in Saved, NEW want \in Row
  PROVE  /\ Put(op, want) \in Req /\ Flow(Put(op, want))
         /\ Put(op, want).op = op /\ Put(op, want).pc = "load" /\ Put(op, want).want = want
         /\ Put(op, want).start = FALSE
BY IdleReq DEF Put, Saved, Req, Ops, Pcs, Flow, Idle, AboutTunnel

\* The panels of the other columns.
LEMMA PanelsKeep == ASSUME Inv, NEW t \in Tabs, CdnPanel(t) \/ QuicPanel(t) \/ LogPrivacyCard(t) PROVE Inv'
<1>1. page[t].row \in Row
  BY DEF Inv, IInv, Types
<1>0. ASSUME NEW op \in {"cdn", "quic", "redact"}, NEW want \in Row
      PROVE  /\ Put(op, want) \in Req /\ Flow(Put(op, want))
             /\ Put(op, want).op = op /\ Put(op, want).pc = "load"
  <2>1. op \in Saved
    BY <1>0 DEF Saved
  <2>2. QED
    BY <1>0, <2>1, PutReq
<1>2. ASSUME NEW op \in {"cdn", "quic", "redact"}, NEW want \in Row, Ask(t, Put(op, want)) PROVE Inv'
  <2>1. /\ Put(op, want) \in Req /\ Flow(Put(op, want))
        /\ Put(op, want).op = op /\ Put(op, want).pc = "load"
    BY <1>0, <1>2
  <2>2. ~About(Put(op, want))
    BY <2>1 DEF About, AboutTunnel
  <2>3. QED
    BY <1>2, <2>1, <2>2, Asked DEF Writing
<1>3. CASE CdnPanel(t)
  <2>1. PICK on \in BOOLEAN, ips \in CdnCard(page[t].row.pool) :
          Ask(t, Put("cdn", [page[t].row EXCEPT !.cdn = on, !.pool = ips]))
    BY <1>3 DEF CdnPanel
  <2>2. page[t].row.pool \subseteq Entries /\ Tested \subseteq Entries
    BY <1>1, AdvancedAssumption DEF Row, Tested, AdvancedAssumption
  <2>3. ips \subseteq Entries
    BY <2>1, <2>2 DEF CdnCard, addEntry, removeEntry, togglePool, isValidCdnEntry
  <2>4. [page[t].row EXCEPT !.cdn = on, !.pool = ips] \in Row
    BY <1>1, <2>3 DEF Row
  <2>5. QED
    BY <1>2, <2>1, <2>4
<1>4. CASE QuicPanel(t)
  <2>1. PICK on \in BOOLEAN : Ask(t, Put("quic", [page[t].row EXCEPT !.quic = on]))
    BY <1>4 DEF QuicPanel
  <2>2. [page[t].row EXCEPT !.quic = on] \in Row
    BY <1>1 DEF Row
  <2>3. QED
    BY <1>2, <2>1, <2>2
<1>5. CASE LogPrivacyCard(t)
  <2>1. [page[t].row EXCEPT !.redact = ~@] \in Row
    BY <1>1 DEF Row
  <2>2. QED
    BY <1>2, <1>5, <2>1 DEF LogPrivacyCard
<1>6. QED
  BY <1>3, <1>4, <1>5

LEMMA SaveThenStartKeeps == ASSUME Inv, NEW t \in Tabs, saveThenStart(t) PROVE Inv'
<1>1. Types /\ page[t].row \in Row
  BY DEF Inv, IInv, Types
<1>2. PICK want \in argoForm(t) :
        Ask(t, [Put("argo", want) EXCEPT !.start = argoInbound(t) # 0, !.id = argoInbound(t)])
  BY DEF saveThenStart
<1>3. want \in Row /\ want.mode # ""
  <2>0. PICK m \in {"temp", "fixed"} : \E tok \in Typed(m) : want = [page[t].row EXCEPT !.mode = m, !.token = tok]
    <3>1. want \in argoForm(t)
      BY <1>2
    <3>2. argoForm(t) = UNION {{[page[t].row EXCEPT !.mode = m, !.token = tok] : tok \in Typed(m)} : m \in {"temp", "fixed"}}
      BY DEF argoForm
    <3>3. PICK m \in {"temp", "fixed"} : want \in {[page[t].row EXCEPT !.mode = m, !.token = tok] : tok \in Typed(m)}
      BY <3>1, <3>2
    <3>4. QED
      BY <3>3
  <2>1. PICK tok \in Typed(m) : want = [page[t].row EXCEPT !.mode = m, !.token = tok]
    BY <2>0
  <2>2. tok \in BOOLEAN
    BY <2>1 DEF Typed
  <2>3. QED
    BY <1>1, <2>1, <2>2 DEF Row, Modes
<1>4. /\ Put("argo", want) \in Req /\ Put("argo", want).op = "argo"
      /\ Put("argo", want).pc = "load" /\ Put("argo", want).want = want
  BY <1>3, PutReq DEF Saved
<1> DEFINE r == [Put("argo", want) EXCEPT !.start = argoInbound(t) # 0, !.id = argoInbound(t)]
<1>5. argoInbound(t) \in Nat /\ (~Outdated(t) => argoInbound(t) = argoInboundPort)
  BY <1>1, PortShown
<1>6. /\ r \in Req /\ r.op = "argo" /\ r.pc = "load" /\ r.want = want /\ r.id = argoInbound(t)
      /\ r.start = (argoInbound(t) # 0)
  BY <1>4, <1>5 DEF Req
<1>7. Ask(t, r)
  BY <1>2
<1> HIDE DEF r
<1>8. Flow(r) /\ About(r) /\ r.pc \notin Writing \cup {"live", "park", "users"}
  BY <1>6 DEF Flow, Writing, About, AboutTunnel
<1>9. (argoInboundPort = 0 <=> Bound = {}) /\ (Bound # {} => argoInboundPort \in Bound)
  BY <1>1, PortOf
<1>10. ~Outdated(t) /\ Single(Bound) => Where(r, Bound)
  BY <1>5, <1>6, <1>9 DEF Where, Begins
<1>11. Rests(procs, row.mode, status, Bound) => Feeds(r, procs, row.mode, status, Bound)
  BY <1>3, <1>6 DEF Feeds
<1>12. QED
  BY <1>6, <1>7, <1>8, <1>10, <1>11, Asked

\* The requests that begin without having read anything.
LEMMA ButtonsKeep ==
  ASSUME Inv, NEW t \in Tabs,
         ArgoAutoStart(t) \/ stopTunnel(t) \/ ArgoCFApi(t) \/ ArgoOriginCard(t) \/ DeleteRow(t)
  PROVE  Inv'
<1>1. ASSUME NEW r \in Req, Ask(t, r),
             \/ r.id = 0 /\ <<r.op, r.pc>> \in {<<"start", "start">>, <<"stop", "cancel">>, <<"provision", "provision">>}
             \/ <<r.op, r.pc>> \in {<<"move", "origin">>, <<"delete", "wasArgo">>}
      PROVE  Inv'
  <2>2. Flow(r) /\ r.pc \notin Writing \cup {"live", "park", "users"}
    BY <1>1 DEF Flow, Writing, Running
  <2>3. Single(Bound) => Where(r, Bound)
    BY <1>1 DEF Where, Begins, Running
  <2>4. Rests(procs, row.mode, status, Bound) => Feeds(r, procs, row.mode, status, Bound)
    BY <1>1 DEF Feeds
  <2>5. QED
    BY <1>1, <2>2, <2>3, <2>4, Asked
<1>2. ASSUME NEW op \in Ops, NEW pc \in Pcs
      PROVE  /\ [Idle EXCEPT !.op = op, !.pc = pc] \in Req
             /\ [Idle EXCEPT !.op = op, !.pc = pc].id = 0
             /\ [Idle EXCEPT !.op = op, !.pc = pc].op = op
             /\ [Idle EXCEPT !.op = op, !.pc = pc].pc = pc
  BY IdleReq DEF Idle, Req
<1>3. ASSUME NEW op \in Ops, NEW pc \in Pcs, NEW id \in Nat
      PROVE  /\ [Idle EXCEPT !.op = op, !.pc = pc, !.id = id] \in Req
             /\ [Idle EXCEPT !.op = op, !.pc = pc, !.id = id].op = op
             /\ [Idle EXCEPT !.op = op, !.pc = pc, !.id = id].pc = pc
  BY IdleReq DEF Req
<1>4. \A i \in page[t].origins : i.id \in Nat
  BY DEF Inv, IInv, Types, Origin
<1>o. {"start", "stop", "provision", "move", "delete"} \subseteq Ops
  BY DEF Ops, AboutTunnel
<1>p. {"start", "cancel", "provision", "origin", "wasArgo"} \subseteq Pcs
  BY DEF Pcs
<1>5. CASE ArgoAutoStart(t)
  <2> DEFINE r == [Idle EXCEPT !.op = "start", !.pc = "start"]
  <2>1. r \in Req /\ r.id = 0 /\ r.op = "start" /\ r.pc = "start"
    BY <1>2, <1>o, <1>p
  <2>2. Ask(t, r)
    BY <1>5 DEF ArgoAutoStart
  <2> HIDE DEF r
  <2>3. QED
    BY <1>1, <2>1, <2>2
<1>6. CASE stopTunnel(t)
  <2> DEFINE r == [Idle EXCEPT !.op = "stop", !.pc = "cancel"]
  <2>0. "stop" \in Ops /\ "cancel" \in Pcs
    BY DEF Ops, AboutTunnel, Pcs
  <2>1. r \in Req /\ r.id = 0 /\ r.op = "stop" /\ r.pc = "cancel"
    BY <1>2, <2>0
  <2>2. Ask(t, r)
    BY <1>6 DEF stopTunnel
  <2> HIDE DEF r
  <2>3. QED
    BY <1>1, <2>1, <2>2
<1>7. CASE ArgoCFApi(t)
  <2> DEFINE r == [Idle EXCEPT !.op = "provision", !.pc = "provision"]
  <2>1. r \in Req /\ r.id = 0 /\ r.op = "provision" /\ r.pc = "provision"
    BY <1>2, <1>o, <1>p
  <2>2. Ask(t, r)
    BY <1>7 DEF ArgoCFApi
  <2> HIDE DEF r
  <2>3. QED
    BY <1>1, <2>1, <2>2
<1>8. CASE ArgoOriginCard(t)
  <2>1. PICK i \in page[t].origins : Ask(t, [Idle EXCEPT !.op = "move", !.pc = "origin", !.id = i.id])
    BY <1>8 DEF ArgoOriginCard
  <2> DEFINE r == [Idle EXCEPT !.op = "move", !.pc = "origin", !.id = i.id]
  <2>2. i.id \in Nat
    BY <1>4
  <2>3. r \in Req /\ r.op = "move" /\ r.pc = "origin"
    BY <1>3, <1>o, <1>p, <2>2
  <2>4. Ask(t, r)
    BY <2>1
  <2> HIDE DEF r
  <2>5. QED
    BY <1>1, <2>3, <2>4
<1>9. CASE DeleteRow(t)
  <2>1. PICK i \in page[t].origins : Ask(t, [Idle EXCEPT !.op = "delete", !.pc = "wasArgo", !.id = i.id])
    BY <1>9 DEF DeleteRow
  <2> DEFINE r == [Idle EXCEPT !.op = "delete", !.pc = "wasArgo", !.id = i.id]
  <2>2. i.id \in Nat
    BY <1>4
  <2>3. r \in Req /\ r.op = "delete" /\ r.pc = "wasArgo"
    BY <1>3, <1>o, <1>p, <2>2
  <2>4. Ask(t, r)
    BY <2>1
  <2> HIDE DEF r
  <2>5. QED
    BY <1>1, <2>3, <2>4
<1>10. QED
  BY <1>5, <1>6, <1>7, <1>8, <1>9

\* Steps that touch nothing that the invariant speaks of, but what a page shows.
LEMMA ElsewhereKeeps ==
  ASSUME Inv, UNCHANGED <<row, inbounds, clients, redacting, sup, req, past>>,
         page' \in [Tabs -> [row: Row, origins: SUBSET Origin, status: Statuses]]
  PROVE  Inv'
<1>1. Bound' = Bound /\ Calm' = Calm /\ Undisturbed' = Undisturbed
  BY DEF Bound, Calm, Undisturbed, past
<1>2. Types' /\ RowInv' /\ BoundInv'
  BY <1>1 DEF Inv, IInv, Types, RowInv, Flagged, BoundInv, Alone, Nobody, past, sup
<1>3. FeedInv' /\ UsersInv'
  BY <1>1 DEF Inv, IInv, FeedInv, Nobody, UsersInv, past, sup
<1>4. QED
  BY <1>2, <1>3 DEF Inv, IInv

LEMMA RestartKeeps == ASSUME Inv, Restart PROVE Inv'
<1> DEFINE b == [Idle EXCEPT !.op = "boot", !.pc = "boot"]
<1>1. Types /\ BoundInv /\ FeedInv /\ UsersInv
  BY DEF Inv, IInv
<1>2. /\ req' = [s \in Sources |-> IF s = "boot" THEN b ELSE Idle]
      /\ procs' = {} /\ redacting' = row.redact /\ torn' = (torn \/ \E s \in Sources : req[s] # Idle)
      /\ UNCHANGED <<row, inbounds, clients, page, crossed, strayed, nextPid>>
  BY DEF Restart, db
<1>3. b \in Req /\ Flow(b) /\ b.pc = "boot" /\ b.op = "boot"
  BY IdleReq DEF Req, Ops, Pcs, AboutTunnel, Flow
<1> HIDE DEF b
<1>4. Bound' = Bound /\ (Calm' => Calm /\ Nobody) /\ (Undisturbed' => Calm')
  BY <1>1, <1>2, IdleReq DEF Bound, Calm, Nobody, Undisturbed, Types
<1>5. Types'
  BY <1>1, <1>2, <1>3, IdleReq DEF Types, Unique, Row
<1>6. \A s \in Sources : req'[s] \in {b, Idle} /\ (req'[s] = b => s = "boot")
  BY <1>2, <1>3, IdleReq
<1>7. RowInv'
  BY <1>2, <1>3, <1>6, IdleReq DEF RowInv, Flagged, OthersKept, Writing
<1>8. Single(Bound) => Where(b, Bound)
  BY <1>3 DEF Where, Running
<1>9. BoundInv'
  BY <1>1, <1>2, <1>4, <1>6, <1>8, IdleReq DEF BoundInv, Alone
<1>10. Rests({}, row'.mode, status', Bound') /\ Feeds(b, {}, row'.mode, status', Bound')
  BY <1>3 DEF Feeds, Rests, Fed, Dials
<1>11. FeedInv'
  BY <1>2, <1>3, <1>6, <1>10, IdleReq DEF FeedInv
<1>12. UsersInv'
  BY <1>1, <1>2, <1>3, <1>4, <1>6, IdleReq DEF UsersInv, Moved
<1>13. QED
  BY <1>5, <1>7, <1>9, <1>11, <1>12 DEF Inv, IInv

\* What a page shows is refreshed.
LEMMA RefetchKeeps == ASSUME Inv, SupTypes, NEW t \in Tabs, Refetch(t) PROVE Inv'
<1>1. Shown \in [row: Row, origins: SUBSET Origin, status: Statuses]
  BY DEF Inv, IInv, Types, SupTypes, Shown
<1>2. page' \in [Tabs -> [row: Row, origins: SUBSET Origin, status: Statuses]]
  BY <1>1 DEF Inv, IInv, Types, Refetch
<1>3. QED
  BY <1>2, ElsewhereKeeps DEF Refetch, db

LEMMA AsideKeeps == ASSUME Inv, NEW t \in Tabs, CdnInsights(t) \/ PolicyCard(t) PROVE Inv'
<1>1. page \in [Tabs -> [row: Row, origins: SUBSET Origin, status: Statuses]]
  BY DEF Inv, IInv, Types
<1>2. UNCHANGED <<row, inbounds, clients, redacting, sup, req, past, page>>
  BY DEF CdnInsights, PolicyCard, DeleteCDNNetwork, PutCDNPolicy
<1>3. QED
  BY <1>1, <1>2, ElsewhereKeeps

LEMMA SupKeeps == ASSUME Types, SupTypes, [Next]_vars PROVE SupTypes'
<1>1. ASSUME UNCHANGED sup PROVE SupTypes'
  BY <1>1 DEF SupTypes, sup
<1>2. ASSUME NEW t \in Tabs, Refetch(t) \/ Operator(t) PROVE UNCHANGED sup
  BY <1>2 DEF Refetch, Operator, CdnPanel, QuicPanel, LogPrivacyCard, CdnInsights, PolicyCard,
              saveThenStart, ArgoAutoStart, stopTunnel, ArgoCFApi, ArgoOriginCard, DeleteRow,
              Ask, DeleteCDNNetwork, PutCDNPolicy
<1>3. ASSUME NEW s \in Sources, Serve(s) PROVE SupTypes'
  <2>1. CASE StopCancel(s) \/ StopReset(s)
    BY <2>1 DEF StopCancel, StopReset, Kill, SupTypes, Statuses
  <2>2. CASE Spawn(s)
    <3>1. req[s] \in Req /\ nextPid \in Nat \ {0}
      BY DEF Types
    <3>2. [pid |-> nextPid, dial |-> req[s].id, mode |-> req[s].row.mode] \in [pid: Nat \ {0}, dial: Nat, mode: Modes]
      BY <3>1 DEF Req, Row
    <3>3. QED
      BY <2>2, <3>1, <3>2 DEF Spawn, SupTypes, Statuses
  <2>3. CASE Await(s)
    BY <2>3 DEF Await, SupTypes, Statuses
  <2>4. CASE ~(StopCancel(s) \/ StopReset(s) \/ Spawn(s) \/ Await(s))
    <3>1. UNCHANGED sup
      BY <1>3, <2>4 DEF Serve, Load, Save, SetEnabled, ArgoCFProvision, ArgoStart, SaveEnabled, Launch,
         SetArgoOrigin, FlagTarget, ParkCurrent, MoveUsers, RestartTemp, WasArgo, DeleteInbound, ClearArgo
    <3>2. QED
      BY <1>1, <3>1
  <2>5. QED
    BY <2>1, <2>2, <2>3, <2>4
<1>4. CASE AutoStartArgoIfEnabled
  BY <1>1, <1>4 DEF AutoStartArgoIfEnabled
<1>5. CASE Exit \/ Restart
  BY <1>5 DEF Exit, Restart, Kill, SupTypes, Statuses
<1>6. CASE UNCHANGED vars
  BY <1>1, <1>6 DEF vars
<1>7. QED
  BY <1>1, <1>2, <1>3, <1>4, <1>5, <1>6 DEF Next

-----------------------------------------------------------------------------
LEMMA InitHolds == Init => Inv /\ SupTypes
<1> SUFFICES ASSUME Init PROVE Inv /\ SupTypes
  OBVIOUS
<1>1. NoRow \in Row
  BY DEF NoRow, Row, Modes
<1>2. Unique(Origins) /\ Single(Bound)
  BY AdvancedAssumption DEF AdvancedAssumption, Unique, Single, Bound, Init
<1>3. \A s \in Sources : req[s] = Idle
  BY DEF Init
<1>4. Nobody
  BY <1>3, IdleReq DEF Nobody
<1>5. Types
  <2>1. Shown \in [row: Row, origins: SUBSET Origin, status: Statuses]
    BY <1>1, AdvancedAssumption DEF AdvancedAssumption, Init, Shown, Origin, Statuses
  <2>2. page \in [Tabs -> [row: Row, origins: SUBSET Origin, status: Statuses]]
    BY <2>1 DEF Init
  <2>3. req \in [Sources -> Req] /\ \A s \in Sources : Flow(req[s])
    BY <1>3, IdleReq DEF Init
  <2>4. inbounds = Origins /\ Origins \subseteq Origin
    BY AdvancedAssumption DEF AdvancedAssumption, Init, Origin
  <2>5. /\ row = NoRow /\ redacting = FALSE /\ nextPid = 1
        /\ crossed = FALSE /\ strayed = FALSE /\ torn = FALSE
    BY DEF Init
  <2>6. row \in Row /\ nextPid \in Nat \ {0}
    BY <1>1, <2>5
  <2>b. redacting \in BOOLEAN /\ crossed \in BOOLEAN /\ strayed \in BOOLEAN /\ torn \in BOOLEAN
    BY <2>5, Zenon
  <2>7. inbounds \subseteq Origin /\ Unique(inbounds) /\ {i.id : i \in inbounds} \subseteq {i.id : i \in Origins}
    BY <1>2, <2>4
  <2>8. QED
    BY <2>2, <2>3, <2>6, <2>b, <2>7 DEF Types
<1>6. RowInv
  BY <1>3, IdleReq DEF RowInv, Flagged, OthersKept, Writing, Init, NoRow
<1>7. BoundInv
  BY <1>2, <1>4 DEF BoundInv, Alone, Nobody
<1>8. FeedInv
  <2>1. procs = {}
    BY DEF Init
  <2>2. QED
    BY <1>3, <1>4, <2>1, IdleReq DEF FeedInv, Nobody, Rests, Fed, Dials
<1>9. UsersInv
  BY <1>4 DEF UsersInv, Whole, FedAtFirst, Nobody, Init
<1>10. SupTypes
  BY DEF SupTypes, Init, Statuses
<1>11. QED
  BY <1>5, <1>6, <1>7, <1>8, <1>9, <1>10 DEF Inv, IInv

LEMMA NextKeeps == ASSUME Inv, SupTypes, [Next]_vars PROVE Inv'
<1>1. ASSUME NEW t \in Tabs, Refetch(t) \/ Operator(t) PROVE Inv'
  BY <1>1, RefetchKeeps, AsideKeeps, PanelsKeep, SaveThenStartKeeps, ButtonsKeep DEF Operator
<1>2. ASSUME NEW s \in Sources, Serve(s) PROVE Inv'
  <2>1. CASE Load(s) \/ Save(s) \/ SetEnabled(s) \/ ArgoCFProvision(s) \/ StopCancel(s) \/ StopReset(s) \/ Spawn(s) \/ Await(s)
    BY <2>1, LoadKeeps, SaveKeeps, SetEnabledKeeps, ProvisionKeeps, StopCancelKeeps, StopResetKeeps,
       SpawnKeeps, AwaitKeeps
  <2>2. CASE ArgoStart(s) \/ SaveEnabled(s) \/ Launch(s) \/ SetArgoOrigin(s) \/ FlagTarget(s) \/ ParkCurrent(s)
    BY <2>2, ArgoStartKeeps, SaveEnabledKeeps, LaunchKeeps, SetArgoOriginKeeps, FlagTargetKeeps, ParkCurrentKeeps
  <2>3. CASE MoveUsers(s) \/ RestartTemp(s) \/ WasArgo(s) \/ DeleteInbound(s) \/ ClearArgo(s)
    BY <2>3, MoveUsersKeeps, RestartTempKeeps, WasArgoKeeps, DeleteInboundKeeps, ClearArgoKeeps
  <2>4. QED
    BY <1>2, <2>1, <2>2, <2>3 DEF Serve
<1>3. CASE AutoStartArgoIfEnabled \/ Exit \/ Restart
  BY <1>3, AutoStartKeeps, ExitKeeps, RestartKeeps
<1>4. CASE UNCHANGED vars
  <2>1. page \in [Tabs -> [row: Row, origins: SUBSET Origin, status: Statuses]]
    BY DEF Inv, IInv, Types
  <2>2. UNCHANGED <<row, inbounds, clients, redacting, sup, req, past, page>>
    BY <1>4 DEF vars, db
  <2>3. QED
    BY <2>1, <2>2, ElsewhereKeeps
<1>5. QED
  BY <1>1, <1>2, <1>3, <1>4 DEF Next

LEMMA Invariance == Spec => [](Inv /\ SupTypes)
<1>1. Inv => Types
  BY DEF Inv, IInv
<1>2. Inv /\ SupTypes /\ [Next]_vars => (Inv /\ SupTypes)'
  BY <1>1, NextKeeps, SupKeeps
<1>3. QED
  BY InitHolds, <1>2, PTL DEF Spec

(***************************************************************************)
(* The theorems                                                            *)
(***************************************************************************)
\* Every field keeps its type, a request passes the places of its kind only, and
\* no inbound comes up twice or from nowhere.
THEOREM AdvancedTypes == Spec => [](Types /\ SupTypes)
<1>1. Inv => Types
  BY DEF Inv, IInv
<1>2. QED
  BY Invariance, <1>1, PTL

\* The flag of the logs is what the row says when nothing is under way, unless
\* writers of the row crossed or a request was torn (SetEnabled).
THEOREM FlagFollows == Spec => []RedactIsLive
<1>1. Inv => RedactIsLive
  BY IdleReq DEF Inv, IInv, RowInv, Flagged, AtRest, RedactIsLive
<1>2. QED
  BY Invariance, <1>1, PTL

\* What runs dials the inbound that is bound, whatever starts, stops, moves,
\* deletions, exits and restarts have passed, one at a time.
THEOREM TunnelFed == Spec => []TunnelFeedsOrigin
<1>1. Inv => TunnelFeedsOrigin
  <2> SUFFICES ASSUME Inv, AtRest, Undisturbed, NEW p \in procs
               PROVE  /\ argoInboundPort # 0
                      /\ p.pid = cmd
                      /\ p.mode = "temp" /\ row.mode = "temp" /\ status = "running" => p.dial = argoInboundPort
    BY DEF TunnelFeedsOrigin, Undisturbed, Calm
  <2>1. Types /\ BoundInv /\ FeedInv /\ Nobody
    BY IdleReq DEF Inv, IInv, AtRest, Nobody
  <2>2. Single(Bound) /\ Rests(procs, row.mode, status, Bound) /\ p.pid = cmd
    BY <2>1 DEF BoundInv, FeedInv, Undisturbed
  <2>3. Bound # {} /\ argoInboundPort # 0 /\ argoInboundPort \in Bound
    BY <2>1, <2>2, PortOf DEF Rests, Fed
  <2>4. QED
    BY <2>2, <2>3 DEF Rests, Dials, Single
<1>2. QED
  BY Invariance, <1>1, PTL

\* As many inbounds as at first are the inbounds of the beginning.
LEMMA AllThere == ASSUME Types, Cardinality(inbounds) = Cardinality(Origins)
                  PROVE  {i.id : i \in inbounds} = {i.id : i \in Origins}
<1> DEFINE f == [i \in inbounds |-> CHOOSE o \in Origins : o.id = i.id]
<1>1. \A i \in inbounds : f[i] \in Origins /\ f[i].id = i.id
  <2> TAKE i \in inbounds
  <2>1. \E o \in Origins : o.id = i.id
    BY DEF Types
  <2>2. QED
    BY <2>1
<1>2. f \in [inbounds -> Origins]
  BY <1>1
<1> HIDE DEF f
<1>i. f \in Injection(inbounds, Origins)
  BY <1>1, <1>2 DEF Injection, IsInjective, Types, Unique
<1>3. f \in Surjection(inbounds, Origins)
  BY <1>i, FS_Injection, AdvancedAssumption DEF AdvancedAssumption
<1>4. \A o \in Origins : \E i \in inbounds : f[i] = o
  BY <1>3 DEF Surjection
<1>5. QED
  BY <1>1, <1>4 DEF Types

\* If the tunnel is fed at first, a move of it takes its users along: whoever is
\* on an inbound that was parked is on the one that feeds the tunnel now.
THEOREM NobodyLeftBehind ==
  ASSUME FedAtFirst
  PROVE  Spec => []NobodyLosesTheTunnel
<1>1. Inv => NobodyLosesTheTunnel
  <2> SUFFICES ASSUME Inv, AtRest, Calm, Cardinality(inbounds) = Cardinality(Origins)
               PROVE  /\ Cardinality(Bound) = 1 /\ Get(argoInboundPort).on
                      /\ \A i \in inbounds : i.standby => On(i.id) \subseteq On(argoInboundPort)
    BY DEF NobodyLosesTheTunnel, Calm
  <2>1. Types /\ BoundInv /\ UsersInv /\ Nobody
    BY IdleReq DEF Inv, IInv, AtRest, Nobody
  <2>2. Single(Bound) /\ Serves(inbounds, clients)
    BY <2>1, AllThere DEF BoundInv, UsersInv, Whole
  <2>3. PICK b \in Bound : Open(b, inbounds) /\ Gathers(b, inbounds, clients)
    BY <2>2, BoundIs DEF Serves
  <2>4. Bound = {b} /\ argoInboundPort = b
    BY <2>1, <2>2, <2>3, PortOf DEF Single
  <2>5. Cardinality(Bound) = 1
    BY <2>4, FS_Singleton
  <2>6. Get(b).on
    <3>1. PICK i \in inbounds : i.id = b /\ i.on
      BY <2>3 DEF Open
    <3>2. Has(b)
      BY <3>1 DEF Has
    <3>3. i = Get(b)
      BY <2>1, <3>1, <3>2, GetOf
    <3>4. QED
      BY <3>1, <3>3
  <2>7. \A id : On(id) = OnOf(clients, id)
    BY DEF On, OnOf
  <2>8. QED
    BY <2>3, <2>4, <2>5, <2>6, <2>7 DEF Gathers
<1>2. QED
  BY Invariance, <1>1, PTL

\* Who writes the row held it, and leaves every column but those of its slice as
\* it is unless another held the row as well.
LEMMA SliceWritten ==
  ASSUME Inv, NEW s \in Sources, req[s].pc \in Writing, WriteRow(s), req'[s].pc # req[s].pc,
         NEW c \in DOMAIN row, row'[c] # row[c]
  PROVE  crossed' \/ \E u \in Sources : req'[u] # req[u] /\ Holds(u) /\ c \in Slice(req[u].op)
<1>1. ~crossed => OthersKept(req[s], row)
  BY Known
<1>2. DOMAIN row = DOMAIN NoRow /\ crossed \in BOOLEAN
  BY DEF Inv, IInv, Types, Row, NoRow
<1>3. row' = req[s].row /\ (crossed => crossed')
  BY DEF WriteRow
<1>4. ~crossed => c \in Slice(req[s].op)
  BY <1>1, <1>2, <1>3 DEF OthersKept
<1>5. Holds(s) /\ req'[s] # req[s]
  BY DEF Holds, Writing
<1>6. QED
  BY <1>3, <1>4, <1>5

\* A panel, a start and a deletion write the columns of their slice only, from
\* pages however old, unless two writers of the row held it at once.
THEOREM SlicesKept == Spec => OwnSliceOnly
<1>1. ASSUME Inv, [Next]_vars
      PROVE  [\A c \in DOMAIN row : row'[c] # row[c] =>
                crossed' \/ \E s \in Sources : req'[s] # req[s] /\ Holds(s) /\ c \in Slice(req[s].op)]_vars
  <2> SUFFICES ASSUME Next, NEW c \in DOMAIN row, row'[c] # row[c]
               PROVE  crossed' \/ \E s \in Sources : req'[s] # req[s] /\ Holds(s) /\ c \in Slice(req[s].op)
    BY <1>1
  <2>1. PICK s \in Sources : Save(s) \/ SaveEnabled(s) \/ ClearArgo(s)
    BY DEF Next, Refetch, Operator, CdnPanel, QuicPanel, LogPrivacyCard, CdnInsights, PolicyCard,
           saveThenStart, ArgoAutoStart, stopTunnel, ArgoCFApi, ArgoOriginCard, DeleteRow, Ask,
           DeleteCDNNetwork, PutCDNPolicy, Serve, Load, SetEnabled, ArgoCFProvision, StopCancel,
           StopReset, Spawn, Await, ArgoStart, Launch, SetArgoOrigin, FlagTarget, ParkCurrent, MoveUsers,
           RestartTemp, WasArgo, DeleteInbound, AutoStartArgoIfEnabled, Exit, Restart, db
  <2>2. req[s].pc \in Writing /\ WriteRow(s)
    BY <2>1 DEF Save, SaveEnabled, ClearArgo, At, Writing, db
  <2>3. req'[s].pc # req[s].pc
    <3>0. req \in [Sources -> Req]
      BY <1>1 DEF Inv, IInv, Types
    <3>1. req \in [Sources -> Req] /\ s \in Sources /\ req[s] \in Req
      BY <2>1, <3>0
    <3>2. CASE Save(s)
      <4>1. req[s].pc = "save"
        BY <3>2 DEF Save, At
      <4>2. \/ To(s, "live")
            \/ Then(s, [Idle EXCEPT !.op = "start", !.pc = "start", !.id = req[s].id])
            \/ End(s)
        BY <3>2 DEF Save
      <4>3. req'[s].pc \in {"live", "start", "idle"}
        BY <3>1, <4>2, IdleReq DEF To, Then, End, Req
      <4>4. QED
        BY <4>1, <4>3
    <3>3. CASE SaveEnabled(s)
      BY <3>1, <3>3 DEF SaveEnabled, At, To, Then, Req
    <3>4. CASE ClearArgo(s)
      <4>1. At(s, "saveCleared") /\ End(s)
        BY <2>1, <3>4 DEF ClearArgo, db
      <4>2. QED
        BY <3>1, <4>1, IdleReq DEF At, End, Then
    <3>5. QED
      BY <2>1, <3>2, <3>3, <3>4
  <2>4. QED
    BY <1>1, <2>2, <2>3, SliceWritten
<1>2. QED
  BY Invariance, <1>1, PTL DEF Spec, OwnSliceOnly
=============================================================================
