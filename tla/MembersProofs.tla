---------------------------- MODULE MembersProofs ----------------------------
(***************************************************************************)
(* Members, proved for every number of pages, inbounds, users and bounds.  *)
(* The invariant has three layers, each on top of the one before: what is  *)
(* true whatever the pages do to each other, what is true while no two     *)
(* requests have overlapped, and what is true while, besides, no statement *)
(* failed and no page took a bundle's seed from under its user.            *)
(***************************************************************************)
EXTENDS Members, FiniteSetTheorems, WellFoundedInduction, TLAPS

Client == [id: Nat, ib: Inbounds, email: Emails, on: BOOLEAN, who: Int]
Sub    == [id: Nat, seed: Nat, allowed: SUBSET Inbounds, revoked: BOOLEAN, token: Int, who: Int]
Ops == {"none", "create", "update", "delete", "add"}
Pcs == {"none", "list", "count", "insert", "sub", "clients", "collide", "save", "rlist",
        "remove", "survivors", "scope", "inbound", "next", "dsubs", "dsub", "dclient"}
Req == [op: Ops, pc: Pcs, email: Emails \cup {Nobody}, new: Emails \cup {Nobody},
        ids: SUBSET Inbounds, touch: BOOLEAN, on: BOOLEAN, cur: SUBSET Client,
        todo: SUBSET Inbounds, keep: SUBSET Client, rest: SUBSET Emails,
        made: SUBSET (Nat \X Inbounds), scope: SUBSET Sub, at: Nat, into: Nat, who: Int]

\* What a request holds at each point, whatever the other pages do.
Shape(r) ==
  /\ r \in Req
  /\ r.pc \notin {"none", "inbound", "next"} => r.email \in Emails
  /\ r.pc = "clients" /\ r.op # "delete" => r.new \in Emails
  /\ r.pc \in {"collide", "save"} => r.new \in Emails
  /\ r.pc \in {"list", "sub"} => r.op = "create"
  /\ r.pc \notin {"none", "list", "sub", "count", "insert"} => r.op # "create"
  /\ r.pc = "count" /\ r.op = "create" => r.todo # {} \/ r.made # {}
  /\ r.pc = "insert" => r.at \in r.todo
  /\ r.pc = "sub" => r.made # {}
  /\ r.pc \in {"inbound", "next"} => r.op = "add"
  /\ r.op = "add" => r.into \in Inbounds
  /\ r.pc = "scope" /\ r.scope # {} => r.keep # {}
Settled(r) ==
  /\ r.pc = "save"  => r.keep # {}
  /\ r.pc = "count" => r.todo # {}
Dated(r, ss, n, m) ==
  /\ r.who <= m
  /\ \A c \in r.cur \cup r.keep : c.id < n /\ c.who <= m
  /\ \A p \in r.made : p[1] < n /\ \A s \in ss : s.id # p[1]

Types ==
  /\ inbounds \subseteq Inbounds /\ gone \subseteq Inbounds
  /\ clients \subseteq Client /\ subs \subseteq Sub /\ nextId \in Nat
  /\ DOMAIN req = Tabs /\ \A t \in Tabs : Shape(req[t])
  /\ users \in [Tabs -> SUBSET [email: Emails, ibs: SUBSET Inbounds, on: BOOLEAN]]
  /\ edit \in [Tabs -> [email: Emails \cup {Nobody}, members: SUBSET Inbounds, ready: BOOLEAN, on: BOOLEAN]]
  /\ \A t \in Tabs : edit[t] = Closed \/ edit[t].email \in Emails
  /\ bulk \in [busy: BOOLEAN, ids: SUBSET Nat, todo: SUBSET Nat, failed: Nat]
  /\ overlapped \in BOOLEAN /\ parted \in BOOLEAN
  /\ moves \in Nat /\ faults \in Nat
Dates ==
  /\ \A c \in clients : c.id < nextId /\ c.who <= moves
  /\ \A s \in subs : s.id < nextId /\ s.seed < nextId /\ s.who <= moves /\ s.token <= moves
  /\ \A t \in Tabs : Dated(req[t], subs, nextId, moves)
Distinct ==
  /\ \A c, d \in clients : c.id = d.id => c = d
  /\ \A s, x \in subs : s.id = x.id => s = x
  /\ \A t, u \in Tabs : t # u => \A p \in req[t].made, q \in req[u].made : p[1] # q[1]
Limits == \A s \in subs : s.allowed # {}

Lone(r, cs, ins) ==
  /\ \A c \in cs : c.ib \in ins
  /\ \A c, d \in cs : c.email = d.email /\ c.ib = d.ib => c = d
  /\ \A c, d \in cs : c.email = d.email => c.who = d.who
  /\ r.pc = "list" => \A c \in cs : c.who # r.who
  /\ r.pc \in {"collide", "save", "dsubs", "dsub", "dclient"} =>
       r.keep \subseteq cs /\ \A k \in r.keep : k.who = r.who
  /\ r.pc = "collide" => r.keep = {c \in cs : c.email = r.email} /\ r.keep # {}
  /\ r.pc = "dsubs" => r.cur = r.keep
  /\ r.pc = "save" =>
       /\ \A k, c \in r.keep : k.email = c.email
       /\ \A k \in r.keep, c \in cs : c.email \in {k.email, r.new} /\ c.ib = k.ib => c = k
       /\ \A c \in cs : c.email = r.new => c.who = r.who
       /\ r.keep = {} => \E c \in cs : c.email = r.new
  /\ r.pc = "rlist" => \E c \in cs : c.email = r.email
  /\ r.pc \in {"rlist", "count", "insert", "remove", "survivors"} =>
       \A c \in cs : c.email = r.email => c.who = r.who
  /\ r.pc \in {"count", "insert"} =>
       /\ r.todo \subseteq ins
       /\ r.op = "create" => \A c \in cs : c.who = r.who => c.on /\ c.email = r.email
       /\ r.op # "create" => r.cur # {} /\ r.cur \subseteq cs /\ r.keep \subseteq r.cur
  /\ r.pc = "insert" => \A c \in cs : c.email = r.email => c.ib # r.at
  /\ r.pc = "remove" => r.keep \subseteq cs \cap r.cur
  /\ r.pc \in {"count", "insert", "remove", "survivors"} /\ r.op # "create" =>
       \A c \in r.cur : c.who = r.who
  /\ r.pc \in {"list", "count", "insert", "sub"} /\ r.op = "create" =>
       \A p \in r.made : \E c \in cs : c.id = p[1] /\ c.who = r.who
Sure(r, cs, ss) ==
  /\ \A s \in ss, c \in cs : c.id = s.seed => c.who = s.who
  /\ \A c, d \in cs : c.who = d.who => c.email = d.email \/ (r.pc = "save" /\ c.who = r.who)
  /\ \A s \in ss, c \in cs : c.who = s.who =>
       \/ \E d \in cs : d.id = s.seed
       \/ s.who = r.who /\ r.pc \in {"remove", "survivors", "scope", "dclient"}
  /\ r.pc = "save" => \A c \in cs : c.who = r.who => c.email = r.new \/ c \in r.keep
  /\ r.pc \in {"rlist", "count", "insert", "remove", "survivors", "scope"} =>
       \A c \in cs : c.who = r.who => c.email = r.email
  /\ r.pc \in {"remove", "survivors"} => \A s \in ss :
       /\ s.who = r.who => \E c \in cs \cup r.cur : c.id = s.seed
       /\ \A c \in r.cur : c.id = s.seed => s.who = r.who
  /\ r.pc = "scope" =>
       /\ r.keep \subseteq cs /\ \A k \in r.keep : k.who = r.who
       /\ \A s \in ss, c \in cs : s.who = r.who /\ c.who = r.who =>
            (\E d \in cs : d.id = s.seed) \/ \E z \in r.scope : z.id = s.id
       /\ \A z \in r.scope, s \in ss : z.id = s.id => s.who = r.who
  /\ r.pc \in {"collide", "dsubs", "dsub", "dclient"} => \A c \in cs : c.who = r.who => c \in r.keep
  /\ r.pc \in {"list", "count", "insert", "sub"} /\ r.op = "create" => \A s \in ss : s.who # r.who

OneRequest == \A t, u \in Tabs : req[t] # Idle /\ req[u] # Idle => t = u
LoneInv ==
  ~overlapped =>
    /\ OneRequest
    /\ ~Busy => Lone(Idle, clients, inbounds)
    /\ \A t \in Tabs : req[t] # Idle => Lone(req[t], clients, inbounds)
SureInv ==
  ~overlapped /\ ~parted /\ faults = 0 =>
    /\ ~Busy => Sure(Idle, clients, subs)
    /\ \A t \in Tabs : req[t] # Idle => Sure(req[t], clients, subs)
AllSettled == \A t \in Tabs : Settled(req[t])
IInv == Types /\ Dates /\ Distinct /\ Limits /\ AllSettled /\ LoneInv /\ SureInv

LEMMA MinOfNat ==
  ASSUME NEW S \in SUBSET Nat, S # {}
  PROVE  Min(S) \in S /\ \A y \in S : Min(S) <= y
<1> DEFINE R == OpToRel(<, Nat)
<1>r. \A x, y \in Nat : x < y => <<x, y>> \in R
  BY DEF OpToRel
<1>w. IsWellFoundedOn(R, Nat)
  BY NatLessThanWellFounded
<1> HIDE DEF R
<1>1. \E x \in S : \A y \in S : ~(<<y, x>> \in R)
  BY <1>w, WFMin
<1>2. \E x \in S : \A y \in S : x <= y
  <2>1. PICK x \in S : \A y \in S : ~(<<y, x>> \in R)
    BY <1>1
  <2>2. \A y \in S : ~(y < x)
    BY <2>1, <1>r
  <2>3. QED
    BY <2>2
<1>3. QED
  BY <1>2 DEF Min

LEMMA MaxOfFinite ==
  ASSUME NEW S \in SUBSET Nat, S # {}, IsFiniteSet(S)
  PROVE  Max(S) \in S /\ \A y \in S : Max(S) >= y
<1> DEFINE Bounded(T) == \E x \in T : \A y \in T : x >= y
           Sizes == {n \in Nat : \E T \in SUBSET Nat : /\ T # {} /\ IsFiniteSet(T)
                                                       /\ Cardinality(T) = n /\ ~Bounded(T)}
<1>1. ASSUME Sizes # {} PROVE FALSE
  <2>1. Sizes \in SUBSET Nat
    OBVIOUS
  <2>2. PICK n \in Sizes : \A m \in Sizes : n <= m
    BY <1>1, <2>1, MinOfNat
  <2>3. PICK T \in SUBSET Nat : /\ T # {} /\ IsFiniteSet(T)
                                /\ Cardinality(T) = n /\ ~Bounded(T)
    BY <2>2
  <2>4. PICK x \in T : TRUE
    BY <2>3
  <2>5. IsFiniteSet(T \ {x}) /\ Cardinality(T \ {x}) = n - 1
    BY <2>3, <2>4, FS_RemoveElement
  <2>6. T \ {x} \in SUBSET Nat /\ n - 1 \in Nat
    BY <2>5, FS_CardinalityType
  <2>7. ~(n <= n - 1) /\ n \in Nat
    BY <2>2, <2>1
  <2>8. n - 1 \notin Sizes
    BY <2>2, <2>7
  <2>9. T \ {x} = {} \/ Bounded(T \ {x})
    BY <2>5, <2>6, <2>8
  <2>10. Bounded(T)
    <3>1. CASE T \ {x} = {}
      BY <3>1, <2>4, <2>3
    <3>2. CASE Bounded(T \ {x})
      <4>1. PICK m \in T \ {x} : \A y \in T \ {x} : m >= y
        BY <3>2
      <4>2. CASE m >= x
        BY <4>1, <4>2
      <4>3. CASE x >= m
        BY <4>1, <4>3, <2>4, <2>3
      <4>4. QED
        BY <4>1, <4>2, <4>3, <2>4, <2>3
    <3>3. QED
      BY <2>9, <3>1, <3>2
  <2>11. QED
    BY <2>10, <2>3
<1>2. Cardinality(S) \in Nat
  BY FS_CardinalityType
<1>3. Bounded(S)
  BY <1>1, <1>2
<1>4. QED
  BY <1>3 DEF Max
\* What passes from a request as a statement left it to the request as it goes on.
Carries(r, q, cs, ss, ins, n, m) ==
  /\ Shape(q)
  /\ q.made \subseteq r.made
  /\ Dated(r, ss, n, m) => Dated(q, ss, n, m)
  /\ Lone(r, cs, ins) => Lone(q, cs, ins)
  /\ Lone(r, cs, ins) /\ Sure(r, cs, ss) => Sure(q, cs, ss)

LEMMA Idles ==
  /\ Idle \in Req /\ Shape(Idle) /\ Settled(Idle)
  /\ \A ss, n : \A m \in Nat : Dated(Idle, ss, n, m)
<1>1. Idle \in Req
  BY DEF Idle, Req, Ops, Pcs
<1>2. QED
  BY <1>1 DEF Idle, Shape, Settled, Dated

Same(q, r) ==
  /\ q.op = r.op /\ q.email = r.email /\ q.new = r.new /\ q.ids = r.ids /\ q.touch = r.touch
  /\ q.on = r.on /\ q.cur = r.cur /\ q.todo = r.todo /\ q.keep = r.keep /\ q.rest = r.rest
  /\ q.made = r.made /\ q.scope = r.scope /\ q.at = r.at /\ q.into = r.into /\ q.who = r.who
LEMMA Turned ==
  ASSUME NEW r \in Req, NEW p \in Pcs
  PROVE  LET q == [r EXCEPT !.pc = p] IN q \in Req /\ q.pc = p /\ Same(q, r)
<1> DEFINE q == [r EXCEPT !.pc = p]
<1>1. q \in Req /\ q.pc = p
  BY DEF Req
<1>2. /\ q.op = r.op /\ q.email = r.email /\ q.new = r.new /\ q.ids = r.ids /\ q.cur = r.cur
      /\ q.todo = r.todo /\ q.keep = r.keep /\ q.rest = r.rest
  BY DEF Req
<1>3. /\ q.made = r.made /\ q.scope = r.scope /\ q.at = r.at /\ q.into = r.into /\ q.who = r.who
      /\ q.touch = r.touch /\ q.on = r.on
  BY DEF Req
<1>4. QED
  BY <1>1, <1>2, <1>3 DEF Same

LEMMA AddsEndCarries ==
  ASSUME NEW r, Shape(r), NEW cs, NEW ss, NEW ins, NEW n, NEW m \in Nat
  PROVE  Carries(r, AddsEnd(r), cs, ss, ins, n, m)
<1>1. CASE ~(r.pc = "count" /\ r.todo = {})
  BY <1>1 DEF AddsEnd, Carries
<1>2. CASE r.pc = "count" /\ r.todo = {}
  <2> DEFINE p == IF r.op = "create" THEN "sub" ELSE "remove"
             q == [r EXCEPT !.pc = p]
  <2>1. AddsEnd(r) = q
    BY <1>2 DEF AddsEnd
  <2>a. p \in Pcs /\ r \in Req
    BY DEF Pcs, Shape
  <2> HIDE DEF p
  <2>2. q \in Req /\ q.pc = p /\ Same(q, r)
    BY <2>a, Turned
  <2>3. /\ q.op = r.op /\ q.email = r.email /\ q.new = r.new /\ q.cur = r.cur /\ q.todo = r.todo
        /\ q.keep = r.keep /\ q.made = r.made /\ q.scope = r.scope /\ q.at = r.at /\ q.who = r.who
        /\ q.into = r.into
    BY <2>2 DEF Same
  <2> HIDE DEF q
  <2>p. (r.op = "create" /\ p = "sub") \/ (r.op # "create" /\ p = "remove")
    BY DEF p
  <2>4. Shape(q)
    BY <1>2, <2>2, <2>3, <2>p DEF Shape
  <2>5. Dated(r, ss, n, m) => Dated(q, ss, n, m)
    BY <2>3 DEF Dated
  <2>6. Lone(r, cs, ins) => Lone(q, cs, ins)
    BY <1>2, <2>2, <2>3, <2>p DEF Lone
  <2>7. Lone(r, cs, ins) /\ Sure(r, cs, ss) => Sure(q, cs, ss)
    BY <1>2, <2>2, <2>3, <2>p DEF Lone, Sure
  <2>8. QED
    BY <2>1, <2>3, <2>4, <2>5, <2>6, <2>7 DEF Carries
<1>3. QED
  BY <1>1, <1>2
\* A request may end where it neither holds half-renamed rows nor may have taken
\* a seed; it may end after those too when it is done.
LEMMA IdleCarries ==
  ASSUME NEW r, Shape(r), NEW cs, NEW ss, NEW ins, NEW n, NEW m \in Nat,
         \/ r.pc \notin {"save", "remove", "survivors", "scope", "dclient"}
         \/ r.pc \in {"save", "dclient"} /\ r.keep = {}
         \/ r.pc = "scope" /\ r.scope = {}
  PROVE  Carries(r, Idle, cs, ss, ins, n, m)
<1>1. Shape(Idle) /\ Dated(Idle, ss, n, m) /\ Idle.pc = "none" /\ Idle.made = {}
  BY Idles DEF Idle
<1>2. Lone(r, cs, ins) => Lone(Idle, cs, ins)
  BY <1>1 DEF Lone
<1>3. Lone(r, cs, ins) /\ Sure(r, cs, ss) => Sure(Idle, cs, ss)
  BY <1>1 DEF Lone, Sure
<1>4. QED
  BY <1>1, <1>2, <1>3 DEF Carries

LEMMA RemovesEndCarries ==
  ASSUME NEW r, Shape(r), NEW cs, NEW ss, NEW ins, NEW n, NEW m \in Nat
  PROVE  Carries(r, RemovesEnd(r), cs, ss, ins, n, m)
<1>1. CASE ~(r.pc = "remove" /\ r.keep = {})
  BY <1>1 DEF RemovesEnd, Carries
<1>2. CASE r.pc = "remove" /\ r.keep = {}
  <2> DEFINE q == [r EXCEPT !.pc = "survivors"]
  <2>1. RemovesEnd(r) = q
    BY <1>2 DEF RemovesEnd
  <2>2. q \in Req /\ q.pc = "survivors" /\ Same(q, r)
    BY Turned DEF Shape, Pcs
  <2>3. /\ q.op = r.op /\ q.email = r.email /\ q.new = r.new /\ q.cur = r.cur /\ q.todo = r.todo
        /\ q.keep = r.keep /\ q.made = r.made /\ q.scope = r.scope /\ q.at = r.at /\ q.who = r.who
        /\ q.into = r.into
    BY <2>2 DEF Same
  <2> HIDE DEF q
  <2>4. Shape(q)
    BY <1>2, <2>2, <2>3 DEF Shape
  <2>5. Dated(r, ss, n, m) => Dated(q, ss, n, m)
    BY <2>3 DEF Dated
  <2>6. Lone(r, cs, ins) => Lone(q, cs, ins)
    BY <1>2, <2>2, <2>3 DEF Lone
  <2>7. Lone(r, cs, ins) /\ Sure(r, cs, ss) => Sure(q, cs, ss)
    BY <1>2, <2>2, <2>3 DEF Lone, Sure
  <2>8. QED
    BY <2>1, <2>3, <2>4, <2>5, <2>6, <2>7 DEF Carries
<1>3. QED
  BY <1>1, <1>2

LEMMA BundlesEndCarries ==
  ASSUME NEW r, Shape(r), NEW cs, NEW ss, NEW ins, NEW n, NEW m \in Nat
  PROVE  Carries(r, BundlesEnd(r), cs, ss, ins, n, m)
<1>1. CASE ~(r.pc = "dsub" /\ r.scope = {})
  BY <1>1 DEF BundlesEnd, Carries
<1>2. CASE r.pc = "dsub" /\ r.scope = {}
  <2> DEFINE q == [r EXCEPT !.pc = "dclient"]
  <2>1. BundlesEnd(r) = q
    BY <1>2 DEF BundlesEnd
  <2>2. q \in Req /\ q.pc = "dclient" /\ Same(q, r)
    BY Turned DEF Shape, Pcs
  <2>3. /\ q.op = r.op /\ q.email = r.email /\ q.new = r.new /\ q.cur = r.cur /\ q.todo = r.todo
        /\ q.keep = r.keep /\ q.made = r.made /\ q.scope = r.scope /\ q.at = r.at /\ q.who = r.who
        /\ q.into = r.into
    BY <2>2 DEF Same
  <2> HIDE DEF q
  <2>4. Shape(q)
    BY <1>2, <2>2, <2>3 DEF Shape
  <2>5. Dated(r, ss, n, m) => Dated(q, ss, n, m)
    BY <2>3 DEF Dated
  <2>6. Lone(r, cs, ins) => Lone(q, cs, ins)
    BY <1>2, <2>2, <2>3 DEF Lone
  <2>7. Lone(r, cs, ins) /\ Sure(r, cs, ss) => Sure(q, cs, ss)
    BY <1>2, <2>2, <2>3 DEF Lone, Sure
  <2>8. QED
    BY <2>1, <2>3, <2>4, <2>5, <2>6, <2>7 DEF Carries
<1>3. QED
  BY <1>1, <1>2

LEMMA UsersEndCarries ==
  ASSUME NEW r, Shape(r), NEW cs, NEW ss, NEW ins, NEW n, NEW m \in Nat
  PROVE  Carries(r, UsersEnd(r), cs, ss, ins, n, m)
<1>1. CASE ~(r.pc = "next" /\ r.rest = {})
  BY <1>1 DEF UsersEnd, Carries
<1>2. CASE r.pc = "next" /\ r.rest = {}
  BY <1>2, IdleCarries DEF UsersEnd
<1>3. QED
  BY <1>1, <1>2

LEMMA RowsEndCarries ==
  ASSUME NEW r, Shape(r), NEW cs, NEW ss, NEW ins, NEW n, NEW m \in Nat
  PROVE  Carries(r, RowsEnd(r), cs, ss, ins, n, m)
<1>1. CASE ~(r.pc = "dclient" /\ r.keep = {})
  BY <1>1 DEF RowsEnd, Carries
<1>2. CASE r.pc = "dclient" /\ r.keep = {}
  BY <1>2, IdleCarries DEF RowsEnd
<1>3. QED
  BY <1>1, <1>2

LEMMA ScopeEndsCarries ==
  ASSUME NEW r, Shape(r), NEW cs, NEW ss, NEW ins, NEW n, NEW m \in Nat
  PROVE  Carries(r, ScopeEnds(r), cs, ss, ins, n, m)
<1>1. CASE ~(r.pc = "scope" /\ r.scope = {})
  BY <1>1 DEF ScopeEnds, Carries
<1>2. CASE r.pc = "scope" /\ r.scope = {} /\ r.op # "add"
  BY <1>2, IdleCarries DEF ScopeEnds, Rescoped
<1>3. CASE r.pc = "scope" /\ r.scope = {} /\ r.op = "add"
  <2> DEFINE q == [Idle EXCEPT !.op = "add", !.pc = "next", !.into = r.into, !.rest = r.rest, !.who = r.who]
  <2>1. ScopeEnds(r) = q
    BY <1>3 DEF ScopeEnds, Rescoped
  <2>2. r.into \in Nat /\ r.rest \subseteq Emails /\ r.who \in Int
    BY DEF Shape, Req
  <2>3. q \in Req
    BY <2>2, Idles DEF Req, Ops, Pcs
  <2>4. /\ q.op = "add" /\ q.pc = "next" /\ q.cur = {} /\ q.keep = {} /\ q.made = {} /\ q.who = r.who
        /\ q.into = r.into
    BY DEF Idle
  <2> HIDE DEF q
  <2>5. Shape(q)
    BY <1>3, <2>3, <2>4 DEF Shape
  <2>6. Dated(r, ss, n, m) => Dated(q, ss, n, m)
    BY <2>4 DEF Dated
  <2>7. Lone(r, cs, ins) => Lone(q, cs, ins)
    BY <2>4 DEF Lone
  <2>8. Lone(r, cs, ins) /\ Sure(r, cs, ss) => Sure(q, cs, ss)
    BY <1>3, <2>4 DEF Lone, Sure
  <2>9. QED
    BY <2>1, <2>4, <2>5, <2>6, <2>7, <2>8 DEF Carries
<1>4. QED
  BY <1>1, <1>2, <1>3

LEMMA SaveEndsCarries ==
  ASSUME NEW r, Shape(r), NEW cs, NEW ss, NEW ins, NEW n, NEW m \in Nat
  PROVE  Carries(r, SaveEnds(r), cs, ss, ins, n, m)
<1>1. CASE ~(r.pc = "save" /\ r.keep = {})
  BY <1>1 DEF SaveEnds, Carries
<1>2. CASE r.pc = "save" /\ r.keep = {} /\ ~r.touch
  BY <1>2, IdleCarries DEF SaveEnds
<1>3. CASE r.pc = "save" /\ r.keep = {} /\ r.touch
  <2> DEFINE q == [r EXCEPT !.pc = "rlist", !.email = r.new]
  <2>1. SaveEnds(r) = q
    BY <1>3 DEF SaveEnds
  <2>2. q \in Req
    BY DEF Shape, Req, Pcs
  <2>3. /\ q.pc = "rlist" /\ q.email = r.new /\ q.op = r.op /\ q.into = r.into /\ q.new = r.new /\ q.cur = r.cur
        /\ q.keep = r.keep /\ q.made = r.made /\ q.who = r.who
    BY DEF Shape, Req
  <2> HIDE DEF q
  <2>4. Shape(q)
    BY <1>3, <2>2, <2>3 DEF Shape
  <2>5. Dated(r, ss, n, m) => Dated(q, ss, n, m)
    BY <2>3 DEF Dated
  <2>6. Lone(r, cs, ins) => Lone(q, cs, ins)
    BY <1>3, <2>3 DEF Lone
  <2>7. Lone(r, cs, ins) /\ Sure(r, cs, ss) => Sure(q, cs, ss)
    BY <1>3, <2>3 DEF Lone, Sure
  <2>8. QED
    BY <2>1, <2>3, <2>4, <2>5, <2>6, <2>7 DEF Carries
<1>4. QED
  BY <1>1, <1>2, <1>3

LEMMA OnwardCarries ==
  ASSUME NEW r, Shape(r), NEW cs, NEW ss, NEW ins, NEW n, NEW m \in Nat
  PROVE  Carries(r, Onward(r), cs, ss, ins, n, m)
<1> DEFINE r1 == SaveEnds(r)    r2 == AddsEnd(r1)   r3 == RemovesEnd(r2)  r4 == ScopeEnds(r3)
           r5 == UsersEnd(r4)   r6 == BundlesEnd(r5)
<1>1. Carries(r, r1, cs, ss, ins, n, m) /\ Shape(r1)
  BY SaveEndsCarries DEF Carries
<1>2. Carries(r1, r2, cs, ss, ins, n, m) /\ Shape(r2)
  BY <1>1, AddsEndCarries DEF Carries
<1>3. Carries(r2, r3, cs, ss, ins, n, m) /\ Shape(r3)
  BY <1>2, RemovesEndCarries DEF Carries
<1>4. Carries(r3, r4, cs, ss, ins, n, m) /\ Shape(r4)
  BY <1>3, ScopeEndsCarries DEF Carries
<1>5. Carries(r4, r5, cs, ss, ins, n, m) /\ Shape(r5)
  BY <1>4, UsersEndCarries DEF Carries
<1>6. Carries(r5, r6, cs, ss, ins, n, m) /\ Shape(r6)
  BY <1>5, BundlesEndCarries DEF Carries
<1>7. Carries(r6, RowsEnd(r6), cs, ss, ins, n, m)
  BY <1>6, RowsEndCarries
<1>8. Onward(r) = RowsEnd(r6)
  BY DEF Onward
<1> HIDE DEF r1, r2, r3, r4, r5, r6
<1>9. QED
  BY <1>1, <1>2, <1>3, <1>4, <1>5, <1>6, <1>7, <1>8 DEF Carries

\* Nothing is left to save or to add where a request stands.
LEMMA OnwardSettles == ASSUME NEW r, Shape(r) PROVE Settled(Onward(r))
<1> DEFINE r1 == SaveEnds(r)    r2 == AddsEnd(r1)   r3 == RemovesEnd(r2)  r4 == ScopeEnds(r3)
           r5 == UsersEnd(r4)   r6 == BundlesEnd(r5)
<1>0. /\ Carries(r, r1, {}, {}, {}, 0, 0) /\ Carries(r1, r2, {}, {}, {}, 0, 0)
      /\ Carries(r2, r3, {}, {}, {}, 0, 0) /\ Carries(r3, r4, {}, {}, {}, 0, 0)
      /\ Carries(r4, r5, {}, {}, {}, 0, 0) /\ Carries(r5, r6, {}, {}, {}, 0, 0)
  <2> HIDE DEF r1, r2, r3, r4, r5, r6
  <2>1. Shape(r1) /\ Carries(r, r1, {}, {}, {}, 0, 0)
    BY SaveEndsCarries DEF Carries, r1
  <2>2. Shape(r2) /\ Carries(r1, r2, {}, {}, {}, 0, 0)
    BY <2>1, AddsEndCarries DEF Carries, r2
  <2>3. Shape(r3) /\ Carries(r2, r3, {}, {}, {}, 0, 0)
    BY <2>2, RemovesEndCarries DEF Carries, r3
  <2>4. Shape(r4) /\ Carries(r3, r4, {}, {}, {}, 0, 0)
    BY <2>3, ScopeEndsCarries DEF Carries, r4
  <2>5. Shape(r5) /\ Carries(r4, r5, {}, {}, {}, 0, 0)
    BY <2>4, UsersEndCarries DEF Carries, r5
  <2>6. QED
    BY <2>1, <2>2, <2>3, <2>4, <2>5, BundlesEndCarries DEF r6
<1>1. r \in Req /\ r1 \in Req /\ r2 \in Req /\ r3 \in Req /\ r4 \in Req /\ r5 \in Req /\ r6 \in Req
  BY <1>0 DEF Carries, Shape
<1>2. r1.pc = "save" => r1.keep # {}
  BY <1>1 DEF SaveEnds, Req, Idle
<1> HIDE DEF r1
<1>3. Settled(r2)
  BY <1>1, <1>2 DEF AddsEnd, Settled, Req
<1> HIDE DEF r2
<1>4. Settled(r3)
  BY <1>1, <1>3 DEF RemovesEnd, Settled, Req
<1> HIDE DEF r3
<1>5. Settled(r4)
  BY <1>1, <1>4 DEF ScopeEnds, Rescoped, Settled, Req, Idle
<1> HIDE DEF r4
<1>6. Settled(r5)
  BY <1>1, <1>5 DEF UsersEnd, Settled, Req, Idle
<1> HIDE DEF r5
<1>7. Settled(r6)
  BY <1>1, <1>6 DEF BundlesEnd, Settled, Req
<1> HIDE DEF r6
<1>8. Settled(RowsEnd(r6))
  BY <1>1, <1>7 DEF RowsEnd, Settled, Req, Idle
<1>9. QED
  BY <1>8 DEF Onward, r1, r2, r3, r4, r5, r6

\* A statement of the request of page t that leaves r behind. Rows and bundles
\* change as the statement says; the other pages' requests do not.
LEMMA Serves ==
  ASSUME IInv, NEW t \in Tabs, NEW r, req[t] # Idle, Shape(r), Then(t, r), Kept,
         inbounds' = inbounds, clients' \subseteq Client, subs' \subseteq Sub, nextId' \in Nat,
         faults' = faults \/ faults' = faults + 1,
         \A c \in clients' : c.id < nextId' /\ c.who <= moves,
         \A s \in subs' : s.id < nextId' /\ s.seed < nextId' /\ s.who <= moves /\ s.token <= moves,
         nextId <= nextId',
         \A c, d \in clients' : c.id = d.id => c = d,
         \A s, x \in subs' : s.id = x.id => s = x,
         \A s \in subs' : s.allowed # {},
         Dated(r, subs', nextId', moves),
         \A s \in subs' : \/ \E x \in subs : x.id = s.id
                          \/ \E p \in req[t].made : p[1] = s.id,
         \A p \in r.made : p \in req[t].made \/ p[1] = nextId,
         ~overlapped => Lone(r, clients', inbounds),
         ~overlapped /\ ~parted /\ faults = 0 /\ faults' = 0 => Sure(r, clients', subs')
  PROVE  IInv'
<1> DEFINE q == Onward(r)
<1>1. \A n : \A ss : Carries(r, q, clients', ss, inbounds, n, moves) /\ Settled(q)
  BY OnwardCarries, OnwardSettles DEF IInv, Types
<1> HIDE DEF q
<1>2. DOMAIN req = Tabs /\ req' = [req EXCEPT ![t] = q]
  BY DEF IInv, Types, Then, q
<1>3. req'[t] = q /\ DOMAIN req' = Tabs /\ \A u \in Tabs \ {t} : req'[u] = req[u]
  BY <1>2
<1>4. Types'
  <2>1. \A u \in Tabs : Shape(req'[u])
    BY <1>1, <1>3 DEF IInv, Types, Carries
  <2>2. faults' \in Nat
    BY DEF IInv, Types
  <2>3. QED
    BY <1>3, <2>1, <2>2 DEF IInv, Types, Kept, past, Closed
<1>5. Dates'
  <2>1. Dated(q, subs', nextId', moves)
    BY <1>1 DEF Carries
  <2>2. ASSUME NEW u \in Tabs \ {t} PROVE Dated(req[u], subs', nextId', moves)
    <3>1. Dated(req[u], subs, nextId, moves) /\ Shape(req[u])
      BY DEF IInv, Dates, Types
    <3>2. \A p \in req[u].made : p[1] \in Nat
      BY <3>1 DEF Shape, Req
    <3>3. \A p \in req[u].made, s \in subs' : s.id # p[1]
      BY <3>1 DEF IInv, Distinct, Dated
    <3>4. \A c \in req[u].cur \cup req[u].keep : c.id \in Nat
      BY <3>1 DEF Shape, Req, Client
    <3>5. nextId \in Nat
      BY DEF IInv, Types
    <3>6. QED
      BY <3>1, <3>2, <3>3, <3>4, <3>5 DEF Dated
  <2>3. \A u \in Tabs : Dated(req'[u], subs', nextId', moves)
    BY <1>3, <2>1, <2>2
  <2>4. QED
    BY <2>3 DEF Dates, Kept
<1>6. Distinct'
  <2>1. \A p \in q.made : p \in req[t].made \/ p[1] = nextId
    BY <1>1 DEF Carries
  <2>2. \A u \in Tabs : \A p \in req[u].made : p[1] # nextId
    <3>1. ASSUME NEW u \in Tabs, NEW p \in req[u].made PROVE p[1] # nextId
      <4>1. p[1] \in Nat /\ p[1] < nextId /\ nextId \in Nat
        BY DEF IInv, Types, Shape, Req, Dates, Dated
      <4>2. QED
        BY <4>1
    <3>2. QED
      BY <3>1
  <2>3. \A u, v \in Tabs : u # v => \A p \in req[u].made, w \in req[v].made : p[1] # w[1]
    BY DEF IInv, Distinct
  <2>4. \A u, v \in Tabs : u # v => \A p \in req'[u].made, w \in req'[v].made : p[1] # w[1]
    BY <1>3, <2>1, <2>2, <2>3
  <2>5. QED
    BY <2>4 DEF Distinct
<1>7. AllSettled' /\ Limits'
  BY <1>1, <1>3 DEF IInv, AllSettled, Limits
<1>8. ~overlapped => /\ \A u \in Tabs \ {t} : req'[u] = Idle
                     /\ (\A u \in Tabs \ {t} : req[u] = Idle)
                     /\ Busy' <=> (q # Idle)
  BY <1>3 DEF IInv, LoneInv, OneRequest, Busy
<1>9. LoneInv'
  <2>1. ~overlapped => Lone(q, clients', inbounds)
    BY <1>1 DEF Carries
  <2>2. QED
    BY <1>3, <1>8, <2>1 DEF LoneInv, OneRequest, Kept, past
<1>10. SureInv'
  <2>1. ~overlapped /\ ~parted /\ faults' = 0 => Sure(q, clients', subs')
    BY <1>1 DEF Carries, IInv, Types
  <2>2. QED
    BY <1>3, <1>8, <2>1 DEF SureInv, Kept, past
<1>11. QED
  BY <1>4, <1>5, <1>6, <1>7, <1>9, <1>10 DEF IInv

\* A statement that only reads.
LEMMA Reads ==
  ASSUME IInv, NEW t \in Tabs, NEW r, req[t] # Idle, Shape(r), Then(t, r), Read,
         Dated(r, subs, nextId, moves), r.made \subseteq req[t].made,
         ~overlapped => Lone(r, clients, inbounds),
         ~overlapped /\ ~parted /\ faults = 0 => Sure(r, clients, subs)
  PROVE  IInv'
<1>1. UNCHANGED <<inbounds, clients, subs, nextId, faults>> /\ Kept
  BY DEF Read, db
<1>2. clients \subseteq Client /\ subs \subseteq Sub /\ nextId \in Nat /\ nextId <= nextId
  BY DEF IInv, Types
<1>3. /\ \A c \in clients : c.id < nextId /\ c.who <= moves
      /\ \A s \in subs : s.id < nextId /\ s.seed < nextId /\ s.who <= moves /\ s.token <= moves
      /\ \A c, d \in clients : c.id = d.id => c = d
      /\ \A s, x \in subs : s.id = x.id => s = x
      /\ \A s \in subs : s.allowed # {}
  BY DEF IInv, Dates, Distinct, Limits
<1>4. QED
  BY <1>1, <1>2, <1>3, Serves

\* What holds of the request that a statement finds, and of one that just ends.
LEMMA Found ==
  ASSUME IInv, NEW t \in Tabs, NEW pc, On(t, pc), pc # "none"
  PROVE  /\ req[t] # Idle /\ req[t].pc = pc
         /\ Shape(req[t]) /\ Settled(req[t]) /\ Dated(req[t], subs, nextId, moves)
         /\ ~overlapped => Lone(req[t], clients, inbounds)
         /\ ~overlapped /\ ~parted /\ faults = 0 => Sure(req[t], clients, subs)
         /\ moves \in Nat /\ nextId \in Nat
<1>1. req[t].pc = pc /\ req[t] # Idle
  BY DEF On, Idle
<1>2. QED
  BY <1>1 DEF IInv, Types, Dates, AllSettled, LoneInv, SureInv

LEMMA Ends ==
  ASSUME IInv, NEW t \in Tabs, NEW pc, On(t, pc), End(t), Read,
         pc \notin {"none", "save", "remove", "survivors", "scope", "dclient"}
  PROVE  IInv'
<1>1. /\ req[t] # Idle /\ req[t].pc = pc /\ Shape(req[t]) /\ moves \in Nat
      /\ Dated(req[t], subs, nextId, moves)
      /\ ~overlapped => Lone(req[t], clients, inbounds)
      /\ ~overlapped /\ ~parted /\ faults = 0 => Sure(req[t], clients, subs)
  BY Found
<1>2. Carries(req[t], Idle, clients, subs, inbounds, nextId, moves)
  BY <1>1, IdleCarries
<1>3. QED
  BY <1>1, <1>2, Reads DEF Carries, End

LEMMA CreateChecksKeeps == ASSUME IInv, NEW t \in Tabs, CreateChecks(t) PROVE IInv'
<1> DEFINE r == req[t]
           target == {ib \in inbounds : /\ IF r.ids = {} THEN ib \notin Off ELSE ib \in r.ids
                                        /\ ~skipForMultiUser(ib)}
           q == [r EXCEPT !.pc = "count", !.todo = target]
<1>1. On(t, "list") /\ Read
  BY DEF CreateChecks
<1>2. CASE ClientsByEmail(r.email) # {} \/ target = {}
  BY <1>1, <1>2, Ends DEF CreateChecks
<1>3. CASE ClientsByEmail(r.email) = {} /\ target # {}
  <2>1. /\ r # Idle /\ r.pc = "list" /\ Shape(r) /\ moves \in Nat
        /\ Dated(r, subs, nextId, moves)
        /\ ~overlapped => Lone(r, clients, inbounds)
        /\ ~overlapped /\ ~parted /\ faults = 0 => Sure(r, clients, subs)
    BY <1>1, Found
  <2>2. Then(t, q)
    BY <1>3 DEF CreateChecks
  <2>3. target \subseteq inbounds /\ inbounds \subseteq Inbounds
    BY DEF IInv, Types
  <2> HIDE DEF target
  <2>4. q \in Req
    BY <2>1, <2>3 DEF Shape, Req, Pcs
  <2>5. /\ q.pc = "count" /\ q.todo = target /\ q.op = r.op /\ q.into = r.into /\ q.email = r.email /\ q.cur = r.cur
        /\ q.keep = r.keep /\ q.made = r.made /\ q.who = r.who /\ q.scope = r.scope
    BY <2>1 DEF Shape, Req
  <2> HIDE DEF q
  <2>6. Shape(q)
    BY <1>3, <2>1, <2>4, <2>5 DEF Shape
  <2>7. Dated(q, subs, nextId, moves) /\ q.made \subseteq req[t].made
    BY <2>1, <2>5 DEF Dated
  <2>8. ~overlapped => Lone(q, clients, inbounds)
    <3>1. \A c \in clients : c.email # r.email
      BY <1>3 DEF ClientsByEmail
    <3>2. QED
      BY <2>1, <2>3, <2>5, <3>1 DEF Lone, Shape
  <2>9. ~overlapped /\ ~parted /\ faults = 0 => Sure(q, clients, subs)
    BY <2>1, <2>5 DEF Sure, Lone, Shape
  <2>10. QED
    BY <1>1, <2>1, <2>2, <2>6, <2>7, <2>8, <2>9, Reads
<1>4. QED
  BY <1>2, <1>3

LEMMA CountClientKeeps == ASSUME IInv, NEW t \in Tabs, CountClient(t) PROVE IInv'
<1> DEFINE r == req[t]
<1>1. On(t, "count") /\ Read
  BY DEF CountClient
<1>2. /\ r # Idle /\ r.pc = "count" /\ Shape(r) /\ moves \in Nat
      /\ Dated(r, subs, nextId, moves)
      /\ ~overlapped => Lone(r, clients, inbounds)
      /\ ~overlapped /\ ~parted /\ faults = 0 => Sure(r, clients, subs)
      /\ r.todo # {}
  BY <1>1, Found DEF Settled
<1>3. PICK ib \in (IF r.op = "create" THEN {Min(r.todo)} ELSE r.todo) :
        IF \E c \in ClientsByEmail(r.email) : c.ib = ib THEN End(t)
        ELSE Then(t, [r EXCEPT !.pc = "insert", !.at = ib])
  BY DEF CountClient
<1>4. ib \in r.todo /\ ib \in Nat
  <2>1. r.todo \in SUBSET Nat
    BY <1>2, MembersAssumption DEF Shape, Req
  <2>2. QED
    BY <1>2, <1>3, <2>1, MinOfNat
<1>5. CASE \E c \in ClientsByEmail(r.email) : c.ib = ib
  BY <1>1, <1>3, <1>5, Ends
<1>6. CASE ~ \E c \in ClientsByEmail(r.email) : c.ib = ib
  <2> DEFINE q == [r EXCEPT !.pc = "insert", !.at = ib]
  <2>2. Then(t, q)
    BY <1>3, <1>6
  <2>4. q \in Req
    BY <1>2, <1>4 DEF Shape, Req, Pcs
  <2>5. /\ q.pc = "insert" /\ q.at = ib /\ q.todo = r.todo /\ q.op = r.op /\ q.into = r.into /\ q.email = r.email /\ q.cur = r.cur
        /\ q.keep = r.keep /\ q.made = r.made /\ q.who = r.who /\ q.scope = r.scope
    BY <1>2 DEF Shape, Req
  <2> HIDE DEF q
  <2>6. Shape(q)
    BY <1>2, <1>4, <2>4, <2>5 DEF Shape
  <2>7. Dated(q, subs, nextId, moves) /\ q.made \subseteq req[t].made
    BY <1>2, <2>5 DEF Dated
  <2>8. ~overlapped => Lone(q, clients, inbounds)
    <3>1. \A c \in clients : c.email = r.email => c.ib # ib
      BY <1>6 DEF ClientsByEmail
    <3>2. QED
      BY <1>2, <2>5, <3>1 DEF Lone, Shape
  <2>9. ~overlapped /\ ~parted /\ faults = 0 => Sure(q, clients, subs)
    BY <1>2, <2>5 DEF Sure, Lone, Shape
  <2>10. QED
    BY <1>1, <1>2, <2>2, <2>6, <2>7, <2>8, <2>9, Reads
<1>7. QED
  BY <1>5, <1>6

LEMMA InsertClientKeeps == ASSUME IInv, NEW t \in Tabs, InsertClient(t) PROVE IInv'
<1> DEFINE r == req[t]
           row == NewClient(r)
           q == [r EXCEPT !.pc = "count", !.todo = @ \ {r.at}, !.at = 0, !.made = @ \cup {<<nextId, r.at>>}]
<1>1. On(t, "insert") /\ Kept /\ Then(t, q) /\ clients' = clients \cup {row} /\ nextId' = nextId + 1
      /\ inbounds' = inbounds /\ subs' = subs /\ faults' = faults
  BY DEF InsertClient
<1>2. /\ r # Idle /\ r.pc = "insert" /\ Shape(r) /\ moves \in Nat /\ nextId \in Nat
      /\ Dated(r, subs, nextId, moves)
      /\ ~overlapped => Lone(r, clients, inbounds)
      /\ ~overlapped /\ ~parted /\ faults = 0 => Sure(r, clients, subs)
  BY <1>1, Found
<1>3. r.at \in r.todo /\ r.at \in Inbounds /\ r.at \in Nat /\ r.email \in Emails /\ r.who \in Int /\ r.who <= moves
  BY <1>2 DEF Shape, Req, Dated
<1>4. row \in Client /\ row.id = nextId /\ row.ib = r.at /\ row.email = r.email /\ row.who = r.who
  BY <1>2, <1>3 DEF NewClient, Client
<1>5. row.on = (r.op = "create" \/ r.cur = {} \/ \E c \in r.cur : c.on)
  BY DEF NewClient
<1> HIDE DEF row
<1>6. q \in Req
  <2>1. <<nextId, r.at>> \in Nat \X Inbounds
    BY <1>2, <1>3
  <2>2. QED
    BY <1>2, <2>1 DEF Shape, Req, Pcs
<1>7. /\ q.pc = "count" /\ q.todo = r.todo \ {r.at} /\ q.op = r.op /\ q.into = r.into /\ q.email = r.email /\ q.cur = r.cur
      /\ q.keep = r.keep /\ q.who = r.who /\ q.scope = r.scope
      /\ q.made = r.made \cup {<<nextId, r.at>>}
  BY <1>2 DEF Shape, Req
<1> HIDE DEF q
<1>8. Shape(q)
  BY <1>2, <1>6, <1>7 DEF Shape
<1>9. /\ clients \subseteq Client /\ subs \subseteq Sub
      /\ \A c \in clients : c.id \in Nat /\ c.id < nextId /\ c.who <= moves
      /\ \A s \in subs : s.id \in Nat /\ s.seed \in Nat /\ s.id < nextId /\ s.seed < nextId
                         /\ s.who <= moves /\ s.token <= moves
  BY DEF IInv, Types, Dates, Client, Sub
<1>10. Dated(q, subs', nextId', moves)
  <2>1. \A c \in q.cur \cup q.keep : c.id \in Nat
    BY <1>7, <1>2 DEF Shape, Req, Client
  <2>2. \A p \in r.made : p[1] \in Nat
    BY <1>2 DEF Shape, Req
  <2>3. \A p \in q.made : p[1] < nextId' /\ \A s \in subs : s.id # p[1]
    BY <1>1, <1>2, <1>7, <1>9, <2>2 DEF Dated
  <2>4. QED
    BY <1>1, <1>2, <1>7, <2>1, <2>3 DEF Dated
<1>11. /\ \A c \in clients' : c.id < nextId' /\ c.who <= moves
       /\ \A s \in subs' : s.id < nextId' /\ s.seed < nextId' /\ s.who <= moves /\ s.token <= moves
  BY <1>1, <1>2, <1>3, <1>4, <1>9
<1>12. \A c, d \in clients' : c.id = d.id => c = d
  BY <1>1, <1>2, <1>4, <1>9 DEF IInv, Distinct
<1>13. ~overlapped => Lone(q, clients', inbounds)
  <2> SUFFICES ASSUME ~overlapped PROVE Lone(q, clients', inbounds)
    OBVIOUS
  <2>1. Lone(r, clients, inbounds)
    BY <1>2
  <2>2. \A c \in clients' : c.ib \in inbounds
    BY <1>1, <1>2, <1>3, <1>4, <2>1 DEF Lone
  <2>3. \A c, d \in clients' : c.email = d.email /\ c.ib = d.ib => c = d
    BY <1>1, <1>2, <1>3, <1>4, <2>1 DEF Lone
  <2>4. \A c, d \in clients' : c.email = d.email => c.who = d.who
    BY <1>1, <1>2, <1>3, <1>4, <2>1 DEF Lone
  <2>5. r.op = "create" => \A p \in q.made : \E c \in clients' : c.id = p[1] /\ c.who = q.who
    BY <1>1, <1>2, <1>4, <1>7, <2>1 DEF Lone
  <2>6. r.op = "create" => row.on
    BY <1>5
  <2>7. QED
    BY <1>1, <1>2, <1>4, <1>7, <2>1, <2>2, <2>3, <2>4, <2>5, <2>6 DEF Lone
<1>14. ~overlapped /\ ~parted /\ faults = 0 => Sure(q, clients', subs')
  <2> SUFFICES ASSUME ~overlapped, ~parted, faults = 0 PROVE Sure(q, clients', subs)
    BY <1>1
  <2>1. Lone(r, clients, inbounds) /\ Sure(r, clients, subs)
    BY <1>2
  <2>2. \A s \in subs : row.id # s.seed
    BY <1>2, <1>4, <1>9
  <2>3. \A c \in clients : c.who = row.who => c.email = row.email
    BY <1>2, <1>4, <2>1 DEF Sure
  <2>4. \A s \in subs : row.who = s.who => \E d \in clients : d.id = s.seed
    BY <1>2, <1>4, <2>1 DEF Sure, Lone
  <2>5. QED
    BY <1>1, <1>2, <1>4, <1>7, <2>1, <2>2, <2>3, <2>4 DEF Sure
<1>15. /\ clients' \subseteq Client /\ subs' \subseteq Sub /\ nextId' \in Nat /\ nextId <= nextId'
       /\ \A s, x \in subs' : s.id = x.id => s = x
       /\ \A s \in subs' : s.allowed # {}
       /\ \A s \in subs' : (\E x \in subs : x.id = s.id) \/ \E w \in r.made : w[1] = s.id
  BY <1>1, <1>2, <1>4, <1>9 DEF IInv, Distinct, Limits
<1>16. \A p \in q.made : p \in r.made \/ p[1] = nextId
  BY <1>7
<1>17. ~overlapped /\ ~parted /\ faults = 0 /\ faults' = 0 => Sure(q, clients', subs')
  BY <1>14
<1>18. QED
  BY <1>1, <1>2, <1>8, <1>10, <1>11, <1>12, <1>13, <1>15, <1>16, <1>17, Serves

LEMMA CreateSubKeeps == ASSUME IInv, NEW t \in Tabs, CreateSub(t) PROVE IInv'
<1> DEFINE r == req[t]
           ids == {p[1] : p \in r.made}
           sub == Bundle(Min(ids), {p[2] : p \in r.made}, r.who, r.who)
<1>1. On(t, "sub") /\ Kept /\ End(t) /\ subs' = subs \cup {sub}
      /\ inbounds' = inbounds /\ clients' = clients /\ nextId' = nextId /\ faults' = faults
  BY DEF CreateSub
<1>2. /\ r # Idle /\ r.pc = "sub" /\ Shape(r) /\ moves \in Nat /\ nextId \in Nat
      /\ Dated(r, subs, nextId, moves)
      /\ ~overlapped => Lone(r, clients, inbounds)
      /\ ~overlapped /\ ~parted /\ faults = 0 => Sure(r, clients, subs)
  BY <1>1, Found
<1>3. r.made # {} /\ r.made \subseteq Nat \X Inbounds /\ r.who \in Int /\ r.op = "create"
  BY <1>2 DEF Shape, Req
<1>4. Min(ids) \in ids /\ Min(ids) \in Nat
  <2>1. ids \in SUBSET Nat /\ ids # {}
    BY <1>3
  <2>2. QED
    BY <2>1, MinOfNat
<1>5. PICK p \in r.made : Min(ids) = p[1]
  BY <1>4
<1>6. /\ sub \in Sub /\ sub.id = p[1] /\ sub.seed = p[1] /\ sub.who = r.who /\ sub.token = r.who
      /\ sub.allowed # {}
  <2>1. {w[2] : w \in r.made} \in SUBSET Inbounds /\ {w[2] : w \in r.made} # {}
    BY <1>3
  <2> DEFINE ibs == {w[2] : w \in r.made}
  <2> HIDE DEF ibs
  <2>2. QED
    BY <1>3, <1>4, <1>5, <2>1 DEF Bundle, Sub, ibs
<1> HIDE DEF sub
<1>7. p[1] < nextId /\ (\A s \in subs : s.id # p[1]) /\ r.who <= moves
  BY <1>2, <1>5 DEF Dated
<1>8. /\ clients \subseteq Client /\ subs \subseteq Sub
      /\ \A c \in clients : c.id < nextId /\ c.who <= moves
      /\ \A s \in subs : s.id < nextId /\ s.seed < nextId /\ s.who <= moves /\ s.token <= moves
      /\ \A c, d \in clients : c.id = d.id => c = d
      /\ \A s, x \in subs : s.id = x.id => s = x
      /\ \A s \in subs : s.allowed # {}
  BY DEF IInv, Types, Dates, Distinct, Limits
<1>9. Dated(Idle, subs', nextId', moves) /\ Shape(Idle) /\ Idle.pc = "none" /\ Idle.made = {}
  BY <1>2, Idles DEF Idle
<1>10. ~overlapped => Lone(Idle, clients', inbounds)
  BY <1>1, <1>2, <1>9 DEF Lone
<1>11. ~overlapped /\ ~parted /\ faults = 0 => Sure(Idle, clients', subs')
  <2> SUFFICES ASSUME ~overlapped, ~parted, faults = 0 PROVE Sure(Idle, clients, subs \cup {sub})
    BY <1>1
  <2>1. Lone(r, clients, inbounds) /\ Sure(r, clients, subs)
    BY <1>2
  <2>2. PICK c \in clients : c.id = p[1] /\ c.who = r.who
    BY <1>2, <1>3, <1>5, <2>1 DEF Lone
  <2>3. \A d \in clients : d.id = sub.seed => d.who = sub.who
    BY <1>6, <1>8, <2>2
  <2>4. QED
    BY <1>2, <1>6, <1>9, <2>1, <2>2, <2>3 DEF Sure
<1>12. /\ \A s \in subs' : s.id < nextId' /\ s.seed < nextId' /\ s.who <= moves /\ s.token <= moves
       /\ \A s, x \in subs' : s.id = x.id => s = x
       /\ \A s \in subs' : s.allowed # {}
       /\ \A s \in subs' : (\E x \in subs : x.id = s.id) \/ \E w \in r.made : w[1] = s.id
       /\ subs' \subseteq Sub
  BY <1>1, <1>5, <1>6, <1>7, <1>8
<1>13. /\ clients' \subseteq Client /\ nextId' \in Nat /\ nextId <= nextId'
       /\ \A c \in clients' : c.id < nextId' /\ c.who <= moves
       /\ \A c, d \in clients' : c.id = d.id => c = d
       /\ \A w \in Idle.made : w \in r.made \/ w[1] = nextId
       /\ Then(t, Idle)
  BY <1>1, <1>2, <1>8, <1>9 DEF End
<1>14. QED
  BY <1>1, <1>2, <1>9, <1>10, <1>11, <1>12, <1>13, Serves

LEMMA ReadClientsKeeps == ASSUME IInv, NEW t \in Tabs, ReadClients(t) PROVE IInv'
<1> DEFINE r   == req[t]
           cur == ClientsByEmail(r.email)
           who == (CHOOSE c \in cur : TRUE).who
           pc  == IF r.op = "delete" THEN "dsubs" ELSE IF r.new # r.email THEN "collide" ELSE "save"
           q == [r EXCEPT !.cur = cur, !.keep = cur, !.who = who, !.pc = pc]
<1>1. On(t, "clients") /\ Read
  BY DEF ReadClients
<1>2. CASE cur = {}
  BY <1>1, <1>2, Ends DEF ReadClients
<1>3. CASE cur # {}
  <2>1. /\ r # Idle /\ r.pc = "clients" /\ Shape(r) /\ moves \in Nat
        /\ Dated(r, subs, nextId, moves)
        /\ ~overlapped => Lone(r, clients, inbounds)
        /\ ~overlapped /\ ~parted /\ faults = 0 => Sure(r, clients, subs)
    BY <1>1, Found
  <2>2. Then(t, q)
    BY <1>3 DEF ReadClients
  <2>3. /\ cur \subseteq clients /\ clients \subseteq Client
        /\ \A c \in clients : c \in cur <=> c.email = r.email
        /\ \A c \in clients : c.who \in Int /\ c.who <= moves /\ c.id < nextId
    BY DEF ClientsByEmail, IInv, Types, Dates, Client
  <2>4. PICK first \in cur : who = first.who
    BY <1>3
  <2>5. \/ r.op = "delete" /\ pc = "dsubs"
        \/ r.op # "delete" /\ r.new # r.email /\ pc = "collide"
        \/ r.op # "delete" /\ r.new = r.email /\ pc = "save"
    OBVIOUS
  <2> HIDE DEF pc, who, cur
  <2>6. q \in Req
    <3>1. cur \subseteq Client /\ who \in Int /\ pc \in Pcs
      BY <2>3, <2>4, <2>5 DEF Pcs
    <3>2. QED
      BY <2>1, <3>1 DEF Shape, Req
  <2>7. /\ q.pc = pc /\ q.op = r.op /\ q.into = r.into /\ q.email = r.email /\ q.new = r.new /\ q.cur = cur
        /\ q.keep = cur /\ q.made = r.made /\ q.who = who
    BY <2>1 DEF Shape, Req
  <2> HIDE DEF q
  <2>8. Shape(q)
    BY <2>1, <2>5, <2>6, <2>7 DEF Shape
  <2>9. Dated(q, subs, nextId, moves) /\ q.made \subseteq r.made
    BY <2>1, <2>3, <2>4, <2>7 DEF Dated
  <2>10. ~overlapped => Lone(q, clients, inbounds)
    <3> SUFFICES ASSUME ~overlapped PROVE Lone(q, clients, inbounds)
      OBVIOUS
    <3>1. Lone(r, clients, inbounds)
      BY <2>1
    <3>2. \A k \in cur : k.who = who
      BY <2>3, <2>4, <3>1 DEF Lone
    <3>3. cur = {c \in clients : c.email = r.email}
      BY <2>3
    <3>4. CASE pc = "dsubs"
      BY <2>3, <2>7, <3>1, <3>2, <3>4 DEF Lone
    <3>5. CASE pc = "collide"
      BY <1>3, <2>3, <2>7, <3>1, <3>2, <3>3, <3>5 DEF Lone
    <3>6. CASE pc = "save" /\ r.new = r.email
      BY <1>3, <2>3, <2>7, <3>1, <3>2, <3>6 DEF Lone
    <3>7. QED
      BY <2>5, <3>4, <3>5, <3>6
  <2>11. ~overlapped /\ ~parted /\ faults = 0 => Sure(q, clients, subs)
    <3> SUFFICES ASSUME ~overlapped, ~parted, faults = 0 PROVE Sure(q, clients, subs)
      OBVIOUS
    <3>1. Sure(r, clients, subs)
      BY <2>1
    <3>2. \A c \in clients : c.who = who => c.email = r.email /\ c \in cur
      BY <2>1, <2>3, <2>4, <3>1 DEF Sure
    <3>3. QED
      BY <2>1, <2>5, <2>7, <3>1, <3>2 DEF Sure
  <2>12. QED
    BY <1>1, <2>1, <2>2, <2>8, <2>9, <2>10, <2>11, Reads
<1>4. QED
  BY <1>2, <1>3

LEMMA UpdateCollidesKeeps == ASSUME IInv, NEW t \in Tabs, UpdateCollides(t) PROVE IInv'
<1> DEFINE r == req[t]
           q == [r EXCEPT !.pc = "save"]
<1>1. On(t, "collide") /\ Read
  BY DEF UpdateCollides
<1>2. CASE ClientsByEmail(r.new) # {}
  BY <1>1, <1>2, Ends DEF UpdateCollides
<1>3. CASE ClientsByEmail(r.new) = {}
  <2>1. /\ r # Idle /\ r.pc = "collide" /\ Shape(r) /\ moves \in Nat
        /\ Dated(r, subs, nextId, moves)
        /\ ~overlapped => Lone(r, clients, inbounds)
        /\ ~overlapped /\ ~parted /\ faults = 0 => Sure(r, clients, subs)
    BY <1>1, Found
  <2>2. Then(t, q)
    BY <1>3 DEF UpdateCollides
  <2>3. q \in Req /\ q.pc = "save" /\ Same(q, r)
    BY <2>1, Turned DEF Shape, Pcs
  <2>4. /\ q.op = r.op /\ q.into = r.into /\ q.email = r.email /\ q.new = r.new /\ q.cur = r.cur
        /\ q.keep = r.keep /\ q.made = r.made /\ q.who = r.who
    BY <2>3 DEF Same
  <2> HIDE DEF q
  <2>5. Shape(q)
    BY <2>1, <2>3, <2>4 DEF Shape
  <2>6. Dated(q, subs, nextId, moves) /\ q.made \subseteq r.made
    BY <2>1, <2>4 DEF Dated
  <2>7. \A c \in clients : c.email # r.new
    BY <1>3 DEF ClientsByEmail
  <2>8. ~overlapped => Lone(q, clients, inbounds)
    <3> SUFFICES ASSUME ~overlapped PROVE Lone(q, clients, inbounds)
      OBVIOUS
    <3>1. QED
      BY <2>1, <2>3, <2>4, <2>7 DEF Lone
  <2>9. ~overlapped /\ ~parted /\ faults = 0 => Sure(q, clients, subs)
    BY <2>1, <2>3, <2>4 DEF Sure, Lone
  <2>10. QED
    BY <1>1, <2>1, <2>2, <2>5, <2>6, <2>8, <2>9, Reads
<1>4. QED
  BY <1>2, <1>3

\* The row that is saved next.
LEMMA LeastKept ==
  ASSUME NEW r, Shape(r), r.keep # {}
  PROVE  (CHOOSE d \in r.keep : \A e \in r.keep : d.id <= e.id) \in r.keep
<1>1. {d.id : d \in r.keep} \in SUBSET Nat /\ {d.id : d \in r.keep} # {}
  BY DEF Shape, Req, Client
<1>2. \E d \in r.keep : \A e \in r.keep : d.id <= e.id
  <2> DEFINE M == Min({d.id : d \in r.keep})
  <2>1. M \in {d.id : d \in r.keep} /\ \A y \in {d.id : d \in r.keep} : M <= y
    BY <1>1, MinOfNat
  <2> HIDE DEF M
  <2>2. QED
    BY <2>1
<1>3. QED
  BY <1>2

LEMMA SaveClientKeeps == ASSUME IInv, NEW t \in Tabs, SaveClient(t) PROVE IInv'
<1> DEFINE r == req[t]
           c == CHOOSE d \in r.keep : \A e \in r.keep : d.id <= e.id
           row == Saved(r, c)
           q == [r EXCEPT !.keep = @ \ {c}]
<1>1. On(t, "save") /\ Kept /\ Then(t, q) /\ clients' = {d \in clients : d.id # c.id} \cup {row}
      /\ inbounds' = inbounds /\ subs' = subs /\ nextId' = nextId /\ faults' = faults
  BY DEF SaveClient
<1>2. /\ r # Idle /\ r.pc = "save" /\ Shape(r) /\ moves \in Nat /\ nextId \in Nat
      /\ Dated(r, subs, nextId, moves) /\ r.keep # {}
      /\ ~overlapped => Lone(r, clients, inbounds)
      /\ ~overlapped /\ ~parted /\ faults = 0 => Sure(r, clients, subs)
  BY <1>1, Found DEF Settled
<1>3. c \in r.keep
  BY <1>2, LeastKept
<1>4. c \in Client /\ r.new \in Emails /\ r.on \in BOOLEAN /\ c.id < nextId /\ c.who <= moves
  BY <1>2, <1>3 DEF Shape, Req, Dated
<1> HIDE DEF c
<1>5. row \in Client /\ row.id = c.id /\ row.ib = c.ib /\ row.email = r.new /\ row.who = c.who
  BY <1>4 DEF Saved, Client
<1> HIDE DEF row
<1>6. q \in Req
  BY <1>2 DEF Shape, Req
<1>7. /\ q.pc = "save" /\ q.op = r.op /\ q.into = r.into /\ q.email = r.email /\ q.new = r.new /\ q.cur = r.cur
      /\ q.keep = r.keep \ {c} /\ q.who = r.who /\ q.made = r.made
  BY <1>2 DEF Shape, Req
<1> HIDE DEF q
<1>8. Shape(q) /\ Dated(q, subs', nextId', moves)
  BY <1>1, <1>2, <1>6, <1>7 DEF Shape, Dated
<1>9. /\ clients \subseteq Client /\ subs \subseteq Sub
      /\ \A d \in clients : d.id < nextId /\ d.who <= moves
      /\ \A s \in subs : s.id < nextId /\ s.seed < nextId /\ s.who <= moves /\ s.token <= moves
      /\ \A d, e \in clients : d.id = e.id => d = e
      /\ \A s, x \in subs : s.id = x.id => s = x
      /\ \A s \in subs : s.allowed # {}
  BY DEF IInv, Types, Dates, Distinct, Limits
<1>10. /\ clients' \subseteq Client
       /\ \A d \in clients' : d.id < nextId' /\ d.who <= moves
       /\ \A d, e \in clients' : d.id = e.id => d = e
  BY <1>1, <1>4, <1>5, <1>9
<1>11. ~overlapped => Lone(q, clients', inbounds)
  <2> SUFFICES ASSUME ~overlapped PROVE Lone(q, clients', inbounds)
    OBVIOUS
  <2>1. Lone(r, clients, inbounds)
    BY <1>2
  <2>2. c \in clients /\ c.who = r.who /\ r.keep \subseteq clients
    BY <1>2, <1>3, <2>1 DEF Lone
  <2>3. \A d \in clients' : d.ib \in inbounds
    BY <1>1, <1>5, <2>1, <2>2 DEF Lone
  <2>4. \A d \in clients' : d = row \/ d \in clients \ {c}
    BY <1>1
  <2>5. \A d \in clients \ {c} : d.email = r.new => d.ib # c.ib
    BY <1>2, <1>3, <2>1, <2>2 DEF Lone
  <2>6. /\ \A d, e \in clients' : d.email = e.email /\ d.ib = e.ib => d = e
        /\ \A d, e \in clients' : d.email = e.email => d.who = e.who
    <3>1. ASSUME NEW d \in clients', NEW e \in clients', d.email = e.email
          PROVE  (d.ib = e.ib => d = e) /\ d.who = e.who
      <4>1. CASE d = row /\ e = row
        BY <4>1
      <4>2. CASE d = row /\ e \in clients \ {c}
        BY <1>2, <1>5, <2>1, <2>2, <2>5, <3>1, <4>2 DEF Lone
      <4>3. CASE d \in clients \ {c} /\ e = row
        BY <1>2, <1>5, <2>1, <2>2, <2>5, <3>1, <4>3 DEF Lone
      <4>4. CASE d \in clients \ {c} /\ e \in clients \ {c}
        BY <2>1, <3>1, <4>4 DEF Lone
      <4>5. QED
        BY <2>4, <4>1, <4>2, <4>3, <4>4
    <3>2. QED
      BY <3>1
  <2>7. \A k \in q.keep : k \in clients' /\ k.who = r.who /\ k.ib # c.ib
    <3>1. ASSUME NEW k \in q.keep PROVE k \in clients' /\ k.who = r.who /\ k.ib # c.ib
      <4>1. k \in r.keep /\ k # c /\ k \in clients /\ k.email = c.email
        BY <1>2, <1>3, <1>7, <2>1, <2>2 DEF Lone
      <4>2. k.id # c.id
        BY <1>9, <2>2, <4>1
      <4>3. QED
        BY <1>1, <1>2, <2>1, <2>2, <4>1, <4>2 DEF Lone
    <3>2. QED
      BY <3>1
  <2>8. \A k \in q.keep, d \in clients' : d.email \in {k.email, r.new} /\ d.ib = k.ib => d = k
    <3>1. ASSUME NEW k \in q.keep, NEW d \in clients', d.email \in {k.email, r.new}, d.ib = k.ib PROVE d = k
      <4>1. d # row
        BY <1>5, <2>7, <3>1
      <4>2. d \in clients /\ k \in r.keep
        BY <1>7, <2>4, <4>1
      <4>3. QED
        BY <1>2, <2>1, <3>1, <4>2 DEF Lone
    <3>2. QED
      BY <3>1
  <2>9. \A d \in clients' : d.email = r.new => d.who = r.who
    BY <1>2, <1>5, <2>1, <2>2, <2>4 DEF Lone
  <2>10. \E d \in clients' : d.email = r.new
    BY <1>1, <1>5
  <2>11. \A k, d \in q.keep : k.email = d.email
    BY <1>2, <1>7, <2>1 DEF Lone
  <2>12. QED
    BY <1>7, <2>3, <2>6, <2>7, <2>8, <2>9, <2>10, <2>11 DEF Lone
<1>12. ~overlapped /\ ~parted /\ faults = 0 /\ faults' = 0 => Sure(q, clients', subs')
  <2> SUFFICES ASSUME ~overlapped, ~parted, faults = 0 PROVE Sure(q, clients', subs)
    BY <1>1
  <2>1. Lone(r, clients, inbounds) /\ Sure(r, clients, subs)
    BY <1>2
  <2>2. c \in clients /\ c.who = r.who
    BY <1>2, <1>3, <2>1 DEF Lone
  <2>3. /\ \A d \in clients' : d = row \/ (d \in clients /\ d # c)
        /\ \A d \in clients : d # c => d \in clients'
        /\ row \in clients'
    BY <1>1, <1>9, <2>2
  <2>4. \A s \in subs, d \in clients' : d.id = s.seed => d.who = s.who
    BY <1>5, <2>1, <2>2, <2>3 DEF Sure
  <2>5. \A d, e \in clients' : d.who = e.who => d.email = e.email \/ d.who = r.who
    BY <1>2, <1>5, <2>1, <2>2, <2>3 DEF Sure
  <2>6. \A s \in subs, d \in clients' : d.who = s.who => \E e \in clients' : e.id = s.seed
    <3>1. ASSUME NEW s \in subs, NEW d \in clients', d.who = s.who
          PROVE  \E e \in clients' : e.id = s.seed
      <4>1. \E d2 \in clients : d2.who = s.who
        BY <1>5, <2>2, <2>3, <3>1
      <4>2. PICK e \in clients : e.id = s.seed
        BY <1>2, <2>1, <4>1 DEF Sure
      <4>3. QED
        BY <1>5, <2>3, <4>2
    <3>2. QED
      BY <3>1
  <2>7. \A d \in clients' : d.who = r.who => d.email = r.new \/ d \in q.keep
    BY <1>2, <1>5, <1>7, <2>1, <2>3 DEF Sure
  <2>8. QED
    BY <1>7, <2>4, <2>5, <2>6, <2>7 DEF Sure
<1>13. /\ nextId <= nextId' /\ subs' \subseteq Sub
       /\ \A s \in subs' : (\E x \in subs : x.id = s.id) \/ \E w \in r.made : w[1] = s.id
       /\ \A p \in q.made : p \in r.made \/ p[1] = nextId
  BY <1>1, <1>2, <1>7, <1>9
<1>14. QED
  BY <1>1, <1>2, <1>8, <1>9, <1>10, <1>11, <1>12, <1>13, Serves

LEMMA ReconcileReadsKeeps == ASSUME IInv, NEW t \in Tabs, ReconcileReads(t) PROVE IInv'
<1> DEFINE r    == req[t]
           cur  == ClientsByEmail(r.email)
           todo == Targets(r, cur)
           last == {c \in cur : \A d \in cur : d.ib = c.ib => d.id <= c.id}
           keep == {c \in last : c.ib \notin r.ids}
           q == [r EXCEPT !.pc = "count", !.cur = cur, !.todo = todo, !.keep = keep]
<1>1. On(t, "rlist") /\ Read /\ Then(t, q)
  BY DEF ReconcileReads
<1>2. /\ r # Idle /\ r.pc = "rlist" /\ Shape(r) /\ moves \in Nat
      /\ Dated(r, subs, nextId, moves)
      /\ ~overlapped => Lone(r, clients, inbounds)
      /\ ~overlapped /\ ~parted /\ faults = 0 => Sure(r, clients, subs)
  BY <1>1, Found
<1>3. /\ cur \subseteq clients /\ keep \subseteq cur /\ clients \subseteq Client
      /\ \A c \in clients : c \in cur <=> c.email = r.email
      /\ \A c \in clients : c.id < nextId /\ c.who <= moves
  BY DEF ClientsByEmail, IInv, Types, Dates
<1>4. todo \subseteq inbounds /\ inbounds \subseteq Inbounds
  <2>1. todo \subseteq inbounds
    BY DEF Targets
  <2>2. QED
    BY <2>1 DEF IInv, Types
<1> HIDE DEF cur, todo, keep
<1>5. q \in Req
  BY <1>2, <1>3, <1>4 DEF Shape, Req, Pcs
<1>6. /\ q.pc = "count" /\ q.op = r.op /\ q.into = r.into /\ q.email = r.email /\ q.cur = cur /\ q.todo = todo
      /\ q.keep = keep /\ q.made = r.made /\ q.who = r.who
  BY <1>2 DEF Shape, Req
<1> HIDE DEF q
<1>7. Shape(q)
  BY <1>2, <1>5, <1>6 DEF Shape
<1>8. Dated(q, subs, nextId, moves) /\ q.made \subseteq r.made
  BY <1>2, <1>3, <1>6 DEF Dated
<1>9. ~overlapped => Lone(q, clients, inbounds)
  <2> SUFFICES ASSUME ~overlapped PROVE Lone(q, clients, inbounds)
    OBVIOUS
  <2>1. Lone(r, clients, inbounds) /\ r.op # "create"
    BY <1>2 DEF Shape
  <2>2. cur # {} /\ \A c \in cur : c.who = r.who
    BY <1>2, <1>3, <2>1 DEF Lone
  <2>3. QED
    BY <1>2, <1>3, <1>4, <1>6, <2>1, <2>2 DEF Lone
<1>10. ~overlapped /\ ~parted /\ faults = 0 => Sure(q, clients, subs)
  BY <1>2, <1>6 DEF Sure, Shape
<1>11. QED
  BY <1>1, <1>2, <1>7, <1>8, <1>9, <1>10, Reads

\* Rows that go away from under nobody leave what is known of the others.
LEMMA RemoveClientKeeps == ASSUME IInv, NEW t \in Tabs, RemoveClient(t) PROVE IInv'
<1> DEFINE r == req[t]
<1>1. PICK c \in r.keep : clients' = {d \in clients : d.id # c.id} /\ Then(t, [r EXCEPT !.keep = @ \ {c}])
  BY DEF RemoveClient
<1> DEFINE q == [r EXCEPT !.keep = @ \ {c}]
<1>2. On(t, "remove") /\ Kept /\ Then(t, q)
      /\ inbounds' = inbounds /\ subs' = subs /\ nextId' = nextId /\ faults' = faults
  BY <1>1 DEF RemoveClient
<1>3. /\ r # Idle /\ r.pc = "remove" /\ Shape(r) /\ moves \in Nat /\ nextId \in Nat
      /\ Dated(r, subs, nextId, moves)
      /\ ~overlapped => Lone(r, clients, inbounds)
      /\ ~overlapped /\ ~parted /\ faults = 0 => Sure(r, clients, subs)
  BY <1>2, Found
<1>4. q \in Req
  BY <1>3 DEF Shape, Req
<1>5. /\ q.pc = "remove" /\ q.op = r.op /\ q.into = r.into /\ q.email = r.email /\ q.cur = r.cur
      /\ q.keep = r.keep \ {c} /\ q.made = r.made /\ q.who = r.who
  BY <1>3 DEF Shape, Req
<1> HIDE DEF q
<1>6. Shape(q) /\ Dated(q, subs', nextId', moves)
  BY <1>2, <1>3, <1>4, <1>5 DEF Shape, Dated
<1>7. /\ clients' \subseteq Client /\ subs' \subseteq Sub /\ clients' \subseteq clients
      /\ \A d \in clients' : d.id < nextId' /\ d.who <= moves
      /\ \A s \in subs' : s.id < nextId' /\ s.seed < nextId' /\ s.who <= moves /\ s.token <= moves
      /\ \A d, e \in clients' : d.id = e.id => d = e
      /\ \A s, x \in subs' : s.id = x.id => s = x
      /\ \A s \in subs' : s.allowed # {}
      /\ \A s \in subs' : (\E x \in subs : x.id = s.id) \/ \E w \in r.made : w[1] = s.id
      /\ nextId <= nextId' /\ nextId' \in Nat
  BY <1>1, <1>2, <1>3 DEF IInv, Types, Dates, Distinct, Limits
<1>8. ~overlapped => Lone(q, clients', inbounds)
  <2> SUFFICES ASSUME ~overlapped PROVE Lone(q, clients', inbounds)
    OBVIOUS
  <2>1. Lone(r, clients, inbounds)
    BY <1>3
  <2>2. \A k \in q.keep : k \in clients' \cap r.cur
    BY <1>1, <1>3, <1>5, <2>1 DEF Lone, IInv, Distinct
  <2>3. QED
    BY <1>3, <1>5, <1>7, <2>1, <2>2 DEF Lone
<1>9. ~overlapped /\ ~parted /\ faults = 0 /\ faults' = 0 => Sure(q, clients', subs')
  <2> SUFFICES ASSUME ~overlapped, ~parted, faults = 0 PROVE Sure(q, clients', subs)
    BY <1>2
  <2>1. Lone(r, clients, inbounds) /\ Sure(r, clients, subs) /\ r.op # "create"
    BY <1>3 DEF Shape
  <2>2. c \in clients /\ c \in r.cur /\ c.who = r.who
    BY <1>1, <1>3, <2>1 DEF Lone
  <2>3. \A s \in subs : s.who # r.who => s.seed # c.id
    BY <2>1, <2>2 DEF Sure
  <2>4. \A d \in clients : d.id # c.id => d \in clients'
    BY <1>1
  <2>5. \A s \in subs, d \in clients' : d.who = s.who =>
          (\E e \in clients' : e.id = s.seed) \/ s.who = r.who
    <3>1. ASSUME NEW s \in subs, NEW d \in clients', d.who = s.who, s.who # r.who
          PROVE  \E e \in clients' : e.id = s.seed
      <4>1. PICK e \in clients : e.id = s.seed
        BY <1>7, <2>1, <3>1 DEF Sure
      <4>2. QED
        BY <2>3, <2>4, <3>1, <4>1
    <3>2. QED
      BY <3>1
  <2>6. \A s \in subs : s.who = r.who => \E d \in clients' \cup r.cur : d.id = s.seed
    BY <1>3, <2>1, <2>2, <2>4 DEF Sure
  <2>7. \A s \in subs, d \in r.cur : d.id = s.seed => s.who = r.who
    BY <1>3, <2>1 DEF Sure
  <2>8. /\ \A d \in clients' : d.who = r.who => d.email = r.email
        /\ \A d, e \in clients' : d.who = e.who => d.email = e.email
        /\ \A s \in subs, d \in clients' : d.id = s.seed => d.who = s.who
    BY <1>3, <1>7, <2>1 DEF Sure
  <2>9. QED
    BY <1>3, <1>5, <2>5, <2>6, <2>7, <2>8 DEF Sure
<1>10. \A p \in q.made : p \in r.made \/ p[1] = nextId
  BY <1>5
<1>11. QED
  BY <1>2, <1>3, <1>6, <1>7, <1>8, <1>9, <1>10, Serves

LEMMA SurvivorsKeeps == ASSUME IInv, NEW t \in Tabs, Survivors(t) PROVE IInv'
<1> DEFINE r     == req[t]
           left  == ClientsByEmail(r.email)
           mine  == {s \in subs : s.seed \in {c.id : c \in left \cup r.cur}}
           scope == IF left = {} THEN {} ELSE mine
           q == [r EXCEPT !.pc = "scope", !.keep = left, !.scope = scope]
<1>1. On(t, "survivors") /\ Read /\ Then(t, q)
  BY DEF Survivors
<1>2. /\ r # Idle /\ r.pc = "survivors" /\ Shape(r) /\ moves \in Nat
      /\ Dated(r, subs, nextId, moves)
      /\ ~overlapped => Lone(r, clients, inbounds)
      /\ ~overlapped /\ ~parted /\ faults = 0 => Sure(r, clients, subs)
  BY <1>1, Found
<1>3. /\ left \subseteq clients /\ clients \subseteq Client
      /\ \A c \in clients : c \in left <=> c.email = r.email
      /\ \A c \in clients : c.id < nextId /\ c.who <= moves
  BY DEF ClientsByEmail, IInv, Types, Dates
<1>4. scope \subseteq subs /\ subs \subseteq Sub /\ (scope # {} => left # {})
  BY DEF IInv, Types
<1>5. left # {} => \A s \in subs : s \in scope <=> \E c \in left \cup r.cur : c.id = s.seed
  OBVIOUS
<1> HIDE DEF left, scope
<1>6. q \in Req
  BY <1>2, <1>3, <1>4 DEF Shape, Req, Pcs
<1>7. /\ q.pc = "scope" /\ q.op = r.op /\ q.into = r.into /\ q.email = r.email /\ q.cur = r.cur /\ q.keep = left
      /\ q.scope = scope /\ q.made = r.made /\ q.who = r.who
  BY <1>2 DEF Shape, Req
<1> HIDE DEF q
<1>8. Shape(q)
  BY <1>2, <1>4, <1>6, <1>7 DEF Shape
<1>9. Dated(q, subs, nextId, moves) /\ q.made \subseteq r.made
  BY <1>2, <1>3, <1>7 DEF Dated
<1>10. ~overlapped => Lone(q, clients, inbounds)
  BY <1>2, <1>7 DEF Lone
<1>11. ~overlapped /\ ~parted /\ faults = 0 => Sure(q, clients, subs)
  <2> SUFFICES ASSUME ~overlapped, ~parted, faults = 0 PROVE Sure(q, clients, subs)
    OBVIOUS
  <2>1. Lone(r, clients, inbounds) /\ Sure(r, clients, subs) /\ r.op # "create"
    BY <1>2 DEF Shape
  <2>2. \A c \in clients : c.who = r.who => c \in left
    BY <1>2, <1>3, <2>1 DEF Sure
  <2>3. \A k \in left : k.who = r.who
    BY <1>2, <1>3, <2>1 DEF Lone
  <2>4. \A s \in subs, c \in clients : s.who = r.who /\ c.who = r.who =>
          (\E d \in clients : d.id = s.seed) \/ \E z \in scope : z.id = s.id
    <3>1. ASSUME NEW s \in subs, s.who = r.who, left # {}
          PROVE  (\E d \in clients : d.id = s.seed) \/ s \in scope
      <4>1. \E d \in clients \cup r.cur : d.id = s.seed
        BY <1>2, <2>1, <3>1 DEF Sure
      <4>2. QED
        BY <1>5, <3>1, <4>1
    <3>2. QED
      BY <2>2, <3>1
  <2>5. \A z \in scope, s \in subs : z.id = s.id => s.who = r.who
    <3>1. ASSUME NEW z \in scope PROVE z.who = r.who
      <4>1. PICK c \in left \cup r.cur : c.id = z.seed
        BY <1>4, <1>5
      <4>2. CASE c \in left
        BY <1>3, <1>4, <2>1, <2>3, <4>1, <4>2 DEF Sure
      <4>3. CASE c \in r.cur
        BY <1>2, <1>4, <2>1, <4>1, <4>3 DEF Sure
      <4>4. QED
        BY <4>1, <4>2, <4>3
    <3>2. QED
      BY <1>4, <3>1 DEF IInv, Distinct
  <2>6. /\ \A s \in subs, c \in clients : c.id = s.seed => c.who = s.who
        /\ \A c, d \in clients : c.who = d.who => c.email = d.email
        /\ \A s \in subs, c \in clients : c.who = s.who => (\E d \in clients : d.id = s.seed) \/ s.who = r.who
        /\ \A c \in clients : c.who = r.who => c.email = r.email
    BY <1>2, <2>1 DEF Sure
  <2>7. QED
    BY <1>2, <1>3, <1>7, <2>1, <2>3, <2>4, <2>5, <2>6 DEF Sure
<1>12. QED
  BY <1>1, <1>2, <1>8, <1>9, <1>10, <1>11, Reads

\* A bundle that is rescoped has a seed among the rows that were left.
LEMMA SeedsAgain ==
  ASSUME NEW r, Shape(r), r.pc = "scope", r.scope # {}, NEW s \in Sub, NEW x \in Sub
  PROVE  /\ UpdateSubscriptionScope(r, s, x) \in Sub
         /\ UpdateSubscriptionScope(r, s, x).id = x.id /\ UpdateSubscriptionScope(r, s, x).who = x.who
         /\ UpdateSubscriptionScope(r, s, x).token = x.token
         /\ UpdateSubscriptionScope(r, s, x).revoked = x.revoked
         /\ UpdateSubscriptionScope(r, s, x).allowed # {}
         /\ \E k \in r.keep : UpdateSubscriptionScope(r, s, x).seed = k.id
<1> DEFINE ids == {c.id : c \in r.keep}
           ibs == {c.ib : c \in r.keep}
           seed == NewSeed(r, s)
<1>1. r.keep # {} /\ r.keep \subseteq Client
  BY DEF Shape, Req
<1>2. ids \in SUBSET Nat /\ ids # {} /\ ibs \in SUBSET Inbounds /\ ibs # {}
  BY <1>1 DEF Client
<1>3. seed \in ids
  <2>1. Min(ids) \in ids
    BY <1>2, MinOfNat
  <2>2. QED
    BY <2>1 DEF NewSeed
<1>4. seed \in Nat /\ \E k \in r.keep : seed = k.id
  BY <1>2, <1>3
<1>5. UpdateSubscriptionScope(r, s, x) = [x EXCEPT !.seed = seed, !.allowed = ibs]
  BY DEF UpdateSubscriptionScope
<1> HIDE DEF seed, ibs
<1>6. QED
  BY <1>2, <1>4, <1>5 DEF Sub

LEMMA RescopeKeeps == ASSUME IInv, NEW t \in Tabs, Rescope(t) PROVE IInv'
<1> DEFINE r == req[t]
<1>1. PICK z \in r.scope :
        /\ Then(t, [r EXCEPT !.scope = @ \ {z}])
        /\ \/ /\ subs' = {IF x.id = z.id THEN UpdateSubscriptionScope(r, z, x) ELSE x : x \in subs}
              /\ UNCHANGED faults
           \/ Fault /\ UNCHANGED subs
  BY DEF Rescope
<1> DEFINE q == [r EXCEPT !.scope = @ \ {z}]
           new(x) == IF x.id = z.id THEN UpdateSubscriptionScope(r, z, x) ELSE x
<1>2. On(t, "scope") /\ Kept /\ Then(t, q)
      /\ inbounds' = inbounds /\ clients' = clients /\ nextId' = nextId
  BY <1>1 DEF Rescope
<1>3. /\ r # Idle /\ r.pc = "scope" /\ Shape(r) /\ moves \in Nat /\ nextId \in Nat
      /\ Dated(r, subs, nextId, moves)
      /\ ~overlapped => Lone(r, clients, inbounds)
      /\ ~overlapped /\ ~parted /\ faults = 0 => Sure(r, clients, subs)
  BY <1>2, Found
<1>4. q \in Req
  BY <1>3 DEF Shape, Req
<1>5. /\ q.pc = "scope" /\ q.op = r.op /\ q.into = r.into /\ q.email = r.email /\ q.cur = r.cur
      /\ q.keep = r.keep /\ q.made = r.made /\ q.who = r.who /\ q.scope = r.scope \ {z}
  BY <1>3 DEF Shape, Req
<1> HIDE DEF q
<1>6. z \in Sub /\ r.scope # {}
  BY <1>3 DEF Shape, Req
<1>7. Shape(q)
  BY <1>3, <1>4, <1>5 DEF Shape
<1>8. /\ clients \subseteq Client /\ subs \subseteq Sub
      /\ \A d \in clients : d.id < nextId /\ d.who <= moves
      /\ \A s \in subs : s.id < nextId /\ s.seed < nextId /\ s.who <= moves /\ s.token <= moves
      /\ \A d, e \in clients : d.id = e.id => d = e
      /\ \A s, x \in subs : s.id = x.id => s = x
      /\ \A s \in subs : s.allowed # {}
  BY DEF IInv, Types, Dates, Distinct, Limits
<1>9. ~overlapped => Lone(q, clients', inbounds)
  BY <1>2, <1>3, <1>5 DEF Lone
<1>10. /\ nextId <= nextId' /\ nextId' \in Nat /\ \A p \in q.made : p \in r.made \/ p[1] = nextId
  BY <1>2, <1>3, <1>5
<1>11. CASE Fault /\ UNCHANGED subs
  <2>1. faults' = faults + 1 /\ faults \in Nat
    BY <1>11 DEF Fault, IInv, Types
  <2>2. Dated(q, subs', nextId', moves)
    BY <1>2, <1>3, <1>5, <1>11 DEF Dated
  <2>3. \A s \in subs' : (\E x \in subs : x.id = s.id) \/ \E w \in r.made : w[1] = s.id
    BY <1>11
  <2>4. QED
    BY <1>2, <1>3, <1>7, <1>8, <1>9, <1>10, <1>11, <2>1, <2>2, <2>3, Serves
<1>12. CASE subs' = {new(x) : x \in subs} /\ faults' = faults
  <2>1. \A x \in subs : /\ new(x) \in Sub /\ new(x).id = x.id /\ new(x).who = x.who
                        /\ new(x).token = x.token /\ new(x).allowed # {}
                        /\ new(x).seed = x.seed \/ \E k \in r.keep : new(x).seed = k.id
                        /\ x.id = z.id => \E k \in r.keep : new(x).seed = k.id
                        /\ x.id # z.id => new(x) = x
    BY <1>3, <1>6, <1>8, SeedsAgain
  <2> HIDE DEF new
  <2>2. \A k \in r.keep : k.id < nextId
    BY <1>3 DEF Dated
  <2>3. /\ subs' \subseteq Sub
        /\ \A s \in subs' : s.id < nextId' /\ s.seed < nextId' /\ s.who <= moves /\ s.token <= moves
        /\ \A s \in subs' : s.allowed # {}
        /\ \A s \in subs' : \E x \in subs : x.id = s.id
    BY <1>2, <1>8, <1>12, <2>1, <2>2
  <2>4. \A s, x \in subs' : s.id = x.id => s = x
    BY <1>8, <1>12, <2>1
  <2>5. Dated(q, subs', nextId', moves)
    BY <1>2, <1>3, <1>5, <2>3 DEF Dated
  <2>6. ~overlapped /\ ~parted /\ faults = 0 => Sure(q, clients', subs')
    <3> SUFFICES ASSUME ~overlapped, ~parted, faults = 0 PROVE Sure(q, clients, subs')
      BY <1>2
    <3>1. Lone(r, clients, inbounds) /\ Sure(r, clients, subs)
      BY <1>3
    <3>2. r.keep \subseteq clients /\ \A k \in r.keep : k.who = r.who
      BY <1>3, <3>1 DEF Sure
    <3>3. \A x \in subs : x.id = z.id => x.who = r.who
      BY <1>3, <3>1 DEF Sure
    <3>4. \A s \in subs', c \in clients : c.id = s.seed => c.who = s.who
      <4>1. ASSUME NEW x \in subs, NEW c \in clients, c.id = new(x).seed PROVE c.who = new(x).who
        <5>1. CASE x.id = z.id
          <6>1. PICK k \in r.keep : new(x).seed = k.id
            BY <2>1, <5>1
          <6>2. k = c
            BY <1>8, <3>2, <4>1, <6>1
          <6>3. QED
            BY <2>1, <3>2, <3>3, <5>1, <6>2
        <5>2. CASE x.id # z.id
          BY <2>1, <3>1, <4>1, <5>2 DEF Sure
        <5>3. QED
          BY <5>1, <5>2
      <4>2. QED
        BY <1>12, <4>1
    <3>5. \A s \in subs', c \in clients : c.who = s.who =>
            (\E d \in clients : d.id = s.seed) \/ s.who = r.who
      <4>1. ASSUME NEW x \in subs, NEW c \in clients, c.who = new(x).who, new(x).who # r.who
            PROVE  \E d \in clients : d.id = new(x).seed
        <5>1. x.id # z.id
          BY <2>1, <3>3, <4>1
        <5>2. QED
          BY <2>1, <3>1, <4>1, <5>1 DEF Sure
      <4>2. QED
        BY <1>12, <4>1
    <3>6. \A s \in subs', c \in clients : s.who = r.who /\ c.who = r.who =>
            (\E d \in clients : d.id = s.seed) \/ \E y \in q.scope : y.id = s.id
      <4>1. ASSUME NEW x \in subs, NEW c \in clients, new(x).who = r.who, c.who = r.who
            PROVE  (\E d \in clients : d.id = new(x).seed) \/ \E y \in q.scope : y.id = new(x).id
        <5>1. CASE x.id = z.id
          BY <2>1, <3>2, <5>1
        <5>2. CASE x.id # z.id
          <6>1. (\E d \in clients : d.id = x.seed) \/ \E y \in r.scope : y.id = x.id
            BY <1>3, <2>1, <3>1, <4>1 DEF Sure
          <6>2. QED
            BY <1>5, <2>1, <5>2, <6>1
        <5>3. QED
          BY <5>1, <5>2
      <4>2. QED
        BY <1>12, <4>1
    <3>7. \A y \in q.scope, s \in subs' : y.id = s.id => s.who = r.who
      BY <1>3, <1>5, <1>12, <2>1, <3>1 DEF Sure
    <3>8. /\ \A c, d \in clients : c.who = d.who => c.email = d.email
          /\ \A c \in clients : c.who = r.who => c.email = r.email
      BY <1>3, <3>1 DEF Sure
    <3>9. QED
      BY <1>5, <3>2, <3>4, <3>5, <3>6, <3>7, <3>8 DEF Sure
  <2>7. QED
    BY <1>2, <1>3, <1>7, <1>8, <1>9, <1>10, <1>12, <2>3, <2>4, <2>5, <2>6, Serves
<1>13. QED
  BY <1>1, <1>11, <1>12

LEMMA AddReadsKeeps == ASSUME IInv, NEW t \in Tabs, AddReads(t) PROVE IInv'
<1> DEFINE r == req[t]
           q == [r EXCEPT !.pc = "next"]
<1>1. On(t, "inbound") /\ Read /\ (End(t) \/ Then(t, q))
  BY DEF AddReads
<1>2. CASE End(t)
  BY <1>1, <1>2, Ends
<1>3. CASE Then(t, q)
  <2>1. /\ r # Idle /\ r.pc = "inbound" /\ Shape(r) /\ moves \in Nat
        /\ Dated(r, subs, nextId, moves)
        /\ ~overlapped => Lone(r, clients, inbounds)
        /\ ~overlapped /\ ~parted /\ faults = 0 => Sure(r, clients, subs)
    BY <1>1, Found
  <2>2. q \in Req /\ q.pc = "next" /\ Same(q, r)
    BY <2>1, Turned DEF Shape, Pcs
  <2>3. /\ q.op = r.op /\ q.into = r.into /\ q.email = r.email /\ q.new = r.new /\ q.cur = r.cur
        /\ q.keep = r.keep /\ q.made = r.made /\ q.who = r.who
    BY <2>2 DEF Same
  <2> HIDE DEF q
  <2>4. Shape(q) /\ Dated(q, subs, nextId, moves) /\ q.made \subseteq r.made
    BY <2>1, <2>2, <2>3 DEF Shape, Dated
  <2>5. ~overlapped => Lone(q, clients, inbounds)
    BY <2>1, <2>2, <2>3 DEF Lone
  <2>6. ~overlapped /\ ~parted /\ faults = 0 => Sure(q, clients, subs)
    BY <2>1, <2>2, <2>3 DEF Sure
  <2>7. QED
    BY <1>1, <1>3, <2>1, <2>4, <2>5, <2>6, Reads
<1>4. QED
  BY <1>1, <1>2, <1>3

LEMMA AddNextKeeps == ASSUME IInv, NEW t \in Tabs, AddNext(t) PROVE IInv'
<1> DEFINE r == req[t]
<1>1. On(t, "next") /\ Read
  BY DEF AddNext
<1>2. /\ r # Idle /\ r.pc = "next" /\ Shape(r) /\ moves \in Nat
      /\ Dated(r, subs, nextId, moves)
      /\ ~overlapped => Lone(r, clients, inbounds)
      /\ ~overlapped /\ ~parted /\ faults = 0 => Sure(r, clients, subs)
  BY <1>1, Found
<1>3. PICK e \in r.rest :
        LET p == [r EXCEPT !.rest = @ \ {e}]  cur == ClientsByEmail(e) IN
        Then(t, IF cur = {} \/ p.into \in {c.ib : c \in cur} THEN p
                ELSE [p EXCEPT !.pc = "rlist", !.email = e, !.who = (CHOOSE c \in cur : TRUE).who,
                               !.ids = {p.into} \cup {c.ib : c \in cur}])
  BY DEF AddNext
<1> DEFINE p   == [r EXCEPT !.rest = @ \ {e}]
           cur == ClientsByEmail(e)
           who == (CHOOSE c \in cur : TRUE).who
           ids == {p.into} \cup {c.ib : c \in cur}
           q   == [p EXCEPT !.pc = "rlist", !.email = e, !.who = who, !.ids = ids]
           serves == cur = {} \/ p.into \in {c.ib : c \in cur}
<1>4. Then(t, IF serves THEN p ELSE q) /\ e \in Emails
  BY <1>2, <1>3 DEF Shape, Req
<1>5. p \in Req
  BY <1>2 DEF Shape, Req
<1>6. /\ p.pc = "next" /\ p.op = r.op /\ p.email = r.email /\ p.new = r.new /\ p.cur = r.cur
      /\ p.keep = r.keep /\ p.made = r.made /\ p.who = r.who /\ p.into = r.into
  BY <1>2 DEF Shape, Req
<1> HIDE DEF p
<1>7. Shape(p) /\ Dated(p, subs, nextId, moves) /\ p.made \subseteq r.made
  BY <1>2, <1>5, <1>6 DEF Shape, Dated
<1>8. ~overlapped => Lone(p, clients, inbounds)
  BY <1>2, <1>6 DEF Lone
<1>9. ~overlapped /\ ~parted /\ faults = 0 => Sure(p, clients, subs)
  BY <1>2, <1>6 DEF Sure
<1>10. CASE serves
  BY <1>1, <1>2, <1>4, <1>7, <1>8, <1>9, <1>10, Reads
<1>11. CASE ~serves
  <2>1. Then(t, q) /\ cur # {}
    BY <1>4, <1>11
  <2>2. /\ cur \subseteq clients /\ clients \subseteq Client
        /\ \A c \in clients : c \in cur <=> c.email = e
        /\ \A c \in clients : c.who \in Int /\ c.who <= moves
    BY DEF ClientsByEmail, IInv, Types, Dates, Client
  <2>3. PICK first \in cur : who = first.who
    BY <2>1
  <2>4. ids \subseteq Inbounds
    BY <1>6, <1>7, <2>2 DEF Shape, Client
  <2> HIDE DEF cur, who, ids
  <2>5. q \in Req
    BY <1>4, <1>5, <2>2, <2>3, <2>4 DEF Req, Pcs
  <2>6. /\ q.pc = "rlist" /\ q.op = p.op /\ q.email = e /\ q.new = p.new /\ q.cur = p.cur
        /\ q.keep = p.keep /\ q.made = p.made /\ q.who = who /\ q.into = p.into
    BY <1>5 DEF Req
  <2> HIDE DEF q
  <2>7. Shape(q) /\ Dated(q, subs, nextId, moves) /\ q.made \subseteq r.made
    BY <1>4, <1>6, <1>7, <2>2, <2>3, <2>5, <2>6 DEF Shape, Dated
  <2>8. ~overlapped => Lone(q, clients, inbounds)
    BY <1>8, <2>2, <2>3, <2>6 DEF Lone
  <2>9. ~overlapped /\ ~parted /\ faults = 0 => Sure(q, clients, subs)
    BY <1>6, <1>9, <2>2, <2>3, <2>6 DEF Sure
  <2>10. QED
    BY <1>1, <1>2, <2>1, <2>7, <2>8, <2>9, Reads
<1>12. QED
  BY <1>10, <1>11

LEMMA DeleteListsKeeps == ASSUME IInv, NEW t \in Tabs, DeleteLists(t) PROVE IInv'
<1> DEFINE r == req[t]
           scope == {s \in subs : s.seed \in {c.id : c \in r.cur}}
           q == [r EXCEPT !.pc = "dsub", !.scope = scope]
<1>1. On(t, "dsubs") /\ Read /\ Then(t, q)
  BY DEF DeleteLists
<1>2. /\ r # Idle /\ r.pc = "dsubs" /\ Shape(r) /\ moves \in Nat
      /\ Dated(r, subs, nextId, moves)
      /\ ~overlapped => Lone(r, clients, inbounds)
      /\ ~overlapped /\ ~parted /\ faults = 0 => Sure(r, clients, subs)
  BY <1>1, Found
<1>3. scope \subseteq Sub
  BY DEF IInv, Types
<1> HIDE DEF scope
<1>4. q \in Req
  BY <1>2, <1>3 DEF Shape, Req, Pcs
<1>5. /\ q.pc = "dsub" /\ q.op = r.op /\ q.into = r.into /\ q.email = r.email /\ q.cur = r.cur
      /\ q.keep = r.keep /\ q.made = r.made /\ q.who = r.who
  BY <1>2 DEF Shape, Req
<1> HIDE DEF q
<1>6. Shape(q) /\ Dated(q, subs, nextId, moves) /\ q.made \subseteq r.made
  BY <1>2, <1>4, <1>5 DEF Shape, Dated
<1>7. ~overlapped => Lone(q, clients, inbounds)
  BY <1>2, <1>5 DEF Lone
<1>8. ~overlapped /\ ~parted /\ faults = 0 => Sure(q, clients, subs)
  BY <1>2, <1>5 DEF Sure
<1>9. QED
  BY <1>1, <1>2, <1>6, <1>7, <1>8, Reads

\* A bundle that goes away takes nothing from the others.
Narrows(ss, xs) == \A x \in xs : \E s \in ss : s.id = x.id /\ s.seed = x.seed /\ s.who = x.who
LEMMA SureNarrows ==
  ASSUME NEW r, NEW cs, NEW ss, NEW xs, Sure(r, cs, ss), Narrows(ss, xs)
  PROVE  Sure(r, cs, xs)
BY DEF Sure, Narrows

LEMMA DeleteSubsKeeps == ASSUME IInv, NEW t \in Tabs, DeleteSubs(t) PROVE IInv'
<1> DEFINE r == req[t]
<1>1. PICK z \in r.scope :
        /\ Then(t, [r EXCEPT !.scope = @ \ {z}])
        /\ \/ subs' = {x \in subs : x.id # z.id} /\ UNCHANGED faults
           \/ Fault /\ UNCHANGED subs
  BY DEF DeleteSubs
<1> DEFINE q == [r EXCEPT !.scope = @ \ {z}]
<1>2. On(t, "dsub") /\ Kept /\ Then(t, q) /\ subs' \subseteq subs /\ (faults' = faults \/ faults' = faults + 1)
      /\ inbounds' = inbounds /\ clients' = clients /\ nextId' = nextId
  BY <1>1 DEF DeleteSubs, Fault
<1>3. /\ r # Idle /\ r.pc = "dsub" /\ Shape(r) /\ moves \in Nat /\ nextId \in Nat
      /\ Dated(r, subs, nextId, moves)
      /\ ~overlapped => Lone(r, clients, inbounds)
      /\ ~overlapped /\ ~parted /\ faults = 0 => Sure(r, clients, subs)
  BY <1>2, Found
<1>4. q \in Req
  BY <1>3 DEF Shape, Req
<1>5. /\ q.pc = "dsub" /\ q.op = r.op /\ q.into = r.into /\ q.email = r.email /\ q.cur = r.cur
      /\ q.keep = r.keep /\ q.made = r.made /\ q.who = r.who
  BY <1>3 DEF Shape, Req
<1> HIDE DEF q
<1>6. Shape(q) /\ Dated(q, subs', nextId', moves)
  BY <1>2, <1>3, <1>4, <1>5 DEF Shape, Dated
<1>7. /\ clients' \subseteq Client /\ subs' \subseteq Sub
      /\ \A d \in clients' : d.id < nextId' /\ d.who <= moves
      /\ \A s \in subs' : s.id < nextId' /\ s.seed < nextId' /\ s.who <= moves /\ s.token <= moves
      /\ \A d, e \in clients' : d.id = e.id => d = e
      /\ \A s, x \in subs' : s.id = x.id => s = x
      /\ \A s \in subs' : s.allowed # {}
      /\ \A s \in subs' : (\E x \in subs : x.id = s.id) \/ \E w \in r.made : w[1] = s.id
      /\ nextId <= nextId' /\ nextId' \in Nat
      /\ \A p \in q.made : p \in r.made \/ p[1] = nextId
  BY <1>2, <1>3, <1>5 DEF IInv, Types, Dates, Distinct, Limits
<1>8. ~overlapped => Lone(q, clients', inbounds)
  BY <1>2, <1>3, <1>5 DEF Lone
<1>9. ~overlapped /\ ~parted /\ faults = 0 /\ faults' = 0 => Sure(q, clients', subs')
  BY <1>2, <1>3, <1>5 DEF Sure
<1>10. QED
  BY <1>2, <1>3, <1>6, <1>7, <1>8, <1>9, Serves

LEMMA DeleteRowsKeeps == ASSUME IInv, NEW t \in Tabs, DeleteRows(t) PROVE IInv'
<1> DEFINE r == req[t]
<1>1. PICK c \in r.keep : clients' = {d \in clients : d.id # c.id} /\ Then(t, [r EXCEPT !.keep = @ \ {c}])
  BY DEF DeleteRows
<1> DEFINE q == [r EXCEPT !.keep = @ \ {c}]
<1>2. On(t, "dclient") /\ Kept /\ Then(t, q) /\ clients' \subseteq clients
      /\ inbounds' = inbounds /\ subs' = subs /\ nextId' = nextId /\ faults' = faults
  BY <1>1 DEF DeleteRows
<1>3. /\ r # Idle /\ r.pc = "dclient" /\ Shape(r) /\ moves \in Nat /\ nextId \in Nat
      /\ Dated(r, subs, nextId, moves)
      /\ ~overlapped => Lone(r, clients, inbounds)
      /\ ~overlapped /\ ~parted /\ faults = 0 => Sure(r, clients, subs)
  BY <1>2, Found
<1>4. q \in Req
  BY <1>3 DEF Shape, Req
<1>5. /\ q.pc = "dclient" /\ q.op = r.op /\ q.into = r.into /\ q.email = r.email /\ q.cur = r.cur
      /\ q.keep = r.keep \ {c} /\ q.made = r.made /\ q.who = r.who
  BY <1>3 DEF Shape, Req
<1> HIDE DEF q
<1>6. Shape(q) /\ Dated(q, subs', nextId', moves)
  BY <1>2, <1>3, <1>4, <1>5 DEF Shape, Dated
<1>7. /\ clients' \subseteq Client /\ subs' \subseteq Sub
      /\ \A d \in clients' : d.id < nextId' /\ d.who <= moves
      /\ \A s \in subs' : s.id < nextId' /\ s.seed < nextId' /\ s.who <= moves /\ s.token <= moves
      /\ \A d, e \in clients' : d.id = e.id => d = e
      /\ \A s, x \in subs' : s.id = x.id => s = x
      /\ \A s \in subs' : s.allowed # {}
      /\ \A s \in subs' : (\E x \in subs : x.id = s.id) \/ \E w \in r.made : w[1] = s.id
      /\ nextId <= nextId' /\ nextId' \in Nat
      /\ \A p \in q.made : p \in r.made \/ p[1] = nextId
  BY <1>2, <1>3, <1>5 DEF IInv, Types, Dates, Distinct, Limits
<1>8. ~overlapped => Lone(q, clients', inbounds)
  <2> SUFFICES ASSUME ~overlapped PROVE Lone(q, clients', inbounds)
    OBVIOUS
  <2>1. Lone(r, clients, inbounds)
    BY <1>3
  <2>2. \A k \in q.keep : k \in clients'
    BY <1>1, <1>3, <1>5, <2>1 DEF Lone, IInv, Distinct
  <2>3. QED
    BY <1>2, <1>3, <1>5, <2>1, <2>2 DEF Lone
<1>9. ~overlapped /\ ~parted /\ faults = 0 /\ faults' = 0 => Sure(q, clients', subs')
  <2> SUFFICES ASSUME ~overlapped, ~parted, faults = 0 PROVE Sure(q, clients', subs)
    BY <1>2
  <2>1. Lone(r, clients, inbounds) /\ Sure(r, clients, subs) /\ r.op # "create"
    BY <1>3 DEF Shape
  <2>2. c \in clients /\ c.who = r.who
    BY <1>1, <1>3, <2>1 DEF Lone
  <2>3. \A s \in subs : s.who # r.who => s.seed # c.id
    BY <2>1, <2>2 DEF Sure
  <2>4. \A d \in clients : d.id # c.id => d \in clients'
    BY <1>1
  <2>5. \A s \in subs, d \in clients' : d.who = s.who =>
          (\E e \in clients' : e.id = s.seed) \/ s.who = r.who
    <3>1. ASSUME NEW s \in subs, NEW d \in clients', d.who = s.who, s.who # r.who
          PROVE  \E e \in clients' : e.id = s.seed
      <4>1. PICK e \in clients : e.id = s.seed
        BY <1>2, <2>1, <3>1 DEF Sure
      <4>2. QED
        BY <2>3, <2>4, <3>1, <4>1
    <3>2. QED
      BY <3>1
  <2>6. \A d \in clients' : d # c
    BY <1>1
  <2>7. /\ \A d, e \in clients' : d.who = e.who => d.email = e.email
        /\ \A s \in subs, d \in clients' : d.id = s.seed => d.who = s.who
        /\ \A d \in clients' : d.who = r.who => d \in q.keep
    BY <1>2, <1>3, <1>5, <2>1, <2>6 DEF Sure
  <2>8. QED
    BY <1>5, <2>5, <2>7 DEF Sure
<1>10. QED
  BY <1>2, <1>3, <1>6, <1>7, <1>8, <1>9, Serves

LEMMA FailKeeps == ASSUME IInv, NEW t \in Tabs, Fail(t) PROVE IInv'
<1>1. req[t] # Idle /\ Then(t, Idle) /\ Kept /\ faults' = faults + 1
      /\ inbounds' = inbounds /\ clients' = clients /\ subs' = subs /\ nextId' = nextId
  BY DEF Fail, Fault, End, db
<1>2. /\ clients \subseteq Client /\ subs \subseteq Sub /\ nextId \in Nat /\ nextId <= nextId
      /\ moves \in Nat /\ faults \in Nat
      /\ \A d \in clients : d.id < nextId /\ d.who <= moves
      /\ \A s \in subs : s.id < nextId /\ s.seed < nextId /\ s.who <= moves /\ s.token <= moves
      /\ \A d, e \in clients : d.id = e.id => d = e
      /\ \A s, x \in subs : s.id = x.id => s = x
      /\ \A s \in subs : s.allowed # {}
      /\ \A s \in subs : \E x \in subs : x.id = s.id
  BY DEF IInv, Types, Dates, Distinct, Limits
<1>3. Shape(Idle) /\ Dated(Idle, subs, nextId, moves) /\ Idle.made = {} /\ Idle.pc = "none"
  BY <1>2, Idles DEF Idle
<1>4. ~overlapped => Lone(Idle, clients, inbounds)
  BY <1>1, <1>3 DEF IInv, LoneInv, Lone
<1>5. faults' # 0
  BY <1>1, <1>2
<1>6. QED
  BY <1>1, <1>2, <1>3, <1>4, <1>5, Serves

LEMMA ServeKeeps == ASSUME IInv, NEW t \in Tabs, Serve(t) PROVE IInv'
BY CreateChecksKeeps, CountClientKeeps, InsertClientKeeps, CreateSubKeeps, ReadClientsKeeps,
   UpdateCollidesKeeps, SaveClientKeeps, ReconcileReadsKeeps, RemoveClientKeeps, SurvivorsKeeps,
   RescopeKeeps, AddReadsKeeps, AddNextKeeps, DeleteListsKeeps, DeleteSubsKeeps, DeleteRowsKeeps,
   FailKeeps DEF Serve

Cached ==
  /\ users \in [Tabs -> SUBSET [email: Emails, ibs: SUBSET Inbounds, on: BOOLEAN]]
  /\ edit \in [Tabs -> [email: Emails \cup {Nobody}, members: SUBSET Inbounds, ready: BOOLEAN, on: BOOLEAN]]
  /\ \A t \in Tabs : edit[t] = Closed \/ edit[t].email \in Emails
  /\ bulk \in [busy: BOOLEAN, ids: SUBSET Nat, todo: SUBSET Nat, failed: Nat]

\* A step beside the requests: it changes nothing that a request in flight
\* relies on, or it finds none in flight.
LEMMA Beside ==
  ASSUME IInv, req' = req, nextId' = nextId, Cached',
         inbounds' \subseteq Inbounds, gone' \subseteq Inbounds,
         clients' \subseteq Client, subs' \subseteq Sub,
         moves' = moves \/ moves' = moves + 1, faults' = faults \/ faults' = faults + 1,
         overlapped' \in BOOLEAN, parted' \in BOOLEAN, overlapped => overlapped', parted => parted',
         \A c \in clients' : \E d \in clients : c.id = d.id /\ c.who = d.who,
         \A c, d \in clients' : c.id = d.id => c = d,
         Narrows(subs, subs'),
         \A s \in subs' : s.token <= moves' /\ s.allowed # {},
         \A s, x \in subs' : s.id = x.id => s = x,
         ~overlapped' => \/ clients' = clients /\ inbounds \subseteq inbounds'
                         \/ ~Busy /\ Lone(Idle, clients', inbounds'),
         ~overlapped' /\ ~parted' /\ faults' = 0 =>
           \/ clients' = clients
           \/ ~Busy /\ Sure(Idle, clients', subs)
  PROVE  IInv'
<1>1. Types'
  BY DEF IInv, Types, Cached
<1>2. moves \in Nat /\ moves <= moves' /\ faults \in Nat /\ nextId \in Nat
  BY DEF IInv, Types
<1>3. Dates'
  <2>1. \A c \in clients' : c.id < nextId' /\ c.who <= moves'
    BY <1>2 DEF IInv, Types, Dates, Client
  <2>2. \A s \in subs' : s.id < nextId' /\ s.seed < nextId' /\ s.who <= moves'
    BY <1>2 DEF IInv, Types, Dates, Narrows, Sub
  <2>3. \A t \in Tabs : Dated(req[t], subs', nextId, moves')
    <3>1. ASSUME NEW t \in Tabs PROVE Dated(req[t], subs', nextId, moves')
      <4>1. Dated(req[t], subs, nextId, moves) /\ req[t] \in Req
        BY DEF IInv, Types, Shape, Dates
      <4>2. req[t].who <= moves'
        BY <1>2, <4>1 DEF Dated, Req
      <4>3. \A c \in req[t].cur \cup req[t].keep : c.id < nextId /\ c.who <= moves'
        BY <1>2, <4>1 DEF Dated, Req, Client
      <4>4. \A p \in req[t].made : p[1] < nextId /\ \A s \in subs' : s.id # p[1]
        BY <4>1 DEF Dated, Narrows
      <4>5. QED
        BY <4>2, <4>3, <4>4 DEF Dated
    <3>2. QED
      BY <3>1
  <2>4. QED
    BY <2>1, <2>2, <2>3 DEF Dates
<1>4. Distinct' /\ Limits' /\ AllSettled'
  BY DEF IInv, Distinct, Limits, AllSettled
<1>5. Busy' <=> Busy
  BY DEF Busy
<1>6. ~Busy => \A t \in Tabs : req[t] = Idle
  BY DEF Busy
<1>7. LoneInv'
  <2> SUFFICES ASSUME ~overlapped'
               PROVE  /\ OneRequest'
                      /\ ~Busy => Lone(Idle, clients', inbounds')
                      /\ \A t \in Tabs : req[t] # Idle => Lone(req[t], clients', inbounds')
    BY <1>5 DEF LoneInv
  <2>1. ~overlapped
    OBVIOUS
  <2>2. OneRequest'
    BY <2>1 DEF IInv, LoneInv, OneRequest
  <2>3. CASE clients' = clients /\ inbounds \subseteq inbounds'
    <3>1. \A r : Lone(r, clients, inbounds) => Lone(r, clients', inbounds')
      BY <2>3 DEF Lone
    <3>2. QED
      BY <2>1, <2>2, <3>1 DEF IInv, LoneInv
  <2>4. CASE ~Busy /\ Lone(Idle, clients', inbounds')
    BY <1>6, <2>2, <2>4
  <2>5. QED
    BY <2>3, <2>4
<1>8. SureInv'
  <2> SUFFICES ASSUME ~overlapped', ~parted', faults' = 0
               PROVE  /\ ~Busy => Sure(Idle, clients', subs')
                      /\ \A t \in Tabs : req[t] # Idle => Sure(req[t], clients', subs')
    BY <1>5 DEF SureInv
  <2>1. ~overlapped /\ ~parted /\ faults = 0
    BY <1>2
  <2>2. CASE clients' = clients
    BY <2>1, <2>2, SureNarrows DEF IInv, SureInv
  <2>3. CASE ~Busy /\ Sure(Idle, clients', subs)
    BY <1>6, <2>3, SureNarrows
  <2>4. QED
    BY <2>2, <2>3
<1>9. QED
  BY <1>1, <1>3, <1>4, <1>7, <1>8 DEF IInv

\* A request that begins: nothing else is in flight, or it overlaps.
LEMMA Asks ==
  ASSUME IInv, NEW t \in Tabs, NEW r, Ask(t, r), moves' = moves + 1, Shape(r),
         r.pc \in {"list", "clients", "inbound"}, r.made = {}, r.cur = {}, r.keep = {},
         edit' = edit \/ edit' = [edit EXCEPT ![t] = Closed]
  PROVE  IInv'
<1> DEFINE q == [r EXCEPT !.who = moves + 1]
<1>1. /\ moves \in Nat /\ nextId \in Nat /\ DOMAIN req = Tabs
      /\ req[t] = Idle /\ req' = [req EXCEPT ![t] = q]
      /\ overlapped' = (overlapped \/ Busy) /\ parted' = parted /\ faults' = faults
      /\ inbounds' = inbounds /\ clients' = clients /\ subs' = subs /\ nextId' = nextId
      /\ users' = users /\ bulk' = bulk /\ gone' = gone
  BY DEF IInv, Types, Ask, Busy, db
<1>2. q \in Req
  BY <1>1 DEF Shape, Req
<1>3. /\ q.pc = r.pc /\ q.op = r.op /\ q.email = r.email /\ q.new = r.new /\ q.cur = {} /\ q.keep = {}
      /\ q.made = {} /\ q.who = moves + 1 /\ q.into = r.into
  BY DEF Shape, Req
<1> HIDE DEF q
<1>4. Shape(q) /\ Settled(q) /\ Dated(q, subs, nextId, moves + 1)
  BY <1>1, <1>2, <1>3 DEF Shape, Settled, Dated
<1>5. req'[t] = q /\ DOMAIN req' = Tabs /\ \A u \in Tabs \ {t} : req'[u] = req[u]
  BY <1>1
<1>6. Types'
  <2>1. \A u \in Tabs : Shape(req'[u])
    BY <1>4, <1>5 DEF IInv, Types
  <2>2. overlapped' \in BOOLEAN
    BY <1>1 DEF IInv, Types, Busy
  <2>3. edit' \in [Tabs -> [email: Emails \cup {Nobody}, members: SUBSET Inbounds, ready: BOOLEAN, on: BOOLEAN]]
        /\ \A u \in Tabs : edit'[u] = Closed \/ edit'[u].email \in Emails
    <3>1. Closed \in [email: Emails \cup {Nobody}, members: SUBSET Inbounds, ready: BOOLEAN, on: BOOLEAN]
      BY DEF Closed
    <3>2. QED
      BY <3>1 DEF IInv, Types
  <2>4. QED
    BY <1>1, <1>5, <2>1, <2>2, <2>3 DEF IInv, Types, Closed
<1>7. Dates'
  <2>1. \A c \in clients : c.id < nextId /\ c.who <= moves + 1
    BY <1>1 DEF IInv, Types, Dates, Client
  <2>2. \A s \in subs : s.id < nextId /\ s.seed < nextId /\ s.who <= moves + 1 /\ s.token <= moves + 1
    BY <1>1 DEF IInv, Types, Dates, Sub
  <2>3. \A u \in Tabs : Dated(req[u], subs, nextId, moves + 1)
    BY <1>1 DEF IInv, Types, Dates, Dated, Shape, Req, Client
  <2>4. QED
    BY <1>1, <1>4, <1>5, <2>1, <2>2, <2>3 DEF Dates
<1>8. Distinct' /\ Limits' /\ AllSettled'
  <2>1. \A u, v \in Tabs : u # v => \A p \in req'[u].made, w \in req'[v].made : p[1] # w[1]
    BY <1>3, <1>5 DEF IInv, Distinct
  <2>2. QED
    BY <1>1, <1>4, <1>5, <2>1 DEF IInv, Distinct, Limits, AllSettled
<1>9. Busy' /\ q # Idle
  BY <1>3, <1>5 DEF Busy, Idle
<1>10. ~overlapped' => ~overlapped /\ ~Busy /\ \A u \in Tabs \ {t} : req'[u] = Idle
  BY <1>1, <1>5 DEF Busy
<1>11. \A c \in clients : c.who # moves + 1
  BY <1>1 DEF IInv, Types, Dates, Client
<1>12. \A s \in subs : s.who # moves + 1
  BY <1>1 DEF IInv, Types, Dates, Sub
<1>13. LoneInv'
  <2>1. ~overlapped /\ ~Busy => Lone(q, clients, inbounds)
    <3>1. ~overlapped /\ ~Busy => Lone(Idle, clients, inbounds)
      BY DEF IInv, LoneInv
    <3>2. QED
      BY <1>3, <1>11, <3>1 DEF Lone
  <2>2. QED
    BY <1>1, <1>5, <1>9, <1>10, <2>1 DEF LoneInv, OneRequest
<1>14. SureInv'
  <2>1. ~overlapped /\ ~Busy /\ ~parted /\ faults = 0 => Sure(q, clients, subs)
    <3>1. ~overlapped /\ ~Busy /\ ~parted /\ faults = 0 => Sure(Idle, clients, subs) /\ Idle.pc = "none"
      BY DEF IInv, SureInv, Idle
    <3>2. QED
      BY <1>3, <1>12, <3>1 DEF Sure
  <2>2. QED
    BY <1>1, <1>5, <1>9, <1>10, <2>1 DEF SureInv
<1>15. QED
  BY <1>6, <1>7, <1>8, <1>13, <1>14 DEF IInv

LEMMA Stays ==
  ASSUME IInv
  PROVE  /\ inbounds \subseteq Inbounds /\ gone \subseteq Inbounds /\ clients \subseteq Client /\ subs \subseteq Sub
         /\ moves \in Nat /\ faults \in Nat /\ nextId \in Nat /\ overlapped \in BOOLEAN /\ parted \in BOOLEAN
         /\ \A c, d \in clients : c.id = d.id => c = d
         /\ \A s \in subs : s.token <= moves /\ s.token <= moves + 1 /\ s.allowed # {}
         /\ \A s, x \in subs : s.id = x.id => s = x
         /\ Narrows(subs, subs) /\ Cached
<1>1. moves \in Nat /\ \A s \in subs : s.token \in Int /\ s.token <= moves
  BY DEF IInv, Types, Dates, Sub
<1>2. QED
  BY <1>1 DEF IInv, Types, Distinct, Limits, Narrows, Cached

LEMMA ListUsersType ==
  ASSUME IInv
  PROVE  ListUsers \subseteq [email: Emails, ibs: SUBSET Inbounds, on: BOOLEAN]
<1>1. clients \subseteq Client /\ inbounds \subseteq Inbounds
  BY Stays
<1> DEFINE ibs(e) == {c.ib : c \in {d \in ClientsByEmail(e) : d.ib \in inbounds}}
           on(e) == \A c \in ClientsByEmail(e) : c.ib \in inbounds => c.on
<1>2. \A e : ibs(e) \in SUBSET Inbounds /\ on(e) \in BOOLEAN
  BY <1>1
<1>3. {c.email : c \in {d \in clients : d.ib \in inbounds}} \subseteq Emails
  BY <1>1 DEF Client
<1>4. ListUsers = {[email |-> e, ibs |-> ibs(e), on |-> on(e)] :
                     e \in {c.email : c \in {d \in clients : d.ib \in inbounds}}}
  BY DEF ListUsers
<1> HIDE DEF ibs, on
<1>5. QED
  BY <1>2, <1>3, <1>4

Dialog == [email: Emails \cup {Nobody}, members: SUBSET Inbounds, ready: BOOLEAN, on: BOOLEAN]

LEMMA RefetchKeeps == ASSUME IInv, NEW t \in Tabs, Refetch(t) PROVE IInv'
<1> DEFINE row  == {u \in ListUsers : u.email = edit[t].email}
           ready == row # {}
           members == IF edit[t].ready \/ row = {} THEN edit[t].members ELSE (CHOOSE u \in row : TRUE).ibs
           d == IF edit[t].email = Nobody THEN edit[t]
                ELSE [edit[t] EXCEPT !.ready = ready, !.members = members]
<1>0. edit \in [Tabs -> Dialog]
  BY Stays DEF Cached, Dialog
<1>1. /\ users' = [users EXCEPT ![t] = ListUsers] /\ edit' = [edit EXCEPT ![t] = d]
      /\ inbounds' = inbounds /\ clients' = clients /\ subs' = subs /\ nextId' = nextId /\ req' = req
      /\ bulk' = bulk /\ gone' = gone /\ overlapped' = overlapped /\ parted' = parted
      /\ moves' = moves /\ faults' = faults
  <2>1. edit' = IF edit[t].email = Nobody THEN edit
                ELSE [edit EXCEPT ![t].ready = ready, ![t].members = members]
    BY DEF Refetch
  <2>2. edit' = [edit EXCEPT ![t] = d]
    <3> HIDE DEF ready, members
    <3>1. CASE edit[t].email = Nobody
      BY <1>0, <2>1, <3>1
    <3>2. CASE edit[t].email # Nobody
      BY <1>0, <2>1, <3>2 DEF Dialog
    <3>3. QED
      BY <3>1, <3>2
  <2> HIDE DEF d
  <2>3. QED
    BY <2>2 DEF Refetch, db, past
<1>2. Cached /\ ListUsers \subseteq [email: Emails, ibs: SUBSET Inbounds, on: BOOLEAN]
  BY Stays, ListUsersType
<1>3. edit[t] \in Dialog /\ (edit[t] = Closed \/ edit[t].email \in Emails)
  BY <1>2 DEF Cached, Dialog
<1>4. members \in SUBSET Inbounds /\ ready \in BOOLEAN
  <2>1. edit[t].members \in SUBSET Inbounds
    BY <1>3 DEF Dialog
  <2>2. row # {} => (CHOOSE u \in row : TRUE).ibs \in SUBSET Inbounds
    BY <1>2
  <2>3. QED
    BY <2>1, <2>2
<1> HIDE DEF members, ready
<1>5. d \in Dialog /\ (d = Closed \/ d.email \in Emails)
  <2>1. CASE edit[t].email = Nobody
    BY <1>3, <2>1
  <2>2. CASE edit[t].email # Nobody
    <3>1. d = [edit[t] EXCEPT !.ready = ready, !.members = members]
      BY <2>2
    <3>2. edit[t].email \in Emails
      BY <1>3, <2>2 DEF Closed
    <3>3. QED
      BY <1>3, <1>4, <3>1, <3>2 DEF Dialog
  <2>3. QED
    BY <2>1, <2>2
<1> HIDE DEF d
<1>6. Cached'
  <2>1. users' \in [Tabs -> SUBSET [email: Emails, ibs: SUBSET Inbounds, on: BOOLEAN]]
    BY <1>1, <1>2 DEF Cached
  <2>2. edit' \in [Tabs -> Dialog] /\ \A u \in Tabs : edit'[u] = Closed \/ edit'[u].email \in Emails
    BY <1>1, <1>2, <1>5 DEF Cached, Dialog
  <2>3. QED
    BY <1>1, <1>2, <2>1, <2>2 DEF Cached, Dialog, Closed
<1>7. QED
  BY <1>1, <1>6, Stays, Beside

LEMMA OpenEditKeeps == ASSUME IInv, NEW t \in Tabs, OpenEdit(t) PROVE IInv'
<1>1. PICK u \in users[t] :
        edit' = [edit EXCEPT ![t] = [email |-> u.email, members |-> u.ibs, ready |-> TRUE, on |-> u.on]]
  BY DEF OpenEdit
<1>2. /\ inbounds' = inbounds /\ clients' = clients /\ subs' = subs /\ nextId' = nextId /\ req' = req
      /\ users' = users /\ bulk' = bulk /\ gone' = gone /\ overlapped' = overlapped /\ parted' = parted
      /\ moves' = moves + 1 /\ faults' = faults
  BY DEF OpenEdit, Move, db, past
<1>3. Cached /\ u \in [email: Emails, ibs: SUBSET Inbounds, on: BOOLEAN]
  BY Stays DEF Cached
<1> DEFINE d == [email |-> u.email, members |-> u.ibs, ready |-> TRUE, on |-> u.on]
<1>4. d \in Dialog /\ d.email \in Emails
  BY <1>3 DEF Dialog
<1> HIDE DEF d
<1>5. Cached'
  <2>1. edit' \in [Tabs -> Dialog] /\ \A v \in Tabs : edit'[v] = Closed \/ edit'[v].email \in Emails
    BY <1>1, <1>3, <1>4 DEF Cached, Dialog, d
  <2>2. QED
    BY <1>2, <1>3, <2>1 DEF Cached, Dialog, Closed
<1>6. QED
  BY <1>2, <1>5, Stays, Beside

LEMMA SubmitCreateKeeps == ASSUME IInv, NEW t \in Tabs, SubmitCreate(t) PROVE IInv'
<1>1. PICK e \in Emails, ids \in SUBSET (inbounds \ Single) :
        Ask(t, [Idle EXCEPT !.op = "create", !.pc = "list", !.email = e, !.ids = ids])
  BY DEF SubmitCreate
<1> DEFINE r == [Idle EXCEPT !.op = "create", !.pc = "list", !.email = e, !.ids = ids]
<1>2. r \in Req
  BY Idles, Stays DEF Req, Ops, Pcs
<1>3. /\ r.op = "create" /\ r.pc = "list" /\ r.email = e /\ r.made = {} /\ r.cur = {} /\ r.keep = {}
  BY DEF Idle
<1> HIDE DEF r
<1>4. Shape(r)
  BY <1>2, <1>3 DEF Shape
<1>5. Ask(t, r) /\ moves' = moves + 1 /\ edit' = edit
  BY <1>1 DEF SubmitCreate, Move, r
<1>6. QED
  BY <1>3, <1>4, <1>5, Asks

LEMMA SubmitEditKeeps == ASSUME IInv, NEW t \in Tabs, SubmitEdit(t) PROVE IInv'
<1>1. PICK e \in Emails, flip \in SUBSET (inbounds \ Single), on \in BOOLEAN :
        Ask(t, [Idle EXCEPT !.op = "update", !.pc = "clients", !.email = edit[t].email,
                   !.new = e, !.touch = edit[t].ready, !.on = on,
                   !.ids = (edit[t].members \ flip) \cup (flip \ edit[t].members)])
  BY DEF SubmitEdit
<1> DEFINE ids == (edit[t].members \ flip) \cup (flip \ edit[t].members)
           touch == edit[t].ready
           email == edit[t].email
           r == [Idle EXCEPT !.op = "update", !.pc = "clients", !.email = email,
                   !.new = e, !.touch = touch, !.on = on, !.ids = ids]
<1>2. edit[t] \in Dialog /\ edit[t].email \in Emails
  BY Stays DEF SubmitEdit, Cached, Dialog
<1>3. ids \in SUBSET Inbounds /\ touch \in BOOLEAN /\ email \in Emails
  BY <1>2, Stays DEF Dialog
<1>4. Ask(t, r)
  BY <1>1
<1> HIDE DEF ids, touch, email
<1>5. r \in Req
  BY <1>3, Idles DEF Req, Ops, Pcs
<1>6. /\ r.op = "update" /\ r.pc = "clients" /\ r.email = email /\ r.new = e
      /\ r.made = {} /\ r.cur = {} /\ r.keep = {}
  BY DEF Idle
<1> HIDE DEF r
<1>7. Shape(r)
  BY <1>3, <1>5, <1>6 DEF Shape
<1>8. moves' = moves + 1 /\ edit' = [edit EXCEPT ![t] = Closed]
  BY DEF SubmitEdit, Move
<1>9. QED
  BY <1>4, <1>6, <1>7, <1>8, Asks

LEMMA SubmitDeleteKeeps == ASSUME IInv, NEW t \in Tabs, SubmitDelete(t) PROVE IInv'
<1>1. PICK u \in users[t] : Ask(t, [Idle EXCEPT !.op = "delete", !.pc = "clients", !.email = u.email])
  BY DEF SubmitDelete
<1> DEFINE email == u.email
           r == [Idle EXCEPT !.op = "delete", !.pc = "clients", !.email = email]
<1>2. email \in Emails
  BY Stays DEF Cached
<1> HIDE DEF email
<1>3. r \in Req
  BY <1>2, Idles DEF Req, Ops, Pcs
<1>4. /\ r.op = "delete" /\ r.pc = "clients" /\ r.email = email /\ r.made = {} /\ r.cur = {} /\ r.keep = {}
  BY DEF Idle
<1>5. Ask(t, r) /\ moves' = moves + 1 /\ edit' = edit
  BY <1>1 DEF SubmitDelete, Move, email
<1> HIDE DEF r
<1>6. Shape(r)
  BY <1>2, <1>3, <1>4 DEF Shape
<1>7. QED
  BY <1>4, <1>5, <1>6, Asks

LEMMA SubmitAddKeeps == ASSUME IInv, NEW t \in Tabs, SubmitAdd(t) PROVE IInv'
<1>1. PICK ib \in inbounds : \E picked \in SUBSET Candidates(t, ib) :
        Ask(t, [Idle EXCEPT !.op = "add", !.pc = "inbound", !.into = ib, !.rest = picked])
  BY DEF SubmitAdd
<1>2. PICK picked \in SUBSET Candidates(t, ib) :
        Ask(t, [Idle EXCEPT !.op = "add", !.pc = "inbound", !.into = ib, !.rest = picked])
  BY <1>1
<1> DEFINE r == [Idle EXCEPT !.op = "add", !.pc = "inbound", !.into = ib, !.rest = picked]
<1>3. picked \subseteq Emails /\ ib \in Inbounds /\ ib \in Nat
  <2>1. ib \in Inbounds
    BY Stays
  <2>2. \A u \in users[t] : u.email \in Emails
    BY Stays DEF Cached
  <2>3. Candidates(t, ib) \subseteq Emails
    BY <2>2 DEF Candidates
  <2>4. QED
    BY <2>1, <2>3, MembersAssumption
<1>4. r \in Req
  BY <1>3, Idles DEF Req, Ops, Pcs
<1>5. /\ r.op = "add" /\ r.pc = "inbound" /\ r.into = ib /\ r.made = {} /\ r.cur = {} /\ r.keep = {}
  BY DEF Idle
<1> HIDE DEF r
<1>6. Shape(r)
  BY <1>3, <1>4, <1>5 DEF Shape
<1>7. Ask(t, r) /\ moves' = moves + 1 /\ edit' = edit
  BY <1>2 DEF SubmitAdd, Move, r
<1>8. QED
  BY <1>5, <1>6, <1>7, Asks

LEMMA Alone ==
  ASSUME IInv, ~Busy
  PROVE  /\ ~overlapped => Lone(Idle, clients, inbounds)
         /\ ~overlapped /\ ~parted /\ faults = 0 => Sure(Idle, clients, subs)
         /\ Idle.pc = "none"
BY DEF IInv, LoneInv, SureInv, Idle

\* Rows that are taken while no request is in flight, and are no bundle's seed.
LEMMA Taken ==
  ASSUME NEW cs, NEW gs, NEW ins, NEW ss, gs \subseteq cs
  PROVE  /\ Lone(Idle, cs, ins) => Lone(Idle, gs, ins)
         /\ Sure(Idle, cs, ss) /\ (\A s \in ss, c \in cs : c.id = s.seed => c \in gs) => Sure(Idle, gs, ss)
<1>1. Idle.pc = "none"
  BY DEF Idle
<1>2. QED
  BY <1>1 DEF Lone, Sure

LEMMA DeleteInboundKeeps == ASSUME IInv, NEW ib \in Inbounds, DeleteInbound(ib) PROVE IInv'
<1> DEFINE rows == {c \in clients : c.ib = ib}
<1>1. /\ inbounds' = inbounds \ {ib} /\ gone' = gone \cup {ib}
      /\ clients' = {c \in clients : c.ib # ib} /\ clients' \subseteq clients
      /\ subs' = scrubInboundFromSubscriptions(ib)
      /\ overlapped' = (overlapped \/ Busy)
      /\ parted' = (parted \/ \E s \in subs : s.seed \in {c.id : c \in rows})
      /\ nextId' = nextId /\ bulk' = bulk /\ moves' = moves + 1 /\ faults' = faults
      /\ req' = req /\ users' = users /\ edit' = edit
  BY DEF DeleteInbound, Elsewhere, Move, Parts
<1>2. Cached'
  BY <1>1, Stays DEF Cached, Closed
<1> DEFINE new(s) == IF s.allowed \ {ib} = {} THEN s ELSE [s EXCEPT !.allowed = @ \ {ib}]
<1>3. \A s \in subs : /\ new(s) \in Sub /\ new(s).id = s.id /\ new(s).seed = s.seed /\ new(s).who = s.who
                      /\ new(s).token = s.token /\ new(s).allowed # {}
  <2>1. ASSUME NEW s \in subs
        PROVE  /\ new(s) \in Sub /\ new(s).id = s.id /\ new(s).seed = s.seed /\ new(s).who = s.who
               /\ new(s).token = s.token /\ new(s).allowed # {}
    <3>1. s \in Sub /\ s.allowed # {}
      BY Stays
    <3>2. QED
      BY <3>1 DEF Sub
  <2>2. QED
    BY <2>1
<1>4. subs' = {new(s) : s \in subs}
  BY <1>1 DEF scrubInboundFromSubscriptions
<1> HIDE DEF new
<1>5. /\ subs' \subseteq Sub /\ Narrows(subs, subs')
      /\ \A s \in subs' : s.token <= moves' /\ s.allowed # {}
      /\ \A s, x \in subs' : s.id = x.id => s = x
  BY <1>1, <1>3, <1>4, Stays DEF Narrows
<1>6. ~overlapped' => ~Busy /\ Lone(Idle, clients', inbounds')
  <2> SUFFICES ASSUME ~overlapped' PROVE ~Busy /\ Lone(Idle, clients', inbounds')
    OBVIOUS
  <2>1. ~Busy /\ Lone(Idle, clients, inbounds) /\ Idle.pc = "none"
    BY <1>1, Alone
  <2>2. \A c \in clients' : c \in clients /\ c.ib # ib
    BY <1>1
  <2>3. QED
    BY <1>1, <2>1, <2>2 DEF Lone
<1>7. ~overlapped' /\ ~parted' /\ faults' = 0 => ~Busy /\ Sure(Idle, clients', subs)
  <2> SUFFICES ASSUME ~overlapped', ~parted', faults' = 0 PROVE ~Busy /\ Sure(Idle, clients', subs)
    OBVIOUS
  <2>1. ~Busy /\ Sure(Idle, clients, subs)
    BY <1>1, Alone
  <2>2. \A s \in subs, d \in clients : d.id = s.seed => d \in clients'
    BY <1>1
  <2>3. QED
    BY <1>1, <2>1, <2>2, Taken
<1>8. /\ overlapped' \in BOOLEAN /\ parted' \in BOOLEAN /\ (overlapped => overlapped') /\ (parted => parted')
      /\ inbounds' \subseteq Inbounds /\ gone' \subseteq Inbounds /\ clients' \subseteq Client
  BY <1>1, Stays DEF Busy
<1>9. /\ \A c \in clients' : \E d \in clients : c.id = d.id /\ c.who = d.who
      /\ \A c, d \in clients' : c.id = d.id => c = d
  BY <1>1, Stays
<1>10. QED
  BY <1>1, <1>2, <1>5, <1>6, <1>7, <1>8, <1>9, Beside

LEMMA CreateInboundKeeps == ASSUME IInv, NEW ib \in Inbounds, CreateInbound(ib) PROVE IInv'
<1>1. /\ inbounds' = inbounds \cup {ib} /\ inbounds \subseteq inbounds'
      /\ clients' = clients /\ subs' = subs /\ nextId' = nextId /\ bulk' = bulk
      /\ gone' = gone /\ overlapped' = overlapped /\ parted' = parted
      /\ moves' = moves + 1 /\ faults' = faults /\ req' = req /\ users' = users /\ edit' = edit
  BY DEF CreateInbound, Elsewhere, Move, past
<1>2. Cached' /\ inbounds' \subseteq Inbounds
  BY <1>1, Stays DEF Cached, Closed
<1>3. QED
  BY <1>1, <1>2, Stays, Beside

LEMMA DeleteClientKeeps == ASSUME IInv, NEW c \in clients, DeleteClient(c) PROVE IInv'
<1>1. /\ clients' = {d \in clients : d.id # c.id} /\ clients' \subseteq clients
      /\ overlapped' = (overlapped \/ Busy)
      /\ parted' = (parted \/ \E s \in subs : s.seed \in {d.id : d \in {c}})
      /\ inbounds' = inbounds /\ subs' = subs /\ gone' = gone
      /\ nextId' = nextId /\ bulk' = bulk /\ moves' = moves + 1 /\ faults' = faults
      /\ req' = req /\ users' = users /\ edit' = edit
  BY DEF DeleteClient, Elsewhere, Move, Parts
<1>2. Cached'
  BY <1>1, Stays DEF Cached, Closed
<1>3. ~overlapped' => ~Busy /\ Lone(Idle, clients', inbounds')
  BY <1>1, Alone, Taken
<1>4. ~overlapped' /\ ~parted' /\ faults' = 0 => ~Busy /\ Sure(Idle, clients', subs)
  <2> SUFFICES ASSUME ~overlapped', ~parted', faults' = 0 PROVE ~Busy /\ Sure(Idle, clients', subs)
    OBVIOUS
  <2>1. ~Busy /\ Sure(Idle, clients, subs)
    BY <1>1, Alone
  <2>2. \A s \in subs, d \in clients : d.id = s.seed => d \in clients'
    BY <1>1
  <2>3. QED
    BY <1>1, <2>1, <2>2, Taken
<1>5. /\ overlapped' \in BOOLEAN /\ parted' \in BOOLEAN /\ (overlapped => overlapped') /\ (parted => parted')
      /\ inbounds' \subseteq Inbounds /\ gone' \subseteq Inbounds /\ clients' \subseteq Client
  BY <1>1, Stays DEF Busy
<1>6. /\ \A d \in clients' : \E e \in clients : d.id = e.id /\ d.who = e.who
      /\ \A d, e \in clients' : d.id = e.id => d = e
  BY <1>1, Stays
<1>7. Narrows(subs, subs') /\ \A s \in subs' : s.token <= moves' /\ s.allowed # {}
  BY <1>1, Stays
<1>8. QED
  BY <1>1, <1>2, <1>3, <1>4, <1>5, <1>6, <1>7, Stays, Beside

LEMMA EnforceKeeps == ASSUME IInv, NEW e \in Emails, Enforce(e) PROVE IInv'
<1> DEFINE off(c) == IF c.email = e THEN [c EXCEPT !.on = FALSE] ELSE c
<1>1. /\ clients' = {off(c) : c \in clients}
      /\ overlapped' = (overlapped \/ Busy) /\ parted' = parted
      /\ inbounds' = inbounds /\ subs' = subs /\ gone' = gone
      /\ nextId' = nextId /\ bulk' = bulk /\ moves' = moves + 1 /\ faults' = faults
      /\ req' = req /\ users' = users /\ edit' = edit
  BY Stays DEF Enforce, Elsewhere, Move, Parts
<1>2. Cached'
  BY <1>1, Stays DEF Cached, Closed
<1>3. \A c \in clients : /\ off(c) \in Client /\ off(c).id = c.id /\ off(c).ib = c.ib
                         /\ off(c).email = c.email /\ off(c).who = c.who
  BY Stays DEF Client
<1> HIDE DEF off
<1>4. \A c, d \in clients : c.id = d.id => c = d
  BY Stays
<1>5. ~overlapped' => ~Busy /\ Lone(Idle, clients', inbounds')
  <2> SUFFICES ASSUME ~overlapped' PROVE ~Busy /\ Lone(Idle, clients', inbounds')
    OBVIOUS
  <2>1. ~Busy /\ Lone(Idle, clients, inbounds) /\ Idle.pc = "none"
    BY <1>1, Alone
  <2>2. \A c \in clients' : c.ib \in inbounds
    BY <1>1, <1>3, <2>1 DEF Lone
  <2>3. \A c, d \in clients' : c.email = d.email /\ c.ib = d.ib => c = d
    BY <1>1, <1>3, <2>1 DEF Lone
  <2>4. \A c, d \in clients' : c.email = d.email => c.who = d.who
    BY <1>1, <1>3, <2>1 DEF Lone
  <2>5. QED
    BY <1>1, <2>1, <2>2, <2>3, <2>4 DEF Lone
<1>6. ~overlapped' /\ ~parted' /\ faults' = 0 => ~Busy /\ Sure(Idle, clients', subs)
  <2> SUFFICES ASSUME ~overlapped', ~parted', faults' = 0 PROVE ~Busy /\ Sure(Idle, clients', subs)
    OBVIOUS
  <2>1. ~Busy /\ Sure(Idle, clients, subs) /\ Idle.pc = "none"
    BY <1>1, Alone
  <2>2. \A s \in subs, c \in clients' : c.id = s.seed => c.who = s.who
    BY <1>1, <1>3, <2>1 DEF Sure
  <2>3. \A c, d \in clients' : c.who = d.who => c.email = d.email
    BY <1>1, <1>3, <2>1 DEF Sure
  <2>4. \A s \in subs, c \in clients' : c.who = s.who => \E d \in clients' : d.id = s.seed
    BY <1>1, <1>3, <2>1 DEF Sure
  <2>5. QED
    BY <2>1, <2>2, <2>3, <2>4 DEF Sure
<1>7. /\ overlapped' \in BOOLEAN /\ parted' \in BOOLEAN /\ (overlapped => overlapped') /\ (parted => parted')
      /\ inbounds' \subseteq Inbounds /\ gone' \subseteq Inbounds /\ clients' \subseteq Client
  BY <1>1, <1>3, Stays DEF Busy
<1>8. /\ \A d \in clients' : \E c \in clients : d.id = c.id /\ d.who = c.who
      /\ \A c, d \in clients' : c.id = d.id => c = d
  BY <1>1, <1>3, <1>4
<1>9. Narrows(subs, subs') /\ \A s \in subs' : s.token <= moves' /\ s.allowed # {}
  BY <1>1, Stays
<1>10. QED
  BY <1>1, <1>2, <1>5, <1>6, <1>7, <1>8, <1>9, Stays, Beside

\* One bundle is written, or goes away.
LEMMA ChangeSubKeeps ==
  ASSUME IInv, NEW s \in subs, NEW next, ChangeSub(s, next),
         next \subseteq Sub,
         \A x, y \in next : x = y,
         \A x \in next : x.id = s.id /\ x.seed = s.seed /\ x.who = s.who /\ x.allowed = s.allowed
                         /\ (x.token = s.token \/ x.token = moves + 1)
  PROVE  IInv'
<1>1. /\ subs' = (subs \ {s}) \cup next
      /\ inbounds' = inbounds /\ clients' = clients /\ nextId' = nextId /\ bulk' = bulk
      /\ gone' = gone /\ overlapped' = overlapped /\ parted' = parted
      /\ moves' = moves + 1 /\ faults' = faults /\ req' = req /\ users' = users /\ edit' = edit
  BY DEF ChangeSub, Elsewhere, Move, past
<1>2. Cached'
  BY <1>1, Stays DEF Cached, Closed
<1>3. /\ subs' \subseteq Sub /\ Narrows(subs, subs')
      /\ \A x \in subs' : x.token <= moves' /\ x.allowed # {}
      /\ \A x, y \in subs' : x.id = y.id => x = y
  <2>1. subs' \subseteq Sub /\ Narrows(subs, subs')
    BY <1>1, Stays DEF Narrows
  <2>2. \A x \in subs' : x.token <= moves' /\ x.allowed # {}
    BY <1>1, Stays
  <2>3. \A x, y \in subs' : x.id = y.id => x = y
    BY <1>1, Stays
  <2>4. QED
    BY <2>1, <2>2, <2>3
<1>4. QED
  BY <1>1, <1>2, <1>3, Stays, Beside

LEMMA SubscriptionsPageKeeps == ASSUME IInv, SubscriptionsPage PROVE IInv'
<1>1. CASE RunBulk
  <2>1. PICK ids \in SUBSET {s.id : s \in subs} :
          bulk' = [busy |-> TRUE, ids |-> ids, todo |-> ids, failed |-> 0]
    BY <1>1 DEF RunBulk
  <2>2. /\ inbounds' = inbounds /\ clients' = clients /\ subs' = subs /\ nextId' = nextId /\ req' = req
        /\ users' = users /\ edit' = edit /\ gone' = gone /\ overlapped' = overlapped /\ parted' = parted
        /\ moves' = moves + 1 /\ faults' = faults
    BY <1>1 DEF RunBulk, Move, db, past
  <2>3. ids \subseteq Nat
    BY Stays DEF Sub
  <2>4. Cached'
    BY <2>1, <2>2, <2>3, Stays DEF Cached, Closed
  <2>5. QED
    BY <2>2, <2>4, Stays, Beside
<1>2. ASSUME NEW s \in subs, RevokeSubscription(s) PROVE IInv'
  <2>1. s \in Sub
    BY Stays
  <2> DEFINE x == [s EXCEPT !.revoked = TRUE]
  <2>2. x \in Sub /\ x.id = s.id /\ x.seed = s.seed /\ x.who = s.who /\ x.allowed = s.allowed /\ x.token = s.token
    BY <2>1 DEF Sub
  <2>3. ChangeSub(s, {x})
    BY <1>2 DEF RevokeSubscription
  <2> HIDE DEF x
  <2>4. QED
    BY <2>2, <2>3, ChangeSubKeeps
<1>3. ASSUME NEW s \in subs, RotateSubscription(s) PROVE IInv'
  <2>1. s \in Sub /\ moves \in Nat
    BY Stays
  <2> DEFINE x == [s EXCEPT !.revoked = FALSE, !.token = moves + 1]
  <2>t. moves + 1 \in Int
    BY <2>1
  <2>2. x \in Sub /\ x.id = s.id /\ x.seed = s.seed /\ x.who = s.who /\ x.allowed = s.allowed /\ x.token = moves + 1
    <3> DEFINE m == moves + 1
    <3> HIDE DEF m
    <3>1. [s EXCEPT !.revoked = FALSE, !.token = m] \in Sub
      BY <2>1, <2>t DEF Sub, m
    <3>2. x.id = s.id /\ x.seed = s.seed /\ x.who = s.who /\ x.allowed = s.allowed /\ x.token = moves + 1
      BY <2>1 DEF Sub
    <3>3. QED
      BY <3>1, <3>2 DEF m
  <2>3. ChangeSub(s, {x})
    BY <1>3 DEF RotateSubscription
  <2> HIDE DEF x
  <2>4. QED
    BY <2>2, <2>3, ChangeSubKeeps
<1>4. ASSUME NEW s \in subs, DeleteSubscription(s) PROVE IInv'
  BY <1>4, ChangeSubKeeps DEF DeleteSubscription
<1>5. QED
  BY <1>1, <1>2, <1>3, <1>4 DEF SubscriptionsPage

LEMMA BulkNextKeeps == ASSUME IInv, BulkNext PROVE IInv'
<1>1. /\ inbounds' = inbounds /\ clients' = clients /\ nextId' = nextId /\ req' = req
      /\ users' = users /\ edit' = edit /\ gone' = gone /\ overlapped' = overlapped /\ parted' = parted
      /\ moves' = moves
  BY DEF BulkNext, past
<1>2. /\ subs' \subseteq subs
      /\ faults' = faults \/ faults' = faults + 1
      /\ bulk' \in [busy: BOOLEAN, ids: SUBSET Nat, todo: SUBSET Nat, failed: Nat]
  <2>1. bulk \in [busy: BOOLEAN, ids: SUBSET Nat, todo: SUBSET Nat, failed: Nat]
    BY Stays DEF Cached
  <2>2. CASE bulk.todo = {}
    BY <2>1, <2>2 DEF BulkNext
  <2>3. CASE bulk.todo # {}
    <3>1. PICK id \in bulk.todo :
       \/ /\ subs' = {s \in subs : s.id # id} /\ UNCHANGED faults
          /\ bulk' = [bulk EXCEPT !.todo = @ \ {id}]
       \/ /\ Fault /\ UNCHANGED subs
          /\ bulk' = [bulk EXCEPT !.todo = @ \ {id}, !.failed = @ + 1]
      BY <2>3 DEF BulkNext
    <3>2. bulk.todo \ {id} \in SUBSET Nat /\ bulk.failed + 1 \in Nat
      BY <2>1
    <3>3. /\ [bulk EXCEPT !.todo = @ \ {id}] \in [busy: BOOLEAN, ids: SUBSET Nat, todo: SUBSET Nat, failed: Nat]
          /\ [bulk EXCEPT !.todo = @ \ {id}, !.failed = @ + 1]
               \in [busy: BOOLEAN, ids: SUBSET Nat, todo: SUBSET Nat, failed: Nat]
      BY <2>1, <3>2
    <3>4. QED
      BY <3>1, <3>3 DEF Fault
  <2>4. QED
    BY <2>2, <2>3
<1>3. Cached'
  BY <1>1, <1>2, Stays DEF Cached, Closed
<1>4. /\ subs' \subseteq Sub /\ Narrows(subs, subs')
      /\ \A x \in subs' : x.token <= moves' /\ x.allowed # {}
      /\ \A x, y \in subs' : x.id = y.id => x = y
  BY <1>1, <1>2, Stays DEF Narrows
<1>5. QED
  BY <1>1, <1>2, <1>3, <1>4, Stays, Beside

LEMMA NextKeeps == ASSUME IInv, Next PROVE IInv'
<1>1. ASSUME NEW t \in Tabs, Refetch(t) \/ MultiUserPanel(t) \/ SubmitAdd(t) \/ Serve(t) PROVE IInv'
  BY <1>1, RefetchKeeps, OpenEditKeeps, SubmitCreateKeeps, SubmitEditKeeps, SubmitDeleteKeeps,
     SubmitAddKeeps, ServeKeeps DEF MultiUserPanel
<1>2. ASSUME NEW ib \in Inbounds, DeleteInbound(ib) \/ CreateInbound(ib) PROVE IInv'
  BY <1>2, DeleteInboundKeeps, CreateInboundKeeps
<1>3. ASSUME NEW c \in clients, DeleteClient(c) PROVE IInv'
  BY <1>3, DeleteClientKeeps
<1>4. ASSUME NEW e \in Emails, Enforce(e) PROVE IInv'
  BY <1>4, EnforceKeeps
<1>5. QED
  BY <1>1, <1>2, <1>3, <1>4, SubscriptionsPageKeeps, BulkNextKeeps DEF Next

LEMMA InitHolds == ASSUME Init PROVE IInv
<1> DEFINE mine(e) == {c \in Rows : c.email = e}
           least(e) == Min({c.id : c \in mine(e)})
           ibs(e)   == {c.ib : c \in mine(e)}
           who(e)   == (CHOOSE c \in mine(e) : TRUE).who
           known    == {c.email : c \in Rows}
           sub(e)   == Bundle(least(e), ibs(e), 0, who(e))
<1>1. /\ inbounds = First /\ gone = {} /\ clients = Rows /\ subs = {sub(e) : e \in known}
      /\ nextId = Max({c.id : c \in Rows}) + 1
      /\ req = [t \in Tabs |-> Idle] /\ users = [t \in Tabs |-> {}]
      /\ edit = [t \in Tabs |-> Closed] /\ bulk = NoBulk
      /\ overlapped = FALSE /\ parted = FALSE /\ moves = 0 /\ faults = 0
  BY DEF Init
<1>2. /\ First \subseteq Inbounds /\ Rows # {} /\ IsFiniteSet(Rows)
      /\ \A c \in Rows : /\ c \in Client /\ c.id \in Nat /\ c.ib \in First /\ c.email \in Emails
                         /\ c.who \in Int /\ c.who <= 0
      /\ \A c, d \in Rows : /\ c.id = d.id => c = d
                            /\ c.email = d.email /\ c.ib = d.ib => c = d
                            /\ c.email = d.email <=> c.who = d.who
  BY MembersAssumption DEF Client
<1>3. nextId \in Nat /\ \A c \in Rows : c.id < nextId
  <2> DEFINE ids == {c.id : c \in Rows}
  <2>1. ids \in SUBSET Nat /\ ids # {}
    BY <1>2
  <2>2. IsFiniteSet(ids)
    <3> DEFINE f == [c \in Rows |-> c.id]
    <3>1. f \in [Rows -> ids] /\ \A i \in ids : \E c \in Rows : f[c] = i
      OBVIOUS
    <3>2. f \in Surjection(Rows, ids)
      BY <3>1 DEF Surjection
    <3>3. QED
      BY <1>2, <3>2, FS_Surjection
  <2>3. Max(ids) \in ids /\ \A y \in ids : Max(ids) >= y
    BY <2>1, <2>2, MaxOfFinite
  <2>4. nextId = Max(ids) + 1 /\ Max(ids) \in Nat
    BY <1>1, <2>1, <2>3
  <2> DEFINE M == Max(ids)
  <2> HIDE DEF M
  <2>5. M \in Nat /\ nextId = M + 1 /\ \A c \in Rows : c.id <= M /\ c.id \in Nat
    BY <1>2, <2>3, <2>4 DEF M
  <2>6. QED
    BY <2>5
<1>4. \A e \in known : \E c \in Rows : c.email = e /\ c.id = least(e) /\ c.who = who(e)
  <2>1. ASSUME NEW e \in known PROVE \E c \in Rows : c.email = e /\ c.id = least(e) /\ c.who = who(e)
    <3>1. mine(e) # {} /\ {c.id : c \in mine(e)} \in SUBSET Nat /\ {c.id : c \in mine(e)} # {}
      BY <1>2
    <3>2. least(e) \in {c.id : c \in mine(e)}
      BY <3>1, MinOfNat
    <3>3. PICK c \in mine(e) : c.id = least(e)
      BY <3>2
    <3>4. PICK d \in mine(e) : who(e) = d.who
      BY <3>1
    <3> HIDE DEF least, who
    <3>5. c.who = d.who
      BY <1>2
    <3>6. QED
      BY <3>3, <3>4, <3>5
  <2>2. QED
    BY <2>1
<1>5. \A e \in known : ibs(e) \in SUBSET Inbounds /\ ibs(e) # {}
  BY <1>2
<1> HIDE DEF least, ibs, who
<1>6. \A e \in known : /\ sub(e) \in Sub /\ sub(e).id = least(e) /\ sub(e).seed = least(e) /\ sub(e).who = who(e)
                       /\ sub(e).token = 0 /\ sub(e).allowed # {}
  <2>1. \A e \in known : least(e) \in Nat /\ who(e) \in Int
    BY <1>2, <1>4
  <2>2. QED
    BY <1>5, <2>1 DEF Bundle, Sub
<1> HIDE DEF sub
<1>7. \A e, f \in known : least(e) = least(f) => e = f
  BY <1>2, <1>4
<1> HIDE DEF known
<1>8. Shape(Idle) /\ Settled(Idle) /\ (\A ss, n : \A m \in Nat : Dated(Idle, ss, n, m))
      /\ Idle.pc = "none" /\ Idle.made = {}
  BY Idles DEF Idle
<1>9. subs \subseteq Sub /\ clients \subseteq Client
  BY <1>1, <1>2, <1>6
<1>10. Types
  <2>1. edit \in [Tabs -> [email: Emails \cup {Nobody}, members: SUBSET Inbounds, ready: BOOLEAN, on: BOOLEAN]]
        /\ \A t \in Tabs : edit[t] = Closed
    BY <1>1 DEF Closed
  <2>2. bulk \in [busy: BOOLEAN, ids: SUBSET Nat, todo: SUBSET Nat, failed: Nat]
    BY <1>1 DEF NoBulk
  <2>3. QED
    BY <1>1, <1>2, <1>3, <1>8, <1>9, <2>1, <2>2 DEF Types
<1>11. Dates
  <2>1. \A c \in clients : c.id < nextId /\ c.who <= moves
    BY <1>1, <1>2, <1>3
  <2>2. \A s \in subs : s.id < nextId /\ s.seed < nextId /\ s.who <= moves /\ s.token <= moves
    BY <1>1, <1>2, <1>3, <1>4, <1>6
  <2>3. QED
    BY <1>1, <1>8, <2>1, <2>2 DEF Dates
<1>12. Distinct /\ Limits /\ AllSettled
  <2>1. \A s, x \in subs : s.id = x.id => s = x
    BY <1>1, <1>6, <1>7
  <2>2. QED
    BY <1>1, <1>2, <1>6, <1>8, <2>1 DEF Distinct, Limits, AllSettled
<1>13. ~Busy /\ \A t \in Tabs : req[t] = Idle
  BY <1>1 DEF Busy
<1>14. LoneInv
  BY <1>1, <1>2, <1>8, <1>13 DEF LoneInv, OneRequest, Lone
<1>15. Sure(Idle, clients, subs)
  <2>1. \A s \in subs, c \in clients : c.id = s.seed => c.who = s.who
    BY <1>1, <1>2, <1>4, <1>6
  <2>2. \A s \in subs : \E d \in clients : d.id = s.seed
    BY <1>1, <1>4, <1>6
  <2>3. \A c, d \in clients : c.who = d.who => c.email = d.email
    BY <1>1, <1>2
  <2>4. QED
    BY <1>8, <2>1, <2>2, <2>3 DEF Sure
<1>16. QED
  BY <1>10, <1>11, <1>12, <1>13, <1>14, <1>15 DEF IInv, SureInv

LEMMA StutterKeeps == ASSUME IInv, UNCHANGED vars PROVE IInv'
<1>1. /\ inbounds' = inbounds /\ clients' = clients /\ subs' = subs /\ nextId' = nextId /\ req' = req
      /\ users' = users /\ edit' = edit /\ bulk' = bulk /\ gone' = gone /\ overlapped' = overlapped
      /\ parted' = parted /\ moves' = moves /\ faults' = faults
  BY DEF vars, db, past
<1>2. Cached'
  BY <1>1, Stays DEF Cached, Closed
<1>3. QED
  BY <1>1, <1>2, Stays, Beside

LEMMA Invariance == Spec => []IInv
<1>1. IInv /\ [Next]_vars => IInv'
  BY NextKeeps, StutterKeeps
<1>2. QED
  BY InitHolds, <1>1, PTL DEF Spec

\* Every field keeps its type, and a request keeps what its next statement needs.
THEOREM MembersTypes == Spec => []Types
<1>1. IInv => Types
  BY DEF IInv
<1>2. QED
  BY Invariance, <1>1, PTL

\* A user is on an inbound once and on inbounds that exist, when no two requests
\* have overlapped: even if statements of them failed.
THEOREM GhostsNever == Spec => []NoGhosts
<1>1. IInv => NoGhosts
  BY DEF IInv, LoneInv, Lone, NoGhosts, Calm
<1>2. QED
  BY Invariance, <1>1, PTL

\* The bundle of a user with rows keeps a seed: reconcile re-points it.
THEOREM SeedsStand == Spec => []SeedStands
<1>1. IInv => SeedStands
  <2> SUFFICES ASSUME IInv, Calm, ~parted, NEW s \in subs, s.who \in {c.who : c \in clients}
               PROVE  Seed(s) # {}
    BY DEF SeedStands
  <2>1. Sure(Idle, clients, subs) /\ Idle.pc = "none"
    BY Alone DEF Calm
  <2>2. \E d \in clients : d.id = s.seed
    BY <2>1 DEF Sure
  <2>3. QED
    BY <2>2 DEF Seed
<1>2. QED
  BY Invariance, <1>1, PTL

\* No list of allowed inbounds is ever emptied, in which case it would allow all.
THEOREM OpensNever == Spec => NeverOpens
<1>1. IInv' => (\A s \in subs, x \in subs' : s.id = x.id /\ s.allowed # {} => x.allowed # {})
  BY DEF IInv, Limits
<1>2. QED
  BY Invariance, <1>1, PTL DEF NeverOpens

RevokedStep == \A s \in subs, x \in subs' : s.id = x.id /\ s.token = x.token /\ s.revoked => x.revoked

\* Reading, deleting and failing write no bundle.
LEMMA FewerSubs == ASSUME IInv, subs' \subseteq subs PROVE RevokedStep
BY DEF IInv, Distinct, RevokedStep

LEMMA ServeRevokes == ASSUME IInv, NEW t \in Tabs, Serve(t) PROVE RevokedStep
<1>1. CASE CreateSub(t)
  <2> DEFINE ids == {m[1] : m \in req[t].made}
             sub == Bundle(Min(ids), {m[2] : m \in req[t].made}, req[t].who, req[t].who)
  <2>1. subs' = subs \cup {sub} /\ sub.id = Min(ids)
    BY <1>1 DEF CreateSub, Bundle
  <2>2. Shape(req[t]) /\ req[t].pc = "sub" /\ Dated(req[t], subs, nextId, moves)
    BY <1>1, Found DEF CreateSub
  <2>3. ids \in SUBSET Nat /\ ids # {}
    BY <2>2 DEF Shape, Req
  <2>4. Min(ids) \in ids
    BY <2>3, MinOfNat
  <2>5. \A s \in subs : s.id # sub.id
    BY <2>1, <2>2, <2>4 DEF Dated
  <2> HIDE DEF sub
  <2>6. QED
    BY <2>1, <2>5 DEF IInv, Distinct, RevokedStep
<1>2. CASE Rescope(t)
  <2>1. PICK z \in req[t].scope :
          \/ subs' = {IF x.id = z.id THEN UpdateSubscriptionScope(req[t], z, x) ELSE x : x \in subs}
          \/ UNCHANGED subs
    BY <1>2 DEF Rescope
  <2>2. Shape(req[t]) /\ req[t].pc = "scope" /\ z \in Sub /\ req[t].scope # {}
    BY <1>2, Found DEF Rescope, Shape, Req
  <2> DEFINE new(x) == IF x.id = z.id THEN UpdateSubscriptionScope(req[t], z, x) ELSE x
  <2>3. \A x \in subs : new(x).id = x.id /\ new(x).revoked = x.revoked
    BY <2>2, Stays, SeedsAgain
  <2>4. subs' = {new(x) : x \in subs} \/ subs' = subs
    BY <2>1
  <2> HIDE DEF new
  <2>5. CASE subs' = {new(x) : x \in subs}
    BY <2>3, <2>5 DEF IInv, Distinct, RevokedStep
  <2>6. QED
    BY <2>4, <2>5, FewerSubs
<1>3. CASE ~CreateSub(t) /\ ~Rescope(t)
  <2>1. subs' \subseteq subs
    BY <1>3 DEF Serve, CreateChecks, CountClient, InsertClient, ReadClients, UpdateCollides, SaveClient,
       ReconcileReads, RemoveClient, Survivors, AddReads, AddNext, DeleteLists, DeleteSubs, DeleteRows,
       Fail, Read, db
  <2>2. QED
    BY <2>1, FewerSubs
<1>4. QED
  BY <1>1, <1>2, <1>3

LEMMA NextRevokes == ASSUME IInv, Next PROVE RevokedStep
<1>1. ASSUME NEW t \in Tabs, Refetch(t) \/ MultiUserPanel(t) \/ SubmitAdd(t) \/ Serve(t) PROVE RevokedStep
  <2>1. CASE Serve(t)
    BY <2>1, ServeRevokes
  <2>2. CASE Refetch(t) \/ MultiUserPanel(t) \/ SubmitAdd(t)
    <3>1. subs' = subs
      BY <2>2 DEF Refetch, MultiUserPanel, OpenEdit, SubmitCreate, SubmitEdit, SubmitDelete, SubmitAdd, Ask, db
    <3>2. QED
      BY <3>1, FewerSubs
  <2>3. QED
    BY <1>1, <2>1, <2>2
<1>2. ASSUME NEW ib \in Inbounds, DeleteInbound(ib) PROVE RevokedStep
  <2> DEFINE new(s) == IF s.allowed \ {ib} = {} THEN s ELSE [s EXCEPT !.allowed = @ \ {ib}]
  <2>1. subs' = {new(s) : s \in subs}
    BY <1>2 DEF DeleteInbound, scrubInboundFromSubscriptions
  <2>2. \A s \in subs : new(s).id = s.id /\ new(s).revoked = s.revoked
    BY Stays DEF Sub
  <2> HIDE DEF new
  <2>3. QED
    BY <2>1, <2>2 DEF IInv, Distinct, RevokedStep
<1>3. ASSUME NEW s \in subs, RevokeSubscription(s) PROVE RevokedStep
  <2>1. s \in Sub
    BY Stays
  <2>2. subs' = (subs \ {s}) \cup {[s EXCEPT !.revoked = TRUE]} /\ [s EXCEPT !.revoked = TRUE].revoked
    BY <1>3, <2>1 DEF RevokeSubscription, ChangeSub, Sub
  <2>3. QED
    BY <2>2 DEF IInv, Distinct, RevokedStep
<1>4. ASSUME NEW s \in subs, RotateSubscription(s) PROVE RevokedStep
  <2>1. s \in Sub /\ moves \in Nat
    BY Stays
  <2> DEFINE x == [s EXCEPT !.revoked = FALSE, !.token = moves + 1]
  <2>2. subs' = (subs \ {s}) \cup {x} /\ x.token = moves + 1
    BY <1>4, <2>1 DEF RotateSubscription, ChangeSub, Sub
  <2>3. \A y \in subs : y.token # moves + 1
    BY <2>1, Stays DEF Sub
  <2> HIDE DEF x
  <2>4. QED
    BY <2>2, <2>3 DEF IInv, Distinct, RevokedStep
<1>5. ASSUME RunBulk \/ BulkNext PROVE RevokedStep
  <2>1. subs' \subseteq subs
    BY <1>5 DEF RunBulk, BulkNext, db
  <2>2. QED
    BY <2>1, FewerSubs
<1>6. ASSUME NEW s \in subs, DeleteSubscription(s) PROVE RevokedStep
  BY <1>6, FewerSubs DEF DeleteSubscription, ChangeSub
<1>7. ASSUME NEW ib \in Inbounds, CreateInbound(ib) PROVE RevokedStep
  BY <1>7, FewerSubs DEF CreateInbound
<1>8. ASSUME NEW c \in clients, DeleteClient(c) PROVE RevokedStep
  BY <1>8, FewerSubs DEF DeleteClient
<1>9. ASSUME NEW e \in Emails, Enforce(e) PROVE RevokedStep
  BY <1>9, FewerSubs DEF Enforce
<1>10. SubscriptionsPage => RevokedStep
  BY <1>3, <1>4, <1>5, <1>6 DEF SubscriptionsPage
<1>11. QED
  BY <1>1, <1>2, <1>5, <1>7, <1>8, <1>9, <1>10 DEF Next

\* A switched-off link is revived by a new token only: an edit that rescopes the
\* bundle meanwhile writes two columns of what the row is by then.
THEOREM RevokedForGood == Spec => RevokedStays
<1>1. ASSUME IInv, [Next]_vars
      PROVE  [\A s \in subs, x \in subs' : s.id = x.id /\ s.token = x.token /\ s.revoked => x.revoked]_vars
  <2>1. CASE Next
    BY <1>1, <2>1, NextRevokes DEF RevokedStep
  <2>2. QED
    BY <1>1, <2>1
<1>2. QED
  BY Invariance, <1>1, PTL DEF Spec, RevokedStays

OffStep ==
  \A c \in clients' : /\ c.id \notin {d.id : d \in clients} /\ ~overlapped
                      /\ \E d \in clients : d.who = c.who
                      /\ \A d \in clients : d.who = c.who => ~d.on
                      => ~c.on

\* Most steps make no row.
LEMMA NoNewRow ==
  ASSUME \A c \in clients' : \E d \in clients : c.id = d.id
  PROVE  OffStep
BY DEF OffStep

LEMMA ServeOff == ASSUME IInv, NEW t \in Tabs, Serve(t) PROVE OffStep
<1>1. CASE InsertClient(t)
  <2> DEFINE r == req[t]
  <2>1. clients' = clients \cup {NewClient(r)}
    BY <1>1 DEF InsertClient
  <2>2. r.pc = "insert" /\ (~overlapped => Lone(r, clients, inbounds))
    BY <1>1, Found DEF InsertClient
  <2>3. NewClient(r).who = r.who /\ NewClient(r).on = (r.op = "create" \/ r.cur = {} \/ \E c \in r.cur : c.on)
    BY DEF NewClient
  <2>4. CASE r.op = "create"
    BY <2>1, <2>2, <2>3, <2>4 DEF Lone, OffStep
  <2>5. CASE r.op # "create"
    <3>1. ~overlapped => r.cur # {} /\ \A c \in r.cur : c \in clients /\ c.who = r.who
      BY <2>2, <2>5 DEF Lone
    <3>2. ~overlapped /\ (\A d \in clients : d.who = r.who => ~d.on) => ~NewClient(r).on
      BY <2>3, <2>5, <3>1
    <3>3. QED
      BY <2>1, <2>3, <3>2 DEF OffStep
  <2>6. QED
    BY <2>4, <2>5
<1>2. CASE SaveClient(t)
  <2> DEFINE r == req[t]
             c == CHOOSE d \in r.keep : \A e \in r.keep : d.id <= e.id
  <2>1. clients' = {d \in clients : d.id # c.id} \cup {Saved(r, c)}
    BY <1>2 DEF SaveClient
  <2>2. r.pc = "save" /\ Shape(r) /\ r.keep # {} /\ (~overlapped => Lone(r, clients, inbounds))
    BY <1>2, Found DEF SaveClient, Settled
  <2>3. c \in r.keep
    BY <2>2, LeastKept
  <2>4. c \in Client
    BY <2>2, <2>3 DEF Shape, Req
  <2> HIDE DEF c
  <2>5. Saved(r, c).id = c.id
    BY <2>4 DEF Saved, Client
  <2>6. ~overlapped => c \in clients
    BY <2>2, <2>3 DEF Lone
  <2>7. QED
    BY <2>1, <2>5, <2>6 DEF OffStep
<1>3. CASE ~InsertClient(t) /\ ~SaveClient(t)
  <2>1. clients' \subseteq clients
    BY <1>3 DEF Serve, CreateChecks, CountClient, CreateSub, ReadClients, UpdateCollides, Rescope,
       ReconcileReads, RemoveClient, Survivors, AddReads, AddNext, DeleteLists, DeleteSubs, DeleteRows,
       Fail, Read, db
  <2>2. QED
    BY <2>1, NoNewRow
<1>4. QED
  BY <1>1, <1>2, <1>3

LEMMA NextOff == ASSUME IInv, Next PROVE OffStep
<1>1. ASSUME NEW t \in Tabs, Refetch(t) \/ MultiUserPanel(t) \/ SubmitAdd(t) \/ Serve(t) PROVE OffStep
  <2>1. CASE Serve(t)
    BY <2>1, ServeOff
  <2>2. CASE Refetch(t) \/ MultiUserPanel(t) \/ SubmitAdd(t)
    <3>1. clients' = clients
      BY <2>2 DEF Refetch, MultiUserPanel, OpenEdit, SubmitCreate, SubmitEdit, SubmitDelete, SubmitAdd, Ask, db
    <3>2. QED
      BY <3>1, NoNewRow
  <2>3. QED
    BY <1>1, <2>1, <2>2
<1>2. ASSUME NEW e \in Emails, Enforce(e) PROVE OffStep
  <2> DEFINE off(c) == IF c.email = e THEN [c EXCEPT !.on = FALSE] ELSE c
  <2>1. clients' = {off(c) : c \in clients}
    BY <1>2 DEF Enforce
  <2>2. \A c \in clients : off(c).id = c.id
    BY Stays DEF Client
  <2> HIDE DEF off
  <2>3. QED
    BY <2>1, <2>2, NoNewRow
<1>3. ASSUME SubscriptionsPage \/ BulkNext PROVE OffStep
  <2>1. clients' = clients
    BY <1>3 DEF SubscriptionsPage, RunBulk, RevokeSubscription, RotateSubscription, BulkNext,
       DeleteSubscription, ChangeSub, db
  <2>2. QED
    BY <2>1, NoNewRow
<1>4. ASSUME NEW ib \in Inbounds, DeleteInbound(ib) \/ CreateInbound(ib) PROVE OffStep
  <2>1. clients' \subseteq clients
    BY <1>4 DEF DeleteInbound, CreateInbound
  <2>2. QED
    BY <2>1, NoNewRow
<1>5. ASSUME NEW c \in clients, DeleteClient(c) PROVE OffStep
  <2>1. clients' \subseteq clients
    BY <1>5 DEF DeleteClient
  <2>2. QED
    BY <2>1, NoNewRow
<1>6. QED
  BY <1>1, <1>2, <1>3, <1>4, <1>5 DEF Next

\* Inbounds are added to a switched-off user switched off: the rows that
\* reconcile lists are the user's, and are still there when it inserts.
THEOREM OffStaysOff == Spec => StaysOff
<1>1. ASSUME IInv, [Next]_vars
      PROVE  [\A c \in clients' : /\ c.id \notin {d.id : d \in clients} /\ ~overlapped
                                  /\ \E d \in clients : d.who = c.who
                                  /\ \A d \in clients : d.who = c.who => ~d.on
                                  => ~c.on]_vars
  <2>1. CASE Next
    BY <1>1, <2>1, NextOff DEF OffStep
  <2>2. QED
    BY <1>1, <2>1
<1>2. QED
  BY Invariance, <1>1, PTL DEF Spec, StaysOff
=============================================================================
