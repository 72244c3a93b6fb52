---------------------------- MODULE InboundsProofs ----------------------------
(***************************************************************************)
(* Proofs about the inbound list and the certificates, for any pages,      *)
(* names, ports, first inbounds and bounds, from the assumption on the     *)
(* constants of Inbounds: the types; that no inbound has a certificate     *)
(* without files; that renewal stays off; that the engines serve what was  *)
(* issued last.  First, what each step does to the request that takes it;  *)
(* then four invariants, each kept by every step given those before it.    *)
(***************************************************************************)
EXTENDS Inbounds, FiniteSetTheorems, WellFoundedInduction, TLAPS

(***************************************************************************)
(* The states                                                              *)
(***************************************************************************)
Names    == Domains \cup {"self"}
CertRows == [id: Nat, dom: Domains, path: BOOLEAN, auto: BOOLEAN, due: BOOLEAN]
Inbs     == [id: Nat, on: BOOLEAN, port: Ports, cert: Names]
Offered  == [id: Nat, on: BOOLEAN, port: Ports, cert: Names \cup {"keep"}]
Switch   == {"on"} \X BOOLEAN
Pairs    == Switch \cup ({"port"} \X Ports) \cup ({"cert"} \X (Names \cup {"keep"}))
Views    == [ins: SUBSET Offered, certs: SUBSET CertRows]
Pairing  == [crt: Nat, key: Nat]
Saving   == {"saveCert", "saveFailed", "saveAuto"}
Writing  == {"crt", "key"}
Issuing   == {"obtain", "crt", "key", "findCert", "findFailed", "saveCert", "saveFailed"}
PassPcs  == {"idle", "pass"} \cup Issuing
TabPcs   == {"idle", "read", "write", "apply", "delete", "getCert", "findAuto", "saveAuto", "deleteCert"} \cup Issuing
Ops      == {"idle", "update", "delete", "issue", "auto", "deleteCert", "pass"}
Requests == [op: Ops, pc: PassPcs \cup TabPcs, ids: SUBSET Nat, row: CertRows \cup {NoRow},
             patch: SUBSET (Pairs \cup Inbs), dom: Domains \cup {"none"}, gen: Nat,
             replaced: BOOLEAN, hook: BOOLEAN, on: BOOLEAN]

TableOK == /\ inbounds \subseteq Inbs /\ certs \subseteq CertRows /\ nextCert \in Nat \ {0}
           /\ issued \in Nat /\ crossed \in BOOLEAN /\ mixed \in BOOLEAN
           /\ files \in [Domains -> Pairing] /\ loaded \in [Domains -> Pairing] /\ reload \in BOOLEAN
           /\ page \in [Tabs -> Views] /\ moves \in Nat /\ faults \in Nat

\* What each place of a request holds.
Holds(r) ==
  /\ r.pc = "read" => \E id \in r.ids : r.ids = {id}
  /\ r.pc = "read" => r.patch \subseteq Pairs /\ \E b \in BOOLEAN : <<"on", b>> \in r.patch
  /\ r.pc = "write" => r.patch \subseteq Inbs /\ \E ib \in r.patch : r.patch = {ib}
  /\ r.pc \in Issuing => r.dom \in Domains
  /\ r.pc \in {"crt", "key", "findCert", "saveCert"} => r.gen # 0
  /\ r.pc = "saveAuto" => r.row \in CertRows
  /\ r.pc \in {"saveCert", "saveFailed"} => r.row = NoRow \/ r.row.dom = r.dom

RequestsOK == /\ req \in [Sources -> Requests] /\ \A s \in Sources : Holds(req[s])
              /\ req["sched"].pc \in PassPcs /\ \A t \in Tabs : req[t].pc \in TabPcs /\ ~req[t].hook
              /\ req["sched"].pc = "idle" => ~req["sched"].hook

InboundsTypeOK == TableOK /\ RequestsOK

(***************************************************************************)
(* The certificates are real                                               *)
(***************************************************************************)
Whole(d) == files[d].crt # 0 /\ files[d].key # 0
Real(c)  == c = "self" \/ Whole(c)

SoundRequest(r) ==
  /\ r.pc = "write" => \A ib \in r.patch : Real(ib.cert)
  /\ r.pc \in Saving /\ r.row.path => Whole(r.row.dom)
  /\ r.pc = "key" => files[r.dom].crt # 0
  /\ r.pc \in {"findCert", "saveCert"} => Whole(r.dom)

RealInv ==
  /\ \A ib \in inbounds : Real(ib.cert)
  /\ \A c \in certs : c.path => Whole(c.dom)
  /\ \A s \in Sources : SoundRequest(req[s])

(***************************************************************************)
(* The rows have their ids                                                 *)
(***************************************************************************)
Held(r) == r.pc \in Saving /\ r.row.id # 0
RowsInv ==
  /\ \A c \in certs : 0 < c.id /\ c.id < nextCert
  /\ \A c, d \in certs : c.id = d.id => c = d
  /\ \A s \in Sources : req[s].pc = "saveAuto" => req[s].row.id # 0
  /\ \A s \in Sources : Held(req[s]) =>
       /\ req[s].row.id < nextCert
       /\ \A c \in certs : c.id = req[s].row.id => c.dom = req[s].row.dom /\ (crossed \/ c.auto = req[s].row.auto)
       /\ \A u \in Sources : Held(req[u]) /\ req[u].row.id = req[s].row.id => req[u].row.dom = req[s].row.dom

(***************************************************************************)
(* What the engines serve, or are about to                                 *)
(***************************************************************************)
Calm == faults = 0 /\ ~mixed
Replacing(s, d) == req[s].pc \in {"key", "findCert", "saveCert"} /\ req[s].replaced /\ req[s].dom = d
Owed(d) == \/ reload \/ req["sched"].hook
           \/ \E s \in Sources : req[s].pc = "apply" \/ Replacing(s, d)
Listed(d) == \E c \in certs : c.dom = d /\ c.path

Excused(n) == n = "self" \/ n \in orphans \/ n \in clashed
Known(n)   == Excused(n) \/ Listed(n)

KnownRequest(r) ==
  /\ r.pc = "write" => \A ib \in r.patch : Known(ib.cert)
  /\ r.pc \in Writing /\ ~r.replaced => r.dom \in clashed \/ ~Listed(r.dom)

\* What holds of the list, whatever fails.
ListInv ==
  /\ \A c, d \in certs : c.dom = d.dom /\ c # d => c.dom \in clashed
  /\ \A ib \in inbounds : Known(ib.cert)
  /\ \A s \in Sources : KnownRequest(req[s])

\* What holds of the files and the engines while all goes well.
CalmInv ==
  /\ \A s \in Sources : req[s].pc = "key" => files[req[s].dom].crt = req[s].gen
  /\ \A d \in Domains : files[d].crt = files[d].key \/ \E s \in Sources : req[s].pc = "key" /\ req[s].dom = d
  /\ \A ib \in inbounds : ib.on /\ ~Excused(ib.cert) => loaded[ib.cert] = files[ib.cert] \/ Owed(ib.cert)

ServeInv == ListInv /\ (Calm => CalmInv)

(***************************************************************************)
(* Helpers                                                                 *)
(***************************************************************************)
LEMMA NamesApart == /\ "self" \notin Domains /\ "keep" \notin Domains /\ "none" \notin Domains
                    /\ "sched" \notin Tabs /\ "sched" \in Sources /\ Tabs \subseteq Sources
BY InboundsAssumption DEF InboundsAssumption, Sources

LEMMA OnlyIn == ASSUME NEW S, S # {} PROVE Only(S) \in S
BY DEF Only

LEMMA IdleFits == /\ Idle \in Requests /\ Holds(Idle) /\ Idle.pc = "idle" /\ ~Idle.hook /\ ~Idle.replaced
                  /\ Idle.row = NoRow /\ Idle.ids = {}
<1>1. /\ Idle.pc = "idle" /\ Idle.hook = FALSE /\ Idle.replaced = FALSE /\ Idle.row = NoRow /\ Idle.ids = {}
      /\ Idle.patch = {} /\ Idle.dom = "none" /\ Idle.op = "idle" /\ Idle.gen = 0 /\ Idle.on = FALSE
  BY DEF Idle
<1>2. Idle.pc \in PassPcs \cup TabPcs /\ Idle.row \in CertRows \cup {NoRow} /\ Idle.dom \in Domains \cup {"none"}
      /\ Idle.ids \in SUBSET Nat /\ Idle.patch \in SUBSET (Pairs \cup Inbs)
  BY <1>1 DEF PassPcs
<1>3. Idle = [op |-> Idle.op, pc |-> Idle.pc, ids |-> Idle.ids, row |-> Idle.row, patch |-> Idle.patch, dom |-> Idle.dom,
              gen |-> Idle.gen, replaced |-> Idle.replaced, hook |-> Idle.hook, on |-> Idle.on]
  BY DEF Idle
<1>4. Idle.op \in Ops /\ Idle.gen \in Nat
  BY <1>1 DEF Ops
<1>8. Idle.replaced \in BOOLEAN /\ Idle.hook \in BOOLEAN /\ Idle.on \in BOOLEAN
  BY <1>1
<1> HIDE DEF Idle
<1>5. Idle \in Requests
  BY <1>2, <1>3, <1>4, <1>8 DEF Requests
<1>6. Holds(Idle)
  BY <1>1 DEF Holds, Issuing
<1>7. QED
  BY <1>1, <1>5, <1>6

\* The least id of the rows of a name.
LEMMA FindFits ==
  ASSUME certs \subseteq CertRows, NEW d
  PROVE  /\ Named(d) = {} => findCert(d) = NoRow
         /\ Named(d) # {} => findCert(d) \in certs /\ findCert(d).dom = d
<1> DEFINE R == OpToRel(<, Nat)
           S == {c.id : c \in Named(d)}
<1>r. \A x, y \in Nat : x < y => <<x, y>> \in R
  BY DEF OpToRel
<1>w. IsWellFoundedOn(R, Nat)
  BY NatLessThanWellFounded
<1> HIDE DEF R
<1>1. ASSUME Named(d) # {} PROVE \E c \in Named(d) : \A x \in Named(d) : c.id <= x.id
  <2>1. S \subseteq Nat /\ S # {}
    BY <1>1 DEF Named, CertRows
  <2>2. \E x \in S : \A y \in S : ~(<<y, x>> \in R)
    BY <2>1, <1>w, WFMin
  <2>3. PICK x \in S : \A y \in S : ~(<<y, x>> \in R)
    BY <2>2
  <2>4. \A y \in S : ~(y < x)
    BY <2>1, <2>3, <1>r
  <2>5. \A y \in S : x <= y
    BY <2>1, <2>4
  <2>6. QED
    BY <2>5
<1>2. ASSUME Named(d) # {} PROVE findCert(d) \in Named(d)
  BY <1>1, <1>2 DEF findCert
<1>3. Named(d) = {} => findCert(d) = NoRow
  BY DEF findCert
<1>4. QED
  BY <1>2, <1>3 DEF Named

LEMMA FoundFits ==
  ASSUME certs \subseteq CertRows, NEW d
  PROVE  findCert(d) \in CertRows \cup {NoRow} /\ (findCert(d) = NoRow \/ findCert(d).dom = d)
BY FindFits

LEMMA NewerFits ==
  ASSUME NEW n \in Nat \ {0}, NEW id \in Nat
  PROVE  /\ Max({n, id + 1}) \in Nat \ {0} /\ Max({n, id + 1}) >= n
         /\ Max({n, id + 1}) > id /\ Max({n, id + 1}) \in {n, id + 1}
<1>1. \E x \in {n, id + 1} : \A y \in {n, id + 1} : x >= y
  <2>1. CASE n >= id + 1
    BY <2>1
  <2>2. CASE ~(n >= id + 1)
    BY <2>2
  <2>3. QED
    BY <2>1, <2>2
<1>2. Max({n, id + 1}) \in {n, id + 1} /\ \A y \in {n, id + 1} : Max({n, id + 1}) >= y
  BY <1>1 DEF Max
<1> DEFINE m == Max({n, id + 1})
<1>3. m \in {n, id + 1} /\ m >= n /\ m >= id + 1
  BY <1>2
<1> HIDE DEF m
<1>4. m \in Nat \ {0} /\ m >= n /\ m > id /\ m \in {n, id + 1}
  BY <1>3
<1>5. QED
  BY <1>4 DEF m

\* The request of s is q from now on.
Moves(s, q) == req' = [req EXCEPT ![s] = q]
\* A request that s may have.
May(s, q) == /\ q \in Requests /\ Holds(q)
             /\ s = "sched" => q.pc \in PassPcs /\ (q.pc = "idle" => ~q.hook)
             /\ s \in Tabs => q.pc \in TabPcs /\ ~q.hook

LEMMA MayOf == ASSUME RequestsOK, NEW s \in Sources PROVE May(s, req[s])
BY DEF RequestsOK, May, Sources

LEMMA IdleMay == ASSUME NEW s \in Sources PROVE May(s, Idle)
BY IdleFits DEF May, TabPcs, PassPcs

LEMMA MovesFit ==
  ASSUME RequestsOK, NEW s \in Sources, NEW q, May(s, q), Moves(s, q)
  PROVE  RequestsOK' /\ \A u \in Sources : req'[u] = IF u = s THEN q ELSE req[u]
<1>1. \A u \in Sources : req'[u] = IF u = s THEN q ELSE req[u]
  BY DEF Moves, RequestsOK
<1>2. \A u \in Sources : May(u, req'[u])
  BY <1>1, MayOf
<1>3. req' \in [Sources -> Requests]
  BY DEF Moves, RequestsOK, May
<1>4. QED
  BY <1>1, <1>2, <1>3, NamesApart DEF RequestsOK, May

LEMMA EndMoves == ASSUME NEW s \in Sources, End(s) PROVE Moves(s, Idle) /\ May(s, Idle)
BY IdleMay DEF End, Then, Moves

(***************************************************************************)
(* What each step does                                                     *)
(***************************************************************************)
Kept == UNCHANGED <<db, disk, page, past, faults>>

AskPcs == {"read", "delete", "getCert", "obtain", "findAuto", "deleteCert"}

LEMMA AskStep ==
  ASSUME InboundsTypeOK, NEW t \in Tabs, NEW r \in Requests, r.pc \in AskPcs, Holds(r), ~r.hook, Ask(t, r)
  PROVE  /\ Moves(t, r) /\ May(t, r) /\ req[t] = Idle /\ Kept /\ moves' \in Nat
BY NamesApart DEF Ask, Move, Moves, May, Kept, InboundsTypeOK, TableOK, TabPcs, AskPcs, Issuing

LEMMA OperatorStep ==
  ASSUME InboundsTypeOK, NEW t \in Tabs, Operator(t)
  PROVE  /\ \E q : q.pc \in AskPcs /\ Moves(t, q) /\ May(t, q)
         /\ req[t] = Idle /\ Kept /\ moves' \in Nat
<1> DEFINE Done == /\ \E q : q.pc \in AskPcs /\ Moves(t, q) /\ May(t, q)
                   /\ req[t] = Idle /\ Kept /\ moves' \in Nat
<1>f. Idle \in Requests
  BY IdleFits
<1>v. page[t] \in Views
  BY DEF InboundsTypeOK, TableOK
<1>a. ASSUME NEW r \in Requests, r.pc \in AskPcs, Holds(r), ~r.hook, Ask(t, r) PROVE Done
  BY <1>a, AskStep
<1>i. \A ib \in page[t].ins : ib \in Offered /\ ib.id \in Nat /\ ib.on \in BOOLEAN /\ ib.port \in Ports
                              /\ ib.cert \in Names \cup {"keep"}
  BY <1>v DEF Views, Offered
<1>c. \A c \in page[t].certs : c \in CertRows /\ c.id \in Nat /\ c.dom \in Domains
  BY <1>v DEF Views, CertRows
<1>1. CASE ToggleRow(t)
  <2>1. PICK ib \in page[t].ins : Ask(t, [Idle EXCEPT !.op = "update", !.pc = "read", !.ids = {ib.id},
                                                  !.patch = {<<"on", ~ib.on>>}])
    BY <1>1 DEF ToggleRow, InboundRow
  <2> DEFINE r == [Idle EXCEPT !.op = "update", !.pc = "read", !.ids = {ib.id}, !.patch = {<<"on", ~ib.on>>}]
  <2>2. (~ib.on) \in BOOLEAN /\ ib.id \in Nat
    BY <1>i
  <2> DEFINE b == ~ib.on
             ps == {<<"on", b>>}
  <2>b. b \in BOOLEAN
    OBVIOUS
  <2> HIDE DEF b
  <2>3. ps \subseteq Pairs /\ <<"on", b>> \in ps
    BY <2>b DEF Pairs, Switch
  <2>r. r = [Idle EXCEPT !.op = "update", !.pc = "read", !.ids = {ib.id}, !.patch = ps]
    BY DEF b
  <2> HIDE DEF r, ps
  <2>s. "update" \in Ops /\ "read" \in PassPcs \cup TabPcs /\ {ib.id} \in SUBSET Nat /\ ps \in SUBSET (Pairs \cup Inbs)
    BY <2>2, <2>3 DEF TabPcs, Ops
  <2>h. r \in Requests /\ r.pc = "read" /\ r.ids = {ib.id} /\ r.patch = ps /\ r.hook = Idle.hook
    BY <2>s, <2>r, <1>f DEF Requests
  <2>4. r \in Requests /\ r.pc = "read" /\ r.ids = {ib.id} /\ r.patch = ps /\ ~r.hook
    BY <2>h, IdleFits
  <2>5. Holds(r)
    BY <2>b, <2>3, <2>4 DEF Holds, Issuing
  <2>6. Ask(t, r)
    BY <2>1 DEF r
  <2>7. QED
    BY <1>a, <2>4, <2>5, <2>6 DEF AskPcs
<1>2. CASE SubmitForm(t)
  <2>1. PICK ib \in page[t].ins, port \in Ports : \E cert \in certSelect(t, ib) : Ask(t, save(ib, port, cert))
    BY <1>2 DEF SubmitForm, InboundRow
  <2>2. PICK cert \in certSelect(t, ib) : Ask(t, save(ib, port, cert))
    BY <2>1
  <2>3. cert \in Names \cup {"keep"}
    BY <1>c, <1>i, <2>2 DEF certSelect, Names
  <2> DEFINE ps == {<<"on", ib.on>>, <<"port", port>>, <<"cert", cert>>}
             r  == save(ib, port, cert)
  <2>4. ps \subseteq Pairs /\ <<"on", ib.on>> \in ps /\ ib.on \in BOOLEAN /\ ib.id \in Nat
    BY <1>i, <2>3 DEF Pairs, Switch
  <2> HIDE DEF ps
  <2>5. r = [Idle EXCEPT !.op = "update", !.pc = "read", !.ids = {ib.id}, !.patch = ps]
    BY DEF save, ps
  <2> HIDE DEF r
  <2>s. "update" \in Ops /\ "read" \in PassPcs \cup TabPcs /\ {ib.id} \in SUBSET Nat /\ ps \in SUBSET (Pairs \cup Inbs)
    BY <2>4 DEF TabPcs, Ops
  <2>h. r \in Requests /\ r.pc = "read" /\ r.ids = {ib.id} /\ r.patch = ps /\ r.hook = Idle.hook
    BY <2>s, <2>5, <1>f DEF Requests
  <2>6. r \in Requests /\ r.pc = "read" /\ r.ids = {ib.id} /\ r.patch = ps /\ ~r.hook
    BY <2>h, IdleFits
  <2>7. Holds(r)
    BY <2>4, <2>6 DEF Holds, Issuing
  <2>8. Ask(t, r)
    BY <2>2 DEF r
  <2>9. QED
    BY <1>a, <2>6, <2>7, <2>8 DEF AskPcs
<1>3. ASSUME NEW ids \in SUBSET Nat, NEW op \in Ops, NEW pc \in {"delete", "getCert", "deleteCert", "findAuto"}, NEW on \in BOOLEAN,
             Ask(t, [Idle EXCEPT !.op = op, !.pc = pc, !.ids = ids, !.on = on])
      PROVE  Done
  <2> DEFINE r == [Idle EXCEPT !.op = op, !.pc = pc, !.ids = ids, !.on = on]
  <2>s. pc \in PassPcs \cup TabPcs
    BY DEF TabPcs
  <2>h. r \in Requests /\ r.pc = pc /\ r.hook = Idle.hook
    BY <2>s, <1>f DEF Requests
  <2>1. r \in Requests /\ r.pc = pc /\ ~r.hook
    BY <2>h, IdleFits
  <2> HIDE DEF r
  <2>2. Holds(r)
    BY <2>1 DEF Holds, Issuing
  <2>3. Ask(t, r)
    BY <1>3 DEF r
  <2>4. QED
    BY <1>a, <2>1, <2>2, <2>3 DEF AskPcs
<1>n. ASSUME NEW ids \in SUBSET Nat, NEW op \in Ops, NEW pc \in {"delete", "getCert", "deleteCert"},
             Ask(t, [Idle EXCEPT !.op = op, !.pc = pc, !.ids = ids])
      PROVE  Done
  <2> DEFINE r == [Idle EXCEPT !.op = op, !.pc = pc, !.ids = ids]
  <2>s. pc \in PassPcs \cup TabPcs
    BY DEF TabPcs
  <2>h. r \in Requests /\ r.pc = pc /\ r.hook = Idle.hook
    BY <2>s, <1>f DEF Requests
  <2>1. r \in Requests /\ r.pc = pc /\ ~r.hook
    BY <2>h, IdleFits
  <2> HIDE DEF r
  <2>2. Holds(r)
    BY <2>1 DEF Holds, Issuing
  <2>3. Ask(t, r)
    BY <1>n DEF r
  <2>4. QED
    BY <1>a, <2>1, <2>2, <2>3 DEF AskPcs
<1>4. CASE SubmitDelete(t)
  <2>1. PICK ib \in page[t].ins : Ask(t, [Idle EXCEPT !.op = "delete", !.pc = "delete", !.ids = {ib.id}])
    BY <1>4 DEF SubmitDelete, InboundRow
  <2>2. {ib.id} \in SUBSET Nat /\ "delete" \in Ops
    BY <1>i, <2>1 DEF Ops
  <2>3. QED
    BY <1>n, <2>1, <2>2
<1>5. CASE BulkDelete(t)
  <2>1. PICK ids \in Selected(t) : Ask(t, [Idle EXCEPT !.op = "delete", !.pc = "delete", !.ids = ids])
    BY <1>5 DEF BulkDelete
  <2>2. ids \in SUBSET Nat
    BY <1>i, <2>1 DEF Selected, InboundRow
  <2>3. "delete" \in Ops
    BY DEF Ops
  <2>4. QED
    BY <1>n, <2>1, <2>2, <2>3
<1>6. CASE SubmitIssue(t)
  <2>1. PICK d \in Domains : Ask(t, [Idle EXCEPT !.op = "issue", !.pc = "obtain", !.dom = d])
    BY <1>6 DEF SubmitIssue
  <2> DEFINE r == [Idle EXCEPT !.op = "issue", !.pc = "obtain", !.dom = d]
  <2>s. "issue" \in Ops /\ "obtain" \in PassPcs \cup TabPcs /\ d \in Domains \cup {"none"}
    BY DEF PassPcs, Issuing, Ops
  <2>h. r \in Requests /\ r.pc = "obtain" /\ r.dom = d /\ r.hook = Idle.hook
    BY <2>s, <1>f DEF Requests
  <2>2. r \in Requests /\ r.pc = "obtain" /\ r.dom = d /\ ~r.hook
    BY <2>h, IdleFits
  <2> HIDE DEF r
  <2>3. Holds(r)
    BY <2>2 DEF Holds
  <2>4. Ask(t, r)
    BY <2>1 DEF r
  <2>5. QED
    BY <1>a, <2>2, <2>3, <2>4 DEF AskPcs
<1>7. CASE SubmitRenew(t)
  <2>1. PICK c \in page[t].certs : Ask(t, [Idle EXCEPT !.op = "issue", !.pc = "getCert", !.ids = {c.id}])
    BY <1>7 DEF SubmitRenew, CertRow
  <2>2. {c.id} \in SUBSET Nat /\ "issue" \in Ops /\ "deleteCert" \in Ops
    BY <1>c, <2>1 DEF Ops
  <2>3. QED
    BY <1>n, <2>1, <2>2
<1>8. CASE SubmitAuto(t)
  <2>1. PICK c \in page[t].certs : Ask(t, [Idle EXCEPT !.op = "auto", !.pc = "findAuto", !.ids = {c.id}, !.on = ~c.auto])
    BY <1>8 DEF SubmitAuto, CertRow
  <2>2. (~c.auto) \in BOOLEAN /\ {c.id} \in SUBSET Nat /\ "auto" \in Ops
    BY <1>c, <2>1 DEF Ops
  <2> DEFINE b == ~c.auto
  <2>3. b \in BOOLEAN /\ Ask(t, [Idle EXCEPT !.op = "auto", !.pc = "findAuto", !.ids = {c.id}, !.on = b])
    BY <2>1, <2>2
  <2> HIDE DEF b
  <2>4. QED
    BY <1>3, <2>2, <2>3
<1>9. CASE SubmitDeleteCert(t)
  <2>1. PICK c \in page[t].certs : Ask(t, [Idle EXCEPT !.op = "deleteCert", !.pc = "deleteCert", !.ids = {c.id}])
    BY <1>9 DEF SubmitDeleteCert, CertRow
  <2>2. {c.id} \in SUBSET Nat /\ "issue" \in Ops /\ "deleteCert" \in Ops
    BY <1>c, <2>1 DEF Ops
  <2>3. QED
    BY <1>n, <2>1, <2>2
<1>10. QED
  BY <1>1, <1>2, <1>4, <1>5, <1>6, <1>7, <1>8, <1>9 DEF Operator

Still == UNCHANGED <<db, disk, page, past, moves, faults>>

\* What a request is known to hold.
LEMMA RequestFits ==
  ASSUME InboundsTypeOK, NEW s \in Sources
  PROVE  LET r == req[s] IN
         /\ r \in Requests /\ Holds(r) /\ May(s, r)
         /\ r.op \in Ops /\ r.pc \in PassPcs \cup TabPcs /\ r.ids \in SUBSET Nat /\ r.row \in CertRows \cup {NoRow}
         /\ r.patch \in SUBSET (Pairs \cup Inbs) /\ r.dom \in Domains \cup {"none"} /\ r.gen \in Nat
         /\ r.replaced \in BOOLEAN /\ r.hook \in BOOLEAN /\ r.on \in BOOLEAN
<1>1. req[s] \in Requests /\ Holds(req[s]) /\ May(s, req[s])
  BY MayOf DEF InboundsTypeOK, RequestsOK
<1>2. ASSUME NEW r \in Requests
      PROVE  /\ r.op \in Ops /\ r.pc \in PassPcs \cup TabPcs /\ r.ids \in SUBSET Nat /\ r.row \in CertRows \cup {NoRow}
             /\ r.patch \in SUBSET (Pairs \cup Inbs) /\ r.dom \in Domains \cup {"none"} /\ r.gen \in Nat
             /\ r.replaced \in BOOLEAN /\ r.hook \in BOOLEAN /\ r.on \in BOOLEAN
  BY DEF Requests
<1>3. QED
  BY <1>1, <1>2

LEMMA OpenedByTabs ==
  ASSUME InboundsTypeOK, NEW s \in Sources, req[s].pc \notin PassPcs
  PROVE  s \in Tabs
BY RequestFits DEF May, Sources

\* To another place of the same kind.
LEMMA ToFits ==
  ASSUME InboundsTypeOK, NEW s \in Sources, NEW pc \in PassPcs \cup TabPcs, To(s, pc)
  PROVE  \E q \in Requests : /\ Moves(s, q) /\ q.pc = pc /\ q.op = req[s].op /\ q.ids = req[s].ids /\ q.row = req[s].row
                             /\ q.patch = req[s].patch /\ q.dom = req[s].dom /\ q.gen = req[s].gen
                             /\ q.replaced = req[s].replaced /\ q.hook = req[s].hook /\ q.on = req[s].on
<1> DEFINE q == [req[s] EXCEPT !.pc = pc]
<1>1. req[s] \in Requests
  BY RequestFits
<1>2. /\ q \in Requests /\ q.pc = pc /\ q.op = req[s].op /\ q.ids = req[s].ids /\ q.row = req[s].row
      /\ q.patch = req[s].patch /\ q.dom = req[s].dom /\ q.gen = req[s].gen
      /\ q.replaced = req[s].replaced /\ q.hook = req[s].hook /\ q.on = req[s].on
  BY <1>1 DEF Requests
<1>3. Moves(s, q)
  BY DEF To, Then, Moves
<1> HIDE DEF q
<1>4. QED
  BY <1>2, <1>3

\* What the choice of a certificate comes to: what the row had, the pair made at
\* installation, or an issued certificate of the list.
LEMMA PatchFits ==
  ASSUME InboundsTypeOK, NEW ib \in inbounds, NEW ps \in SUBSET Pairs, \E b \in BOOLEAN : <<"on", b>> \in ps,
         NEW x \in Patch(ib, ps)
  PROVE  x \in Inbs /\ (x.cert = ib.cert \/ x.cert = "self" \/ Listed(x.cert))
<1> DEFINE has(f) == \E p \in ps : p[1] = f
           val(f) == (CHOOSE p \in ps : p[1] = f)[2]
           chosen == IF has("cert") THEN applyCertDomain(ib, val("cert")) ELSE {ib.cert}
           port == IF has("port") THEN val("port") ELSE ib.port
           on == val("on")
<1>i. ib \in Inbs /\ ib.id \in Nat /\ ib.on \in BOOLEAN /\ ib.port \in Ports /\ ib.cert \in Names
  BY DEF InboundsTypeOK, TableOK, Inbs
<1>p. \A p \in ps : \/ p[1] = "on" /\ p[2] \in BOOLEAN
                    \/ p[1] = "port" /\ p[2] \in Ports
                    \/ p[1] = "cert"
  BY DEF Pairs, Switch
<1>1. on \in BOOLEAN
  <2>1. PICK b \in BOOLEAN : <<"on", b>> \in ps
    OBVIOUS
  <2>2. \E p \in ps : p[1] = "on"
    BY <2>1
  <2>3. (CHOOSE p \in ps : p[1] = "on") \in ps /\ (CHOOSE p \in ps : p[1] = "on")[1] = "on"
    BY <2>2
  <2>4. QED
    BY <1>p, <2>3
<1>2. port \in Ports
  <2>1. ASSUME has("port") PROVE (CHOOSE p \in ps : p[1] = "port") \in ps /\ (CHOOSE p \in ps : p[1] = "port")[1] = "port"
    BY <2>1
  <2>2. QED
    BY <1>i, <1>p, <2>1
<1>3. \A c \in chosen : c \in Names /\ (c = ib.cert \/ c = "self" \/ Listed(c))
  <2>1. \A d : \A c \in applyCertDomain(ib, d) : c \in Names /\ (c = ib.cert \/ c = "self" \/ Listed(c))
    <3>1. \A c \in certs : c.dom \in Domains
      BY DEF InboundsTypeOK, TableOK, CertRows
    <3>2. TAKE d
    <3>3. TAKE c \in applyCertDomain(ib, d)
    <3>4. CASE d = "keep"
      BY <1>i, <3>4 DEF applyCertDomain
    <3>5. CASE d = "self"
      BY <3>5 DEF applyCertDomain, Names
    <3>6. CASE d # "keep" /\ d # "self"
      BY <3>1, <3>6 DEF applyCertDomain, Names, Listed
    <3>7. QED
      BY <3>4, <3>5, <3>6
  <2>2. QED
    BY <1>i, <2>1
<1>4. PICK c \in chosen : x = [ib EXCEPT !.on = on, !.cert = c, !.port = port]
  BY DEF Patch
<1> HIDE DEF on, port, chosen
<1>5. x \in Inbs /\ x.cert = c
  BY <1>1, <1>2, <1>3, <1>4, <1>i DEF Inbs
<1>6. QED
  BY <1>3, <1>5

LEMMA ReadStep ==
  ASSUME InboundsTypeOK, NEW s \in Sources, ReadInbound(s)
  PROVE  /\ At(s, "read") /\ s \in Tabs /\ Still
         /\ \E q : /\ Moves(s, q) /\ May(s, q)
                   /\ \/ q = Idle
                      \/ /\ q.pc = "write"
                         /\ \E x \in Inbs, ib \in inbounds :
                              q.patch = {x} /\ (x.cert = ib.cert \/ x.cert = "self" \/ Listed(x.cert))
<1> DEFINE r == req[s]
           rows == {ib \in inbounds : ib.id = Only(r.ids)}
           out  == UNION {Patch(ib, r.patch) : ib \in rows}
<1>r. r \in Requests /\ Holds(r) /\ May(s, r) /\ r.pc = "read"
  BY RequestFits DEF ReadInbound, At
<1>t. s \in Tabs /\ At(s, "read") /\ Still
  BY <1>r, OpenedByTabs DEF ReadInbound, Still, PassPcs, Issuing
<1>p. r.patch \in SUBSET Pairs /\ \E b \in BOOLEAN : <<"on", b>> \in r.patch
  BY <1>r DEF Holds
<1>1. CASE out = {}
  BY <1>1, <1>t, EndMoves DEF ReadInbound
<1>2. CASE out # {}
  <2>1. PICK x \in out : x = Only(out)
    BY <1>2, OnlyIn
  <2>2. PICK ib \in rows : x \in Patch(ib, r.patch)
    BY <2>1
  <2>3. x \in Inbs /\ (x.cert = ib.cert \/ x.cert = "self" \/ Listed(x.cert))
    BY <1>p, <2>2, PatchFits
  <2> DEFINE ps == {x}
             q == [r EXCEPT !.pc = "write", !.patch = ps]
  <2>4. Moves(s, q)
    BY <1>2, <2>1 DEF ReadInbound, Then, Moves
  <2>5. ps \in SUBSET (Pairs \cup Inbs) /\ "write" \in PassPcs \cup TabPcs
    BY <2>3 DEF TabPcs
  <2> HIDE DEF ps
  <2>6. q \in Requests /\ q.pc = "write" /\ q.patch = ps /\ q.hook = r.hook
    BY <1>r, <2>5 DEF Requests
  <2> HIDE DEF q
  <2>7. Holds(q)
    BY <2>3, <2>6 DEF Holds, Issuing, ps
  <2>8. May(s, q)
    BY <1>r, <1>t, <2>6, <2>7, NamesApart DEF May, TabPcs
  <2>9. q.patch = {x} /\ ib \in inbounds
    BY <2>6 DEF ps
  <2>10. QED
    BY <1>t, <2>3, <2>4, <2>6, <2>8, <2>9
<1>3. QED
  BY <1>1, <1>2

LEMMA WriteStep ==
  ASSUME InboundsTypeOK, NEW s \in Sources, WriteInbound(s)
  PROVE  /\ At(s, "write") /\ s \in Tabs /\ UNCHANGED <<certs, nextCert, disk, page, past, moves, faults>>
         /\ \E row \in Inbs : \E q : /\ row \in req[s].patch /\ Moves(s, q) /\ May(s, q)
                                       /\ \/ q = Idle /\ inbounds' = inbounds
                                          \/ q.pc = "apply" /\ inbounds' = {ib \in inbounds : ib.id # row.id} \cup {row}
<1> DEFINE r == req[s]
           row == Only(r.patch)
<1>r. r \in Requests /\ Holds(r) /\ May(s, r) /\ r.pc = "write"
  BY RequestFits DEF WriteInbound, At
<1>t. s \in Tabs /\ At(s, "write")
  BY <1>r, OpenedByTabs DEF WriteInbound, PassPcs, Issuing
<1>p. row \in Inbs /\ row \in r.patch
  BY <1>r, OnlyIn DEF Holds
<1>u. UNCHANGED <<certs, nextCert, disk, page, past, moves, faults>>
  BY DEF WriteInbound
<1>1. CASE End(s) /\ UNCHANGED inbounds
  <2>1. Moves(s, Idle) /\ May(s, Idle)
    BY <1>1, EndMoves
  <2>2. QED
    BY <1>1, <1>t, <1>p, <1>u, <2>1
<1>2. CASE inbounds' = {ib \in inbounds : ib.id # row.id} \cup {row} /\ To(s, "apply")
  <2>1. "apply" \in PassPcs \cup TabPcs
    BY DEF TabPcs
  <2>2. PICK q \in Requests : Moves(s, q) /\ q.pc = "apply" /\ q.hook = r.hook
    BY <1>2, <2>1, ToFits
  <2>3. Holds(q)
    BY <2>2 DEF Holds, Issuing
  <2>4. May(s, q)
    BY <1>r, <1>t, <2>2, <2>3, NamesApart DEF May, TabPcs
  <2>5. QED
    BY <1>2, <1>t, <1>p, <1>u, <2>2, <2>4
<1>3. QED
  BY <1>1, <1>2 DEF WriteInbound

LEMMA DeleteStep ==
  ASSUME InboundsTypeOK, NEW s \in Sources, DeleteInbound(s)
  PROVE  /\ At(s, "delete") /\ s \in Tabs /\ UNCHANGED <<certs, nextCert, disk, page, past, moves, faults>>
         /\ inbounds' \subseteq inbounds
         /\ \E q : Moves(s, q) /\ May(s, q) /\ q.pc = "apply"
<1> DEFINE r == req[s]
<1>r. r \in Requests /\ Holds(r) /\ May(s, r) /\ r.pc = "delete" /\ r.ids \in SUBSET Nat
  BY RequestFits DEF DeleteInbound, At
<1>t. s \in Tabs /\ At(s, "delete") /\ UNCHANGED <<certs, nextCert, disk, page, past, moves, faults>>
  BY <1>r, OpenedByTabs DEF DeleteInbound, PassPcs, Issuing
<1>1. PICK id \in r.ids : /\ inbounds' = {ib \in inbounds : ib.id # id}
                          /\ Then(s, [r EXCEPT !.ids = @ \ {id}, !.pc = "apply"])
  BY DEF DeleteInbound
<1> DEFINE rest == r.ids \ {id}
           q == [r EXCEPT !.ids = rest, !.pc = "apply"]
<1>2. Moves(s, q)
  BY <1>1 DEF Then, Moves
<1>3. rest \in SUBSET Nat /\ "apply" \in PassPcs \cup TabPcs
  BY <1>r DEF TabPcs
<1> HIDE DEF rest
<1>4. q \in Requests /\ q.pc = "apply" /\ q.hook = r.hook
  BY <1>r, <1>3 DEF Requests
<1> HIDE DEF q
<1>5. Holds(q)
  BY <1>4 DEF Holds, Issuing
<1>6. May(s, q)
  BY <1>r, <1>t, <1>4, <1>5, NamesApart DEF May, TabPcs
<1>7. inbounds' \subseteq inbounds
  BY <1>1
<1>8. QED
  BY <1>t, <1>2, <1>4, <1>6, <1>7

\* What an Apply loads.
LEMMA ServingFits ==
  ASSUME InboundsTypeOK
  PROVE  Serving \in [Domains -> Pairing]
<1>1. NoFile \in Pairing
  BY DEF NoFile, Pairing
<1>2. QED
  BY <1>1 DEF Serving, InboundsTypeOK, TableOK

Applied == \/ loaded' = Serving /\ UNCHANGED faults
           \/ faults' = faults + 1 /\ UNCHANGED loaded

LEMMA AppliedFits ==
  ASSUME InboundsTypeOK, Applied
  PROVE  loaded' \in [Domains -> Pairing] /\ faults' \in Nat
<1>1. faults \in Nat /\ loaded \in [Domains -> Pairing]
  BY DEF InboundsTypeOK, TableOK
<1>2. QED
  BY <1>1, ServingFits DEF Applied

LEMMA ApplyStep ==
  ASSUME InboundsTypeOK, NEW s \in Sources, ApplyAfterChange(s)
  PROVE  /\ At(s, "apply") /\ s \in Tabs /\ UNCHANGED <<db, files, reload, page, past, moves>> /\ Applied
         /\ \E q : Moves(s, q) /\ May(s, q) /\ q.pc \in {"delete", "idle"}
<1> DEFINE r == req[s]
<1>r. r \in Requests /\ Holds(r) /\ May(s, r) /\ r.pc = "apply"
  BY RequestFits DEF ApplyAfterChange, At
<1>t. s \in Tabs /\ At(s, "apply") /\ UNCHANGED <<db, files, reload, page, past, moves>> /\ Applied
  BY <1>r, OpenedByTabs DEF ApplyAfterChange, PassPcs, Issuing, Applied, Fault
<1>1. CASE To(s, "delete")
  <2>1. "delete" \in PassPcs \cup TabPcs
    BY DEF TabPcs
  <2>2. PICK q \in Requests : Moves(s, q) /\ q.pc = "delete" /\ q.hook = r.hook
    BY <1>1, <2>1, ToFits
  <2>3. Holds(q)
    BY <2>2 DEF Holds, Issuing
  <2>4. May(s, q)
    BY <1>r, <1>t, <2>2, <2>3, NamesApart DEF May, TabPcs
  <2>5. QED
    BY <1>t, <2>2, <2>4
<1>2. CASE End(s)
  <2>1. Moves(s, Idle) /\ May(s, Idle) /\ Idle.pc = "idle"
    BY <1>2, EndMoves, IdleFits
  <2>2. QED
    BY <1>t, <2>1
<1>3. QED
  BY <1>1, <1>2 DEF ApplyAfterChange

LEMMA IssueFits ==
  ASSUME InboundsTypeOK, NEW s \in Sources, NEW q \in Requests, q.pc \in Issuing, q.dom \in Domains, Holds(q),
         q.hook = req[s].hook
  PROVE  May(s, q)
<1>1. May(s, req[s])
  BY RequestFits
<1>2. QED
  BY <1>1, NamesApart DEF May, TabPcs, PassPcs, Issuing

LEMMA GetCertStep ==
  ASSUME InboundsTypeOK, NEW s \in Sources, GetCert(s)
  PROVE  /\ At(s, "getCert") /\ s \in Tabs /\ Still
         /\ \E q : Moves(s, q) /\ May(s, q) /\ q.pc \in {"idle", "obtain"}
<1> DEFINE r == req[s]
           rows == {c \in certs : c.id \in r.ids}
           row == Only(rows)
<1>r. r \in Requests /\ Holds(r) /\ May(s, r) /\ r.pc = "getCert"
  BY RequestFits DEF GetCert, At
<1>t. s \in Tabs /\ At(s, "getCert") /\ Still
  BY <1>r, OpenedByTabs DEF GetCert, Still, PassPcs, Issuing
<1>1. CASE rows = {}
  <2>1. Moves(s, Idle) /\ May(s, Idle) /\ Idle.pc = "idle"
    BY <1>1, EndMoves, IdleFits DEF GetCert
  <2>2. QED
    BY <1>t, <2>1
<1>2. CASE rows # {}
  <2>1. row \in certs
    BY <1>2, OnlyIn
  <2>2. row \in CertRows \cup {NoRow} /\ row.dom \in Domains
    BY <2>1 DEF InboundsTypeOK, TableOK, CertRows
  <2> DEFINE dom == row.dom
             q == [r EXCEPT !.pc = "obtain", !.dom = dom, !.row = row]
  <2>3. Moves(s, q)
    BY <1>2 DEF GetCert, Then, Moves
  <2>4. dom \in Domains \cup {"none"} /\ "obtain" \in PassPcs \cup TabPcs /\ dom \in Domains
    BY <2>2 DEF PassPcs, Issuing
  <2> HIDE DEF dom, row
  <2>5. q \in Requests /\ q.pc = "obtain" /\ q.dom = dom /\ q.hook = r.hook
    BY <1>r, <2>2, <2>4 DEF Requests
  <2> HIDE DEF q
  <2>6. Holds(q)
    BY <2>4, <2>5 DEF Holds
  <2>7. May(s, q)
    BY <2>4, <2>5, <2>6, IssueFits DEF Issuing
  <2>8. QED
    BY <1>t, <2>3, <2>5, <2>7
<1>3. QED
  BY <1>1, <1>2

LEMMA ObtainStep ==
  ASSUME InboundsTypeOK, NEW s \in Sources, Obtain(s)
  PROVE  /\ At(s, "obtain") /\ UNCHANGED <<db, disk, page, crossed, mixed, clashed, orphans, moves, faults>>
         /\ issued' \in Nat
         /\ \E q : /\ Moves(s, q) /\ May(s, q) /\ q.hook = req[s].hook
                   /\ \/ q.pc = "crt" /\ q.dom \in Domains /\ (q.replaced = findCert(q.dom).path)
                      \/ q.pc = "findFailed"
<1> DEFINE r == req[s]
<1>r. r \in Requests /\ Holds(r) /\ r.pc = "obtain" /\ r.dom \in Domains
  BY RequestFits DEF Obtain, At, Holds, Issuing
<1>u. At(s, "obtain") /\ UNCHANGED <<db, disk, page, crossed, mixed, clashed, orphans, moves, faults>>
  BY DEF Obtain
<1>n. issued \in Nat
  BY DEF InboundsTypeOK, TableOK
<1>1. CASE /\ issued' = issued + 1
           /\ Then(s, [r EXCEPT !.pc = "crt", !.gen = issued + 1, !.replaced = findCert(r.dom).path])
  <2> DEFINE gen == issued + 1
             replaced == findCert(r.dom).path
             q == [r EXCEPT !.pc = "crt", !.gen = gen, !.replaced = replaced]
  <2>1. Moves(s, q)
    BY <1>1 DEF Then, Moves
  <2>2. gen \in Nat /\ gen # 0 /\ issued' \in Nat
    BY <1>1, <1>n
  <2>3. replaced \in BOOLEAN
    <3>1. findCert(r.dom) \in CertRows \cup {NoRow}
      BY FoundFits DEF InboundsTypeOK, TableOK
    <3>2. NoRow.path \in BOOLEAN
      BY DEF NoRow
    <3>3. \A c \in CertRows : c.path \in BOOLEAN
      BY DEF CertRows
    <3>4. QED
      BY <3>1, <3>2, <3>3
  <2>4. "crt" \in PassPcs \cup TabPcs
    BY DEF PassPcs, Issuing
  <2> HIDE DEF gen, replaced
  <2>5. q \in Requests /\ q.pc = "crt" /\ q.dom = r.dom /\ q.hook = r.hook /\ q.gen = gen /\ q.replaced = replaced
    BY <1>r, <2>2, <2>3, <2>4 DEF Requests
  <2> HIDE DEF q
  <2>6. Holds(q)
    BY <1>r, <2>2, <2>5 DEF Holds
  <2>7. May(s, q)
    BY <1>r, <2>5, <2>6, IssueFits DEF Issuing
  <2>8. q.replaced = findCert(q.dom).path
    BY <2>5 DEF replaced
  <2>9. q.dom \in Domains
    BY <1>r, <2>5
  <2>10. QED
    BY <1>u, <2>1, <2>2, <2>5, <2>7, <2>8, <2>9
<1>2. CASE To(s, "findFailed") /\ UNCHANGED issued
  <2>1. "findFailed" \in PassPcs \cup TabPcs
    BY DEF PassPcs, Issuing
  <2>2. PICK q \in Requests : Moves(s, q) /\ q.pc = "findFailed" /\ q.dom = r.dom /\ q.hook = r.hook
    BY <1>2, <2>1, ToFits
  <2>3. Holds(q)
    BY <1>r, <2>2 DEF Holds
  <2>4. May(s, q)
    BY <1>r, <2>2, <2>3, IssueFits DEF Issuing
  <2>5. issued' \in Nat
    BY <1>2, <1>n
  <2>6. QED
    BY <1>u, <2>2, <2>4, <2>5
<1>3. QED
  BY <1>1, <1>2 DEF Obtain

\* What is owed when an issuance is over: the hook, or that of the pass.
Pays(s, q, b) == /\ reload' \in BOOLEAN /\ (reload => reload')
                 /\ s \in Tabs => (b => reload')
                 /\ s = "sched" => (req[s].hook \/ b => q.hook)

LEMMA FinishStep ==
  ASSUME InboundsTypeOK, NEW s \in Sources, NEW b \in BOOLEAN, Finish(s, b)
  PROVE  \E q : Moves(s, q) /\ May(s, q) /\ q.pc \in {"idle", "pass"} /\ Pays(s, q, b)
<1> DEFINE r == req[s]
<1>r. r \in Requests /\ r.ids \in SUBSET Nat /\ r.hook \in BOOLEAN /\ Holds(r)
  BY RequestFits
<1>b. reload \in BOOLEAN
  BY DEF InboundsTypeOK, TableOK
<1>1. CASE s = "sched"
  <2> DEFINE hook == r.hook \/ b
             ids == r.ids
             q == [Idle EXCEPT !.op = "pass", !.pc = "pass", !.ids = ids, !.hook = hook]
  <2>1. Moves(s, q) /\ UNCHANGED reload
    BY <1>1 DEF Finish, Then, Moves
  <2>2. hook \in BOOLEAN /\ ids \in SUBSET Nat /\ "pass" \in PassPcs \cup TabPcs /\ "pass" \in Ops
    BY <1>r DEF PassPcs, Ops
  <2>o. (r.hook \/ b) => hook
    OBVIOUS
  <2> HIDE DEF hook, ids
  <2>i. Idle \in Requests
    BY IdleFits
  <2>3. q \in Requests /\ q.pc = "pass" /\ q.hook = hook
    BY <2>2, <2>i DEF Requests
  <2> HIDE DEF q
  <2>4. Holds(q)
    BY <2>3 DEF Holds, Issuing
  <2>5. May(s, q)
    BY <1>1, <2>3, <2>4, NamesApart DEF May, PassPcs
  <2>6. Pays(s, q, b)
    BY <1>1, <1>b, <2>1, <2>3, <2>o, NamesApart DEF Pays
  <2>7. QED
    BY <2>1, <2>3, <2>5, <2>6
<1>2. CASE s # "sched"
  <2>1. Moves(s, Idle) /\ May(s, Idle) /\ Idle.pc = "idle"
    BY <1>2, EndMoves, IdleFits DEF Finish
  <2>2. reload' = (reload \/ b)
    BY <1>2 DEF Finish
  <2>3. Pays(s, Idle, b)
    BY <1>2, <1>b, <2>2 DEF Pays
  <2>4. QED
    BY <2>1, <2>3
<1>3. QED
  BY <1>1, <1>2

\* One of the two files, or a fault.
FileWritten(s, q, field, next) ==
  /\ files' = [files EXCEPT ![req[s].dom][field] = req[s].gen] /\ UNCHANGED <<reload, faults>>
  /\ q.pc = next /\ q.dom = req[s].dom /\ q.gen = req[s].gen
  /\ q.replaced = req[s].replaced /\ q.hook = req[s].hook
FileFailed(s, q) == UNCHANGED files /\ faults' = faults + 1 /\ q.pc \in {"idle", "pass"} /\ Pays(s, q, FALSE)

LEMMA FileStep ==
  ASSUME InboundsTypeOK, NEW s \in Sources, NEW at \in {"crt", "key"}, NEW next \in {"key", "findCert"},
         NEW field \in {"crt", "key"}, WriteFile(s, at, field, next)
  PROVE  /\ At(s, at) /\ UNCHANGED <<db, loaded, page, issued, crossed, clashed, orphans, moves>>
         /\ req[s].dom \in Domains /\ req[s].gen \in Nat \ {0}
         /\ mixed' = (mixed \/ \E u \in Sources \ {s} : req[u].dom = req[s].dom /\ req[u].pc \in {"crt", "key"})
         /\ \E q : /\ Moves(s, q) /\ May(s, q)
                   /\ FileWritten(s, q, field, next) \/ FileFailed(s, q)
<1> DEFINE r == req[s]
<1>r. r \in Requests /\ Holds(r) /\ r.pc = at /\ r.dom \in Domains /\ r.gen \in Nat /\ r.gen # 0
  BY RequestFits DEF WriteFile, At, Holds, Issuing
<1>u. /\ At(s, at) /\ UNCHANGED <<db, loaded, page, issued, crossed, clashed, orphans, moves>>
      /\ mixed' = (mixed \/ \E u \in Sources \ {s} : req[u].dom = r.dom /\ req[u].pc \in {"crt", "key"})
  BY DEF WriteFile
<1>1. CASE files' = [files EXCEPT ![r.dom][field] = r.gen] /\ To(s, next) /\ UNCHANGED <<reload, faults>>
  <2>1. next \in PassPcs \cup TabPcs
    BY DEF PassPcs, Issuing
  <2>2. PICK q \in Requests : /\ Moves(s, q) /\ q.pc = next /\ q.dom = r.dom /\ q.gen = r.gen
                              /\ q.replaced = r.replaced /\ q.hook = r.hook
    BY <1>1, <2>1, ToFits
  <2>3. Holds(q)
    BY <1>r, <2>2 DEF Holds
  <2>4. May(s, q)
    BY <1>r, <2>2, <2>3, IssueFits DEF Issuing
  <2>5. FileWritten(s, q, field, next)
    BY <1>1, <2>2 DEF FileWritten
  <2>6. QED
    BY <1>r, <1>u, <2>2, <2>4, <2>5
<1>2. CASE Fault /\ Finish(s, FALSE) /\ UNCHANGED files
  <2>1. PICK q : Moves(s, q) /\ May(s, q) /\ q.pc \in {"idle", "pass"} /\ Pays(s, q, FALSE)
    BY <1>2, FinishStep
  <2>2. FileFailed(s, q)
    BY <1>2, <2>1 DEF Fault, FileFailed
  <2>3. QED
    BY <1>r, <1>u, <2>1, <2>2
<1>3. QED
  BY <1>1, <1>2 DEF WriteFile

LEMMA WriteStepFits ==
  ASSUME InboundsTypeOK, NEW d \in Domains, NEW field \in {"crt", "key"}, NEW g \in Nat,
         files' = [files EXCEPT ![d][field] = g]
  PROVE  /\ files' \in [Domains -> Pairing]
         /\ \A e \in Domains : e # d => files'[e] = files[e]
         /\ field = "crt" => files'[d].crt = g /\ files'[d].key = files[d].key
         /\ field = "key" => files'[d].key = g /\ files'[d].crt = files[d].crt
<1>1. files \in [Domains -> Pairing] /\ files[d] \in Pairing
  BY DEF InboundsTypeOK, TableOK
<1> DEFINE p == [files[d] EXCEPT ![field] = g]
<1>2. files' = [files EXCEPT ![d] = p]
  OBVIOUS
<1>3. /\ p \in Pairing
      /\ field = "crt" => p.crt = g /\ p.key = files[d].key
      /\ field = "key" => p.key = g /\ p.crt = files[d].crt
  BY <1>1 DEF Pairing
<1> HIDE DEF p
<1>4. QED
  BY <1>1, <1>2, <1>3

LEMMA FindRowStep ==
  ASSUME InboundsTypeOK, NEW s \in Sources, FindRow(s)
  PROVE  /\ Still /\ req[s].dom \in Domains
         /\ \E q : /\ Moves(s, q) /\ May(s, q) /\ q.row = findCert(q.dom) /\ q.dom = req[s].dom
                   /\ q.replaced = req[s].replaced /\ q.hook = req[s].hook
                   /\ \/ At(s, "findCert") /\ q.pc = "saveCert"
                      \/ At(s, "findFailed") /\ q.pc = "saveFailed"
<1> DEFINE r == req[s]
           row == findCert(r.dom)
<1>r. r \in Requests /\ Holds(r)
  BY RequestFits
<1>w. row \in CertRows \cup {NoRow} /\ (row = NoRow \/ row.dom = r.dom)
  BY FoundFits DEF InboundsTypeOK, TableOK
<1>1. ASSUME NEW at \in {"findCert", "findFailed"}, NEW next \in {"saveCert", "saveFailed"},
             at = "findFailed" => next = "saveFailed", At(s, at), Then(s, [r EXCEPT !.pc = next, !.row = row])
      PROVE  /\ r.dom \in Domains
             /\ \E q : /\ Moves(s, q) /\ May(s, q) /\ q.row = findCert(q.dom) /\ q.dom = req[s].dom
                       /\ q.replaced = req[s].replaced /\ q.hook = req[s].hook /\ q.pc = next
  <2> DEFINE q == [r EXCEPT !.pc = next, !.row = row]
  <2>1. Moves(s, q)
    BY <1>1 DEF Then, Moves
  <2>2. next \in PassPcs \cup TabPcs
    BY DEF PassPcs, Issuing
  <2>d. r.dom \in Domains
    BY <1>r, <1>1 DEF Holds, At, Issuing
  <2>g. next = "saveCert" => r.gen # 0
    BY <1>r, <1>1 DEF Holds, At
  <2> HIDE DEF row
  <2>3. /\ q \in Requests /\ q.pc = next /\ q.row = row /\ q.dom = r.dom /\ q.gen = r.gen
        /\ q.replaced = r.replaced /\ q.hook = r.hook
    BY <1>r, <1>w, <2>2 DEF Requests
  <2> HIDE DEF q
  <2>4. Holds(q)
    BY <1>w, <2>3, <2>d, <2>g DEF Holds, Issuing
  <2>5. May(s, q)
    BY <2>3, <2>4, <2>d, IssueFits DEF Issuing
  <2>6. q.row = findCert(q.dom)
    BY <2>3 DEF row
  <2>7. QED
    BY <2>1, <2>3, <2>5, <2>6, <2>d
<1>2. Still
  BY DEF FindRow, Still
<1>3. CASE At(s, "findCert") /\ Then(s, [r EXCEPT !.pc = "saveCert", !.row = row])
  <2>1. /\ r.dom \in Domains
        /\ \E q : /\ Moves(s, q) /\ May(s, q) /\ q.row = findCert(q.dom) /\ q.dom = req[s].dom
                  /\ q.replaced = req[s].replaced /\ q.hook = req[s].hook /\ q.pc = "saveCert"
    BY <1>1, <1>3
  <2>2. QED
    BY <1>2, <1>3, <2>1
<1>4. CASE At(s, "findFailed") /\ Then(s, [r EXCEPT !.pc = "saveFailed", !.row = row])
  <2>1. /\ r.dom \in Domains
        /\ \E q : /\ Moves(s, q) /\ May(s, q) /\ q.row = findCert(q.dom) /\ q.dom = req[s].dom
                  /\ q.replaced = req[s].replaced /\ q.hook = req[s].hook /\ q.pc = "saveFailed"
    BY <1>1, <1>4
  <2>2. QED
    BY <1>2, <1>4, <2>1
<1>5. QED
  BY <1>3, <1>4 DEF FindRow

\* The row that a request writes: the one it holds, or a new one.
Wrote(s, w) ==
  LET r == req[s] IN
  /\ w \in CertRows
  /\ \/ ~Held(r) /\ r.pc # "saveAuto" /\ w.id = nextCert /\ w.dom = r.dom /\ w.auto = TRUE
     \/ Held(r) /\ w.id = r.row.id /\ w.dom = r.row.dom /\ (r.pc # "saveAuto" => w.auto = r.row.auto)

\* A row with some fields changed.
LEMMA RowFits ==
  ASSUME NEW c \in CertRows, NEW path \in BOOLEAN, NEW due \in BOOLEAN
  PROVE  /\ LET w == [c EXCEPT !.path = path, !.due = due] IN
              w \in CertRows /\ w.id = c.id /\ w.dom = c.dom /\ w.auto = c.auto /\ w.path = path
         /\ LET w == [c EXCEPT !.due = due] IN
              w \in CertRows /\ w.id = c.id /\ w.dom = c.dom /\ w.auto = c.auto /\ w.path = c.path
BY DEF CertRows

LEMMA AutoFits ==
  ASSUME NEW c \in CertRows, NEW auto \in BOOLEAN
  PROVE  LET w == [c EXCEPT !.auto = auto] IN
           w \in CertRows /\ w.id = c.id /\ w.dom = c.dom /\ w.auto = auto /\ w.path = c.path
BY DEF CertRows

LEMMA NewRowFits ==
  ASSUME NEW n \in Nat, NEW d \in Domains
  PROVE  LET w == [NoRow EXCEPT !.id = n, !.dom = d] IN
           w \in CertRows /\ w.id = n /\ w.dom = d /\ w.auto = TRUE /\ w.path = FALSE
BY DEF CertRows, NoRow

LEMMA NextFits ==
  ASSUME InboundsTypeOK, NEW s, NEW w \in CertRows, Saved(s, w)
  PROVE  certs' \in SUBSET CertRows /\ nextCert' \in Nat \ {0} /\ nextCert' >= nextCert /\ nextCert' > w.id
         /\ (w.id < nextCert => nextCert' = nextCert) /\ clashed \subseteq clashed'
<1>1. nextCert \in Nat \ {0} /\ w.id \in Nat /\ certs \subseteq CertRows
  BY DEF InboundsTypeOK, TableOK, CertRows
<1> DEFINE m == Max({nextCert, w.id + 1})
<1>2. m \in Nat \ {0} /\ m >= nextCert /\ m > w.id /\ m \in {nextCert, w.id + 1}
  BY <1>1, NewerFits
<1>3. nextCert' = m /\ certs' \subseteq CertRows
  BY <1>1 DEF Saved
<1> HIDE DEF m
<1>4. clashed \subseteq clashed'
  BY DEF Saved
<1>5. w.id < nextCert => m = nextCert
  BY <1>1, <1>2
<1>6. QED
  BY <1>2, <1>3, <1>4, <1>5

\* The row that an issuance writes, before what it changes in it.
LEMMA NewOrHeld ==
  ASSUME InboundsTypeOK, NEW s \in Sources, req[s].pc \in {"saveCert", "saveFailed"}
  PROVE  LET r == req[s]
             new == IF r.row.id = 0 THEN [NoRow EXCEPT !.id = nextCert, !.dom = r.dom] ELSE r.row
         IN /\ Wrote(s, new) /\ r.dom \in Domains /\ new.dom = r.dom
            /\ (r.row.id = 0 => new.path = FALSE) /\ (r.row.id # 0 => new.path = r.row.path)
<1> DEFINE r == req[s]
<1>r. r \in Requests /\ Holds(r) /\ r.row \in CertRows \cup {NoRow}
  BY RequestFits
<1>d. r.dom \in Domains /\ (r.row = NoRow \/ r.row.dom = r.dom)
  BY <1>r DEF Holds, Issuing
<1>n. nextCert \in Nat
  BY DEF InboundsTypeOK, TableOK
<1>1. CASE r.row.id = 0
  <2> DEFINE w == [NoRow EXCEPT !.id = nextCert, !.dom = r.dom]
  <2>1. w \in CertRows /\ w.id = nextCert /\ w.dom = r.dom /\ w.auto = TRUE /\ w.path = FALSE
    BY <1>d, <1>n, NewRowFits
  <2> HIDE DEF w
  <2>2. Wrote(s, w)
    BY <1>1, <2>1 DEF Wrote, Held
  <2>3. QED
    BY <1>1, <1>d, <2>1, <2>2 DEF w
<1>2. CASE r.row.id # 0
  <2>1. r.row # NoRow
    BY <1>2 DEF NoRow
  <2>2. r.row \in CertRows /\ r.row.dom = r.dom
    BY <1>r, <1>d, <2>1
  <2>3. Wrote(s, r.row)
    BY <1>2, <2>2 DEF Wrote, Held, Saving
  <2>4. QED
    BY <1>2, <1>d, <2>2, <2>3
<1>3. QED
  BY <1>1, <1>2

LEMMA SaveCertStep ==
  ASSUME InboundsTypeOK, NEW s \in Sources, SaveCert(s)
  PROVE  /\ At(s, "saveCert") /\ UNCHANGED <<inbounds, files, loaded, page, issued, mixed, orphans, moves>>
         /\ \E w : /\ Wrote(s, w) /\ w.path = TRUE /\ w.dom = req[s].dom /\ Writes(s, w.id)
                   /\ \/ Saved(s, w) /\ UNCHANGED faults
                      \/ faults' = faults + 1 /\ UNCHANGED <<certs, nextCert, clashed>>
         /\ \E q : Moves(s, q) /\ May(s, q) /\ q.pc \in {"idle", "pass"} /\ Pays(s, q, req[s].replaced)
<1> DEFINE r == req[s]
           new == IF r.row.id = 0 THEN [NoRow EXCEPT !.id = nextCert, !.dom = r.dom] ELSE r.row
           w == [new EXCEPT !.path = TRUE, !.due = FALSE]
<1>a. At(s, "saveCert") /\ r.pc = "saveCert"
  BY DEF SaveCert, At
<1>1. Wrote(s, new) /\ new.dom = r.dom
  BY <1>a, NewOrHeld
<1>2. /\ \/ Saved(s, w) /\ UNCHANGED faults
         \/ Fault /\ UNCHANGED <<certs, nextCert, clashed>>
      /\ Writes(s, new.id) /\ Finish(s, r.replaced)
      /\ UNCHANGED <<inbounds, files, loaded, page, issued, mixed, orphans, moves>>
  BY DEF SaveCert, Reloads
<1> HIDE DEF new
<1>3. new \in CertRows
  BY <1>1 DEF Wrote
<1>4. w \in CertRows /\ w.id = new.id /\ w.dom = new.dom /\ w.auto = new.auto /\ w.path = TRUE
  BY <1>3, RowFits
<1> HIDE DEF w
<1>5. Wrote(s, w) /\ Writes(s, w.id) /\ w.dom = r.dom
  BY <1>1, <1>2, <1>4 DEF Wrote
<1>6. \/ Saved(s, w) /\ UNCHANGED faults
      \/ faults' = faults + 1 /\ UNCHANGED <<certs, nextCert, clashed>>
  BY <1>2 DEF Fault
<1>7. r.replaced \in BOOLEAN
  BY RequestFits
<1>8. \E q : Moves(s, q) /\ May(s, q) /\ q.pc \in {"idle", "pass"} /\ Pays(s, q, r.replaced)
  BY <1>2, <1>7, FinishStep
<1>9. UNCHANGED <<inbounds, files, loaded, page, issued, mixed, orphans, moves>>
  BY <1>2
<1>10. QED
  BY <1>a, <1>4, <1>5, <1>6, <1>8, <1>9

LEMMA RecordFailureStep ==
  ASSUME InboundsTypeOK, NEW s \in Sources, RecordFailure(s)
  PROVE  /\ At(s, "saveFailed") /\ UNCHANGED <<inbounds, files, loaded, page, issued, mixed, orphans, moves, faults>>
         /\ \E w : /\ Wrote(s, w) /\ Writes(s, w.id) /\ Saved(s, w)
                   /\ (w.path => Held(req[s]) /\ req[s].row.path)
                   /\ (Held(req[s]) => w.path = req[s].row.path)
         /\ \E q : Moves(s, q) /\ May(s, q) /\ q.pc \in {"idle", "pass"} /\ Pays(s, q, FALSE)
<1> DEFINE r == req[s]
           new == IF r.row.id = 0 THEN [NoRow EXCEPT !.id = nextCert, !.dom = r.dom] ELSE r.row
<1>a. At(s, "saveFailed") /\ r.pc = "saveFailed"
  BY DEF RecordFailure, At
<1>1. Wrote(s, new) /\ (r.row.id = 0 => new.path = FALSE) /\ (r.row.id # 0 => new.path = r.row.path)
  BY <1>a, NewOrHeld
<1>2. /\ Saved(s, new) /\ Writes(s, new.id) /\ Finish(s, FALSE)
      /\ UNCHANGED <<inbounds, files, loaded, page, issued, mixed, orphans, moves, faults>>
  BY DEF RecordFailure
<1> HIDE DEF new
<1>3. \E q : Moves(s, q) /\ May(s, q) /\ q.pc \in {"idle", "pass"} /\ Pays(s, q, FALSE)
  BY <1>2, FinishStep
<1>4. (new.path => Held(r) /\ r.row.path) /\ (Held(r) => new.path = r.row.path)
  BY <1>1, <1>a DEF Held, Saving
<1>5. QED
  BY <1>a, <1>1, <1>2, <1>3, <1>4

LEMMA FindAutoStep ==
  ASSUME InboundsTypeOK, NEW s \in Sources, SetCertAutoRenew(s), At(s, "findAuto")
  PROVE  /\ s \in Tabs /\ Still
         /\ \E q : Moves(s, q) /\ May(s, q) /\ (q = Idle \/ (q.pc = "saveAuto" /\ q.row \in certs))
<1> DEFINE r == req[s]
           rows == {c \in certs : c.id \in r.ids}
           row == Only(rows)
<1>r. r \in Requests /\ Holds(r) /\ May(s, r) /\ r.pc = "findAuto"
  BY RequestFits DEF At
<1>u. /\ IF rows = {} THEN End(s) ELSE Then(s, [r EXCEPT !.pc = "saveAuto", !.row = row])
      /\ Still
  BY <1>r DEF SetCertAutoRenew, Still, At
<1>t. s \in Tabs
  BY <1>r, OpenedByTabs DEF PassPcs, Issuing
<1>1. CASE rows = {}
  BY <1>1, <1>t, <1>u, EndMoves
<1>2. CASE rows # {}
  <2>1. row \in certs /\ row \in CertRows
    BY <1>2, OnlyIn DEF InboundsTypeOK, TableOK
  <2> DEFINE q == [r EXCEPT !.pc = "saveAuto", !.row = row]
  <2>2. Moves(s, q)
    BY <1>2, <1>u DEF Then, Moves
  <2>3. "saveAuto" \in PassPcs \cup TabPcs
    BY DEF TabPcs
  <2> HIDE DEF row
  <2>4. q \in Requests /\ q.pc = "saveAuto" /\ q.row = row /\ q.hook = r.hook
    BY <1>r, <2>1, <2>3 DEF Requests
  <2> HIDE DEF q
  <2>5. Holds(q)
    BY <2>1, <2>4 DEF Holds, Issuing
  <2>6. May(s, q)
    BY <1>r, <1>t, <2>4, <2>5, NamesApart DEF May, TabPcs
  <2>7. QED
    BY <1>t, <1>u, <2>1, <2>2, <2>4, <2>6
<1>3. QED
  BY <1>1, <1>2

LEMMA SaveAutoStep ==
  ASSUME InboundsTypeOK, NEW s \in Sources, SetCertAutoRenew(s), At(s, "saveAuto"), req[s].row.id # 0
  PROVE  /\ s \in Tabs /\ UNCHANGED <<inbounds, disk, page, issued, mixed, orphans, moves, faults>>
         /\ Moves(s, Idle) /\ May(s, Idle) /\ Held(req[s])
         /\ \E w : Wrote(s, w) /\ Writes(s, w.id) /\ Saved(s, w) /\ w.path = req[s].row.path /\ w.auto = req[s].on
<1> DEFINE r == req[s]
           on == r.on
           w == [r.row EXCEPT !.auto = on]
<1>r. r \in Requests /\ Holds(r) /\ r.pc = "saveAuto" /\ on \in BOOLEAN
  BY RequestFits DEF At
<1>w. r.row \in CertRows /\ Held(r)
  BY <1>r DEF Holds, Held, Saving
<1>u. /\ Saved(s, w) /\ Writes(s, r.row.id) /\ End(s)
      /\ UNCHANGED <<inbounds, disk, page, issued, mixed, orphans, moves, faults>>
  BY <1>r DEF SetCertAutoRenew, At
<1>t. s \in Tabs
  BY <1>r, OpenedByTabs DEF PassPcs, Issuing
<1> HIDE DEF on
<1>1. w \in CertRows /\ w.id = r.row.id /\ w.dom = r.row.dom /\ w.auto = on /\ w.path = r.row.path
  BY <1>r, <1>w, AutoFits
<1> HIDE DEF w
<1>2. Wrote(s, w) /\ Writes(s, w.id)
  BY <1>1, <1>u, <1>w, <1>r DEF Wrote
<1>3. Moves(s, Idle) /\ May(s, Idle)
  BY <1>u, EndMoves
<1>4. w.auto = r.on
  BY <1>1 DEF on
<1>5. QED
  BY <1>t, <1>u, <1>w, <1>1, <1>2, <1>3, <1>4

LEMMA DeleteCertStep ==
  ASSUME InboundsTypeOK, NEW s \in Sources, DeleteCert(s)
  PROVE  /\ At(s, "deleteCert") /\ s \in Tabs
         /\ UNCHANGED <<inbounds, nextCert, disk, page, issued, crossed, mixed, clashed, moves, faults>>
         /\ certs' \subseteq certs
         /\ \A c \in certs : c \in certs' \/ ~c.path \/ c.dom \in orphans'
         /\ orphans \subseteq orphans'
         /\ Moves(s, Idle) /\ May(s, Idle)
<1>1. s \in Tabs /\ At(s, "deleteCert")
  BY RequestFits, OpenedByTabs DEF DeleteCert, At, PassPcs, Issuing
<1>2. Moves(s, Idle) /\ May(s, Idle)
  BY EndMoves DEF DeleteCert
<1>3. QED
  BY <1>1, <1>2 DEF DeleteCert

LEMMA StartPassStep ==
  ASSUME InboundsTypeOK, StartPass
  PROVE  /\ req["sched"] = Idle /\ Kept /\ moves' \in Nat
         /\ \E q : Moves("sched", q) /\ May("sched", q) /\ q.pc = "pass"
<1> DEFINE ids == {c.id : c \in {x \in certs : x.auto /\ x.due}}
           q == [Idle EXCEPT !.op = "pass", !.pc = "pass", !.ids = ids]
<1>1. Moves("sched", q) /\ req["sched"] = Idle /\ Kept /\ moves' \in Nat
  BY DEF StartPass, Move, Moves, Kept, InboundsTypeOK, TableOK
<1>2. ids \in SUBSET Nat /\ "pass" \in PassPcs \cup TabPcs /\ "pass" \in Ops
  BY DEF InboundsTypeOK, TableOK, CertRows, PassPcs, Ops
<1> HIDE DEF ids
<1>i. Idle \in Requests
  BY IdleFits
<1>3. q \in Requests /\ q.pc = "pass"
  BY <1>2, <1>i DEF Requests
<1> HIDE DEF q
<1>4. Holds(q)
  BY <1>3 DEF Holds, Issuing
<1>5. May("sched", q)
  BY <1>3, <1>4, NamesApart DEF May, PassPcs
<1>6. QED
  BY <1>1, <1>3, <1>5

LEMMA PassNextStep ==
  ASSUME InboundsTypeOK, PassNext
  PROVE  /\ At("sched", "pass") /\ UNCHANGED <<db, files, loaded, page, past, moves, faults>>
         /\ \E q : /\ Moves("sched", q) /\ May("sched", q)
                   /\ \/ q = Idle /\ reload' = (reload \/ req["sched"].hook)
                      \/ q.pc \in {"pass", "obtain"} /\ q.hook = req["sched"].hook /\ reload' = reload
<1> DEFINE r == req["sched"]
<1>s. "sched" \in Sources
  BY NamesApart
<1>r. r \in Requests /\ Holds(r) /\ May("sched", r) /\ r.ids \in SUBSET Nat /\ r.pc = "pass"
  BY <1>s, RequestFits DEF PassNext, At
<1>u. At("sched", "pass") /\ UNCHANGED <<db, files, loaded, page, past, moves, faults>>
  BY DEF PassNext
<1>1. CASE r.ids = {}
  <2>1. Moves("sched", Idle) /\ May("sched", Idle) /\ reload' = (reload \/ r.hook)
    BY <1>1, <1>s, EndMoves DEF PassNext
  <2>2. QED
    BY <1>u, <2>1
<1>2. CASE r.ids # {}
  <2> DEFINE Next1(id, rows) == IF rows = {} THEN [r EXCEPT !.ids = @ \ {id}]
                                ELSE [r EXCEPT !.ids = @ \ {id}, !.pc = "obtain",
                                               !.dom = Only(rows).dom, !.row = Only(rows)]
  <2>1. PICK id \in r.ids : /\ Then("sched", Next1(id, {c \in certs : c.id = id}))
                            /\ UNCHANGED reload
    BY <1>2 DEF PassNext
  <2> DEFINE rest == r.ids \ {id}
             rows == {c \in certs : c.id = id}
  <2>2. rest \in SUBSET Nat
    BY <1>r
  <2>3. CASE rows = {}
    <3> DEFINE q == [r EXCEPT !.ids = rest]
    <3>1. Moves("sched", q)
      BY <2>1, <2>3 DEF Then, Moves
    <3> HIDE DEF rest
    <3>2. q \in Requests /\ q.pc = "pass" /\ q.hook = r.hook
      BY <1>r, <2>2 DEF Requests
    <3> HIDE DEF q
    <3>3. Holds(q)
      BY <3>2 DEF Holds, Issuing
    <3>4. May("sched", q)
      BY <3>2, <3>3, NamesApart DEF May, PassPcs
    <3>5. QED
      BY <1>u, <2>1, <3>1, <3>2, <3>4
  <2>4. CASE rows # {}
    <3> DEFINE row == Only(rows)
               dom == row.dom
               q == [r EXCEPT !.ids = rest, !.pc = "obtain", !.dom = dom, !.row = row]
    <3>1. Moves("sched", q)
      BY <2>1, <2>4 DEF Then, Moves
    <3>2. row \in CertRows \cup {NoRow} /\ dom \in Domains \cup {"none"} /\ dom \in Domains
      <4>1. row \in certs
        BY <2>4, OnlyIn
      <4>2. QED
        BY <4>1 DEF InboundsTypeOK, TableOK, CertRows
    <3>3. "obtain" \in PassPcs \cup TabPcs
      BY DEF PassPcs, Issuing
    <3> HIDE DEF rest, row, dom
    <3>4. q \in Requests /\ q.pc = "obtain" /\ q.hook = r.hook /\ q.dom = dom
      BY <1>r, <2>2, <3>2, <3>3 DEF Requests
    <3> HIDE DEF q
    <3>5. Holds(q)
      BY <3>2, <3>4 DEF Holds
    <3>6. May("sched", q)
      BY <1>s, <3>2, <3>4, <3>5, IssueFits DEF Issuing
    <3>7. QED
      BY <1>u, <2>1, <3>1, <3>4, <3>6
  <2>5. QED
    BY <2>3, <2>4
<1>3. QED
  BY <1>1, <1>2

LEMMA HookStep ==
  ASSUME InboundsTypeOK, OnReplaced
  PROVE  /\ reload /\ reload' = FALSE /\ Applied /\ UNCHANGED <<db, files, page, req, past, moves>>
BY DEF OnReplaced, Applied, Fault

LEMMA FallDueStep ==
  ASSUME InboundsTypeOK, FallDue
  PROVE  /\ UNCHANGED <<inbounds, nextCert, disk, page, req, past, faults>> /\ moves' \in Nat
         /\ \E c \in certs, w \in CertRows :
              /\ certs' = (certs \ {c}) \cup {w}
              /\ w.id = c.id /\ w.dom = c.dom /\ w.path = c.path /\ w.auto = c.auto
<1>1. PICK c \in certs : certs' = (certs \ {c}) \cup {[c EXCEPT !.due = TRUE]}
  BY DEF FallDue
<1> DEFINE w == [c EXCEPT !.due = TRUE]
<1>2. c \in CertRows
  BY DEF InboundsTypeOK, TableOK
<1>3. w \in CertRows /\ w.id = c.id /\ w.dom = c.dom /\ w.path = c.path /\ w.auto = c.auto
  BY <1>2, RowFits
<1>4. UNCHANGED <<inbounds, nextCert, disk, page, req, past, faults>> /\ moves' \in Nat
  BY DEF FallDue, Move, InboundsTypeOK, TableOK
<1>5. certs' = (certs \ {c}) \cup {w}
  BY <1>1
<1> HIDE DEF w
<1>6. QED
  BY <1>3, <1>4, <1>5

(***************************************************************************)
(* Types                                                                   *)
(***************************************************************************)
LEMMA ShownFits ==
  ASSUME inbounds \subseteq Inbs, certs \subseteq CertRows
  PROVE  Shown \in Views
<1>1. ASSUME NEW ib \in inbounds, NEW d, d = inboundCertDomain(ib)
      PROVE  [ib EXCEPT !.cert = d] \in Offered
  <2>1. ib \in Inbs /\ ib.cert \in Names
    BY DEF Inbs
  <2>2. d \in Names \cup {"keep"}
    BY <1>1, <2>1 DEF inboundCertDomain
  <2>3. QED
    BY <2>1, <2>2 DEF Inbs, Offered
<1> DEFINE ins == {[ib EXCEPT !.cert = inboundCertDomain(ib)] : ib \in inbounds}
<1>2. ins \in SUBSET Offered
  BY <1>1
<1>3. Shown = [ins |-> ins, certs |-> certs]
  BY DEF Shown
<1> HIDE DEF ins
<1>4. QED
  BY <1>2, <1>3 DEF Views

\* A step that moves one request, the tables being what they should be.
LEMMA TypesAfter ==
  ASSUME InboundsTypeOK, NEW s \in Sources, NEW q, Moves(s, q), May(s, q), TableOK'
  PROVE  InboundsTypeOK'
BY MovesFit DEF InboundsTypeOK

LEMMA TypesKept ==
  ASSUME InboundsTypeOK, TableOK', UNCHANGED req
  PROVE  InboundsTypeOK'
BY DEF InboundsTypeOK, RequestsOK

LEMMA TablesStill == ASSUME InboundsTypeOK, Still PROVE TableOK'
BY DEF InboundsTypeOK, TableOK, Still, db, disk, past

LEMMA TablesSaved ==
  ASSUME InboundsTypeOK, NEW s \in Sources, NEW w, Wrote(s, w), Saved(s, w), Writes(s, w.id), reload' \in BOOLEAN,
         UNCHANGED <<inbounds, files, loaded, page, issued, mixed, orphans, moves, faults>>
  PROVE  TableOK'
<1>1. certs' \in SUBSET CertRows /\ nextCert' \in Nat \ {0}
  BY NextFits DEF Wrote
<1>2. crossed' \in BOOLEAN
  BY DEF Writes, InboundsTypeOK, TableOK
<1>3. QED
  BY <1>1, <1>2 DEF InboundsTypeOK, TableOK

LEMMA RequestTypes ==
  ASSUME InboundsTypeOK, NEW s \in Sources, Serve(s), req[s].pc = "saveAuto" => req[s].row.id # 0
  PROVE  InboundsTypeOK'
<1>k. TableOK
  BY DEF InboundsTypeOK
<1>1. CASE ReadInbound(s)
  BY <1>1, ReadStep, TablesStill, TypesAfter
<1>2. CASE WriteInbound(s)
  <2>1. PICK row \in Inbs, q \in {x \in Requests : May(s, x)} :
          Moves(s, q) /\ (inbounds' = inbounds \/ inbounds' = {ib \in inbounds : ib.id # row.id} \cup {row})
    BY <1>2, WriteStep DEF May
  <2>2. UNCHANGED <<certs, nextCert, disk, page, past, moves, faults>>
    BY <1>2, WriteStep
  <2>3. inbounds' \subseteq Inbs
    BY <1>k, <2>1 DEF TableOK
  <2>4. TableOK'
    BY <1>k, <2>2, <2>3 DEF TableOK, disk, past
  <2>5. QED
    BY <2>1, <2>4, TypesAfter
<1>3. CASE DeleteInbound(s)
  <2>1. /\ UNCHANGED <<certs, nextCert, disk, page, past, moves, faults>> /\ inbounds' \subseteq inbounds
        /\ \E q : Moves(s, q) /\ May(s, q)
    BY <1>3, DeleteStep
  <2>2. TableOK'
    BY <1>k, <2>1 DEF TableOK, disk, past
  <2>3. QED
    BY <2>1, <2>2, TypesAfter
<1>4. CASE ApplyAfterChange(s)
  <2>1. /\ UNCHANGED <<db, files, reload, page, past, moves>> /\ Applied
        /\ \E q : Moves(s, q) /\ May(s, q)
    BY <1>4, ApplyStep
  <2>2. TableOK'
    BY <1>k, <2>1, AppliedFits DEF TableOK, db, past
  <2>3. QED
    BY <2>1, <2>2, TypesAfter
<1>5. CASE GetCert(s)
  BY <1>5, GetCertStep, TablesStill, TypesAfter
<1>6. CASE Obtain(s)
  <2>1. /\ UNCHANGED <<db, disk, page, crossed, mixed, clashed, orphans, moves, faults>> /\ issued' \in Nat
        /\ \E q : Moves(s, q) /\ May(s, q)
    BY <1>6, ObtainStep
  <2>2. TableOK'
    BY <1>k, <2>1 DEF TableOK, db, disk
  <2>3. QED
    BY <2>1, <2>2, TypesAfter
<1>7. ASSUME NEW at \in {"crt", "key"}, NEW next \in {"key", "findCert"},
             NEW field \in {"crt", "key"}, WriteFile(s, at, field, next)
      PROVE  InboundsTypeOK'
  <2>1. /\ UNCHANGED <<db, loaded, page, issued, crossed, clashed, orphans, moves>>
        /\ req[s].dom \in Domains /\ req[s].gen \in Nat
        /\ mixed' = (mixed \/ \E u \in Sources \ {s} : req[u].dom = req[s].dom /\ req[u].pc \in {"crt", "key"})
    BY <1>7, FileStep
  <2>2. PICK q : Moves(s, q) /\ May(s, q) /\ (FileWritten(s, q, field, next) \/ FileFailed(s, q))
    BY <1>7, FileStep
  <2>3. files' \in [Domains -> Pairing] /\ reload' \in BOOLEAN /\ faults' \in Nat
    <3>1. CASE FileWritten(s, q, field, next)
      BY <1>k, <2>1, <3>1, WriteStepFits DEF FileWritten, TableOK
    <3>2. CASE FileFailed(s, q)
      BY <1>k, <3>2 DEF FileFailed, Pays, TableOK
    <3>3. QED
      BY <2>2, <3>1, <3>2
  <2>4. mixed' \in BOOLEAN
    BY <1>k, <2>1 DEF TableOK
  <2>5. TableOK'
    BY <1>k, <2>1, <2>3, <2>4 DEF TableOK, db
  <2>6. QED
    BY <2>2, <2>5, TypesAfter
<1>8. CASE WriteCrt(s) \/ WriteKey(s)
  BY <1>7, <1>8 DEF WriteCrt, WriteKey
<1>9. CASE FindRow(s)
  BY <1>9, FindRowStep, TablesStill, TypesAfter
<1>10. CASE SaveCert(s)
  <2>1. PICK q : Moves(s, q) /\ May(s, q) /\ reload' \in BOOLEAN
    BY <1>10, SaveCertStep DEF Pays
  <2>2. UNCHANGED <<inbounds, files, loaded, page, issued, mixed, orphans, moves>>
    BY <1>10, SaveCertStep
  <2>3. PICK w : /\ Wrote(s, w) /\ Writes(s, w.id)
                 /\ \/ Saved(s, w) /\ UNCHANGED faults
                    \/ faults' = faults + 1 /\ UNCHANGED <<certs, nextCert, clashed>>
    BY <1>10, SaveCertStep
  <2>4. crossed' \in BOOLEAN
    BY <1>k, <2>3 DEF Writes, TableOK
  <2>5. ASSUME faults' = faults + 1 /\ UNCHANGED <<certs, nextCert, clashed>> PROVE TableOK'
    BY <1>k, <2>1, <2>2, <2>4, <2>5 DEF TableOK
  <2>6. TableOK'
    BY <2>1, <2>2, <2>3, <2>5, TablesSaved
  <2>7. QED
    BY <2>1, <2>6, TypesAfter
<1>11. CASE RecordFailure(s)
  <2>1. PICK q : Moves(s, q) /\ May(s, q) /\ reload' \in BOOLEAN
    BY <1>11, RecordFailureStep DEF Pays
  <2>2. UNCHANGED <<inbounds, files, loaded, page, issued, mixed, orphans, moves, faults>>
        /\ \E w : Wrote(s, w) /\ Writes(s, w.id) /\ Saved(s, w)
    BY <1>11, RecordFailureStep
  <2>3. QED
    BY <2>1, <2>2, TablesSaved, TypesAfter
<1>12. CASE SetCertAutoRenew(s)
  <2>1. CASE At(s, "findAuto")
    BY <1>12, <2>1, FindAutoStep, TablesStill, TypesAfter
  <2>2. CASE At(s, "saveAuto")
    <3>1. /\ UNCHANGED <<inbounds, disk, page, issued, mixed, orphans, moves, faults>>
          /\ Moves(s, Idle) /\ May(s, Idle)
          /\ \E w : Wrote(s, w) /\ Writes(s, w.id) /\ Saved(s, w)
      BY <1>12, <2>2, SaveAutoStep DEF At
    <3>2. reload' \in BOOLEAN /\ UNCHANGED <<files, loaded>>
      BY <1>k, <3>1 DEF TableOK, disk
    <3>3. QED
      BY <3>1, <3>2, TablesSaved, TypesAfter
  <2>3. QED
    BY <1>12, <2>1, <2>2 DEF SetCertAutoRenew
<1>13. CASE DeleteCert(s)
  <2>1. /\ UNCHANGED <<inbounds, nextCert, disk, page, issued, crossed, mixed, clashed, moves, faults>>
        /\ certs' \subseteq certs /\ Moves(s, Idle) /\ May(s, Idle)
    BY <1>13, DeleteCertStep
  <2>2. TableOK'
    BY <1>k, <2>1 DEF TableOK, disk
  <2>3. QED
    BY <2>1, <2>2, TypesAfter
<1>14. QED
  BY <1>1, <1>2, <1>3, <1>4, <1>5, <1>6, <1>8, <1>9, <1>10, <1>11, <1>12, <1>13 DEF Serve

LEMMA OtherTypes ==
  ASSUME InboundsTypeOK, \/ \E t \in Tabs : Refetch(t) \/ Operator(t)
                         \/ StartPass \/ PassNext \/ OnReplaced \/ FallDue
  PROVE  InboundsTypeOK'
<1>k. TableOK
  BY DEF InboundsTypeOK
<1>1. ASSUME NEW t \in Tabs, Refetch(t) PROVE InboundsTypeOK'
  <2>1. page' \in [Tabs -> Views]
    BY <1>1, <1>k, ShownFits DEF Refetch, TableOK
  <2>2. TableOK'
    BY <1>1, <1>k, <2>1 DEF Refetch, TableOK, db, disk, past
  <2>3. QED
    BY <1>1, <2>2, TypesKept DEF Refetch
<1>2. ASSUME NEW t \in Tabs, Operator(t) PROVE InboundsTypeOK'
  <2>1. Kept /\ moves' \in Nat /\ \E q : Moves(t, q) /\ May(t, q)
    BY <1>2, OperatorStep
  <2>2. TableOK'
    BY <1>k, <2>1 DEF TableOK, Kept, db, disk, past
  <2>3. QED
    BY <2>1, <2>2, TypesAfter, NamesApart
<1>3. CASE StartPass
  <2>1. Kept /\ moves' \in Nat /\ \E q : Moves("sched", q) /\ May("sched", q)
    BY <1>3, StartPassStep
  <2>2. TableOK'
    BY <1>k, <2>1 DEF TableOK, Kept, db, disk, past
  <2>3. QED
    BY <2>1, <2>2, TypesAfter, NamesApart
<1>4. CASE PassNext
  <2>1. PICK q : Moves("sched", q) /\ May("sched", q) /\ (reload' = (reload \/ req["sched"].hook) \/ reload' = reload)
    BY <1>4, PassNextStep
  <2>2. reload' \in BOOLEAN
    BY <1>k, <2>1 DEF TableOK
  <2>3. UNCHANGED <<db, files, loaded, page, past, moves, faults>>
    BY <1>4, PassNextStep
  <2>4. TableOK'
    BY <1>k, <2>2, <2>3 DEF TableOK, db, past
  <2>5. QED
    BY <2>1, <2>4, TypesAfter, NamesApart
<1>5. CASE OnReplaced
  <2>1. reload' = FALSE /\ Applied /\ UNCHANGED <<db, files, page, req, past, moves>>
    BY <1>5, HookStep
  <2>2. TableOK'
    BY <1>k, <2>1, AppliedFits DEF TableOK, db, past
  <2>3. QED
    BY <2>1, <2>2, TypesKept
<1>6. CASE FallDue
  <2>1. /\ UNCHANGED <<inbounds, nextCert, disk, page, req, past, faults>> /\ moves' \in Nat
        /\ \E c \in certs, w \in CertRows : certs' = (certs \ {c}) \cup {w}
    BY <1>6, FallDueStep
  <2>2. TableOK'
    BY <1>k, <2>1 DEF TableOK, disk, past
  <2>3. QED
    BY <2>1, <2>2, TypesKept
<1>7. QED
  BY <1>1, <1>2, <1>3, <1>4, <1>5, <1>6

\* What it starts from.
LEMMA InitFits ==
  ASSUME Init
  PROVE  /\ InboundsTypeOK /\ req = [s \in Sources |-> Idle]
         /\ \A c \in certs : c.path /\ 0 < c.id /\ c.id < nextCert /\ c.dom \in Domains /\ \E r \in Rows : r.cert = c.dom
         /\ \A c, d \in certs : (c.id = d.id \/ c.dom = d.dom) => c = d
         /\ \A ib \in inbounds : ib.cert = "self" \/ Listed(ib.cert)
         /\ \A d \in Domains : files[d] = IF \E r \in Rows : r.cert = d THEN [crt |-> 1, key |-> 1] ELSE NoFile
         /\ inbounds = Rows /\ loaded = Serving /\ reload = FALSE /\ mixed = FALSE /\ faults = 0
<1> DEFINE N == Cardinality(Domains)
           used == {r.cert : r \in Rows} \ {"self"}
           RowOf(n, i) == [id |-> i, dom |-> n, path |-> TRUE, auto |-> TRUE, due |-> FALSE]
<1>n. N \in Nat
  BY InboundsAssumption, FS_CardinalityType DEF InboundsAssumption
<1>u. used \subseteq Domains
  BY InboundsAssumption DEF InboundsAssumption
<1>1. PICK d \in [Domains -> 1..N] : /\ \A a, b \in Domains : d[a] = d[b] => a = b
                                     /\ certs = {RowOf(n, d[n]) : n \in used}
  BY DEF Init
<1>2. \A n \in used : d[n] \in Nat /\ 0 < d[n] /\ d[n] < N + 1
  BY <1>1, <1>n, <1>u
<1>m. nextCert = N + 1
  BY DEF Init
<1> HIDE DEF N, used
<1>3. ASSUME NEW n \in Domains, NEW i \in Nat
      PROVE  RowOf(n, i) \in CertRows /\ RowOf(n, i).id = i /\ RowOf(n, i).dom = n /\ RowOf(n, i).path = TRUE
  BY <1>3 DEF CertRows
<1>a. \A n \in used : RowOf(n, d[n]) \in CertRows /\ RowOf(n, d[n]).id = d[n] /\ RowOf(n, d[n]).dom = n
                      /\ RowOf(n, d[n]).path = TRUE
  BY <1>2, <1>3, <1>u
<1> HIDE DEF RowOf
<1>4. \A c \in certs : \E n \in used : c = RowOf(n, d[n]) /\ c \in CertRows /\ c.id = d[n] /\ c.dom = n /\ c.path = TRUE
  BY <1>1, <1>a
<1>5. \A n \in used : \E c \in certs : c.dom = n /\ c.path = TRUE
  BY <1>1, <1>a
<1>6. certs \subseteq CertRows
  BY <1>4
<1>7. \A c \in certs : c.path /\ 0 < c.id /\ c.id < nextCert /\ c.dom \in Domains
  BY <1>2, <1>4, <1>m, <1>u
<1>8. \A c \in certs : \E r \in Rows : r.cert = c.dom
  BY <1>4 DEF used
<1>9. \A c, e \in certs : (c.id = e.id \/ c.dom = e.dom) => c = e
  <2> TAKE c, e \in certs
  <2>1. PICK n \in used : c = RowOf(n, d[n]) /\ c.id = d[n] /\ c.dom = n
    BY <1>4
  <2>2. PICK k \in used : e = RowOf(k, d[k]) /\ e.id = d[k] /\ e.dom = k
    BY <1>4
  <2>3. (c.id = e.id \/ c.dom = e.dom) => n = k
    BY <1>1, <1>u, <2>1, <2>2
  <2>4. QED
    BY <2>1, <2>2, <2>3
<1>i. inbounds = Rows /\ Rows \subseteq Inbs
  BY InboundsAssumption DEF Init, InboundsAssumption, Inbs, Names
<1>10. \A ib \in inbounds : ib.cert = "self" \/ Listed(ib.cert)
  BY <1>5, <1>i DEF Listed, used
<1>f. files = [e \in Domains |-> IF \E r \in Rows : r.cert = e THEN [crt |-> 1, key |-> 1] ELSE NoFile]
  BY DEF Init
<1>11. files \in [Domains -> Pairing]
  <2>1. [crt |-> 1, key |-> 1] \in Pairing /\ NoFile \in Pairing
    BY DEF Pairing, NoFile
  <2>2. QED
    BY <1>f, <2>1
<1>o. loaded = Serving /\ reload = FALSE /\ mixed = FALSE /\ crossed = FALSE /\ issued = 1 /\ moves = 0 /\ faults = 0
      /\ page = [t \in Tabs |-> Shown] /\ req = [s \in Sources |-> Idle]
  BY DEF Init
<1>12. RequestsOK
  <2>1. \A s \in Sources : req[s] = Idle
    BY <1>o
  <2>2. req \in [Sources -> Requests]
    BY <1>o, IdleFits
  <2>3. \A s \in Sources : May(s, req[s])
    BY <2>1, IdleMay
  <2>4. QED
    BY <2>2, <2>3, NamesApart DEF RequestsOK, May
<1>13. loaded \in [Domains -> Pairing]
  <2>1. NoFile \in Pairing
    BY DEF NoFile, Pairing
  <2>2. QED
    BY <1>11, <1>o, <2>1 DEF Serving
<1>14. Shown \in Views
  BY <1>6, <1>i, ShownFits
<1>15. TableOK
  <2>1. crossed \in BOOLEAN /\ mixed \in BOOLEAN /\ reload \in BOOLEAN
    BY <1>o
  <2>2. nextCert \in Nat \ {0} /\ issued \in Nat /\ moves \in Nat /\ faults \in Nat
    BY <1>m, <1>n, <1>o
  <2>3. page \in [Tabs -> Views]
    BY <1>14, <1>o
  <2>4. QED
    BY <1>6, <1>11, <1>13, <1>i, <2>1, <2>2, <2>3 DEF TableOK
<1>16. InboundsTypeOK
  BY <1>12, <1>15 DEF InboundsTypeOK
<1>17. QED
  BY <1>7, <1>8, <1>9, <1>10, <1>16, <1>f, <1>i, <1>o

(***************************************************************************)
(* Rows                                                                    *)
(***************************************************************************)
LEMMA HeldFits ==
  ASSUME InboundsTypeOK, NEW s \in Sources, Held(req[s])
  PROVE  req[s].row \in CertRows /\ req[s].row.id \in Nat /\ req[s].row.id > 0
<1>1. req[s].row \in CertRows \cup {NoRow} /\ req[s].row.id # 0
  BY RequestFits DEF Held
<1>2. NoRow.id = 0
  BY DEF NoRow
<1>3. \A c \in CertRows : c.id \in Nat
  BY DEF CertRows
<1>4. QED
  BY <1>1, <1>2, <1>3

\* A step that writes no row of the list.
LEMMA RowsKept ==
  ASSUME InboundsTypeOK, RowsInv, NEW s \in Sources, NEW q, Moves(s, q), May(s, q),
         certs' \subseteq certs, nextCert' = nextCert, crossed => crossed',
         q.pc \in Saving => q.row \in certs' \/ (q.pc # "saveAuto" /\ q.row = NoRow)
  PROVE  RowsInv'
<1>1. \A u \in Sources : req'[u] = IF u = s THEN q ELSE req[u]
  BY MovesFit DEF InboundsTypeOK
<1>2. ASSUME NEW u \in Sources, Held(req'[u])
      PROVE  \/ u # s /\ req'[u] = req[u] /\ Held(req[u])
             \/ u = s /\ req'[u] = q /\ q.row \in certs /\ q.row \in certs'
  BY <1>1, <1>2 DEF Held, NoRow
<1>3. \A c \in certs : 0 < c.id /\ c.id < nextCert
  BY DEF RowsInv
<1>i. \A c \in certs : c.id # 0
  BY <1>3 DEF InboundsTypeOK, TableOK, CertRows
<1>4. ASSUME NEW u \in Sources, Held(req'[u])
      PROVE  /\ req'[u].row.id < nextCert
             /\ \A c \in certs' : c.id = req'[u].row.id => c.dom = req'[u].row.dom /\ (crossed' \/ c.auto = req'[u].row.auto)
             /\ \A v \in Sources : Held(req'[v]) /\ req'[v].row.id = req'[u].row.id => req'[v].row.dom = req'[u].row.dom
  <2>1. CASE u # s /\ req'[u] = req[u] /\ Held(req[u])
    <3>1. req'[u].row.id < nextCert
      BY <2>1 DEF RowsInv
    <3>2. ASSUME NEW c \in certs', c.id = req'[u].row.id PROVE c.dom = req'[u].row.dom /\ (crossed' \/ c.auto = req'[u].row.auto)
      BY <2>1, <3>2 DEF RowsInv
    <3>3. ASSUME NEW v \in Sources, Held(req'[v]), req'[v].row.id = req'[u].row.id PROVE req'[v].row.dom = req'[u].row.dom
      <4>1. CASE v # s /\ req'[v] = req[v] /\ Held(req[v])
        BY <2>1, <3>3, <4>1 DEF RowsInv
      <4>2. CASE req'[v] = q /\ q.row \in certs
        BY <2>1, <3>3, <4>2 DEF RowsInv
      <4>3. QED
        BY <1>2, <3>3, <4>1, <4>2
    <3>4. QED
      BY <3>1, <3>2, <3>3
  <2>2. CASE u = s /\ req'[u] = q /\ q.row \in certs /\ q.row \in certs'
    <3>1. req'[u].row.id < nextCert
      BY <1>3, <2>2
    <3>2. ASSUME NEW c \in certs', c.id = req'[u].row.id PROVE c = q.row
      BY <2>2, <3>2 DEF RowsInv
    <3>3. ASSUME NEW v \in Sources, Held(req'[v]), req'[v].row.id = req'[u].row.id PROVE req'[v].row.dom = req'[u].row.dom
      <4>1. CASE v # s /\ req'[v] = req[v] /\ Held(req[v])
        BY <2>2, <3>3, <4>1 DEF RowsInv
      <4>2. CASE req'[v] = q
        BY <2>2, <4>2
      <4>3. QED
        BY <1>2, <3>3, <4>1, <4>2
    <3>4. QED
      BY <2>2, <3>1, <3>2, <3>3
  <2>3. QED
    BY <1>2, <1>4, <2>1, <2>2
<1>5. ASSUME NEW u \in Sources, req'[u].pc = "saveAuto" PROVE req'[u].row.id # 0
  BY <1>1, <1>5, <1>i DEF RowsInv, Saving
<1>6. \A c \in certs' : 0 < c.id /\ c.id < nextCert'
  BY <1>3
<1>7. \A c, d \in certs' : c.id = d.id => c = d
  BY DEF RowsInv
<1>8. \A u \in Sources : Held(req'[u]) => req'[u].row.id < nextCert'
  BY <1>4
<1>9. QED
  BY <1>4, <1>5, <1>6, <1>7, <1>8 DEF RowsInv, Held

\* A row of the list is written, and the request that held it is done with it.
LEMMA RowsSaved ==
  ASSUME InboundsTypeOK, RowsInv, NEW s \in Sources, NEW q, Moves(s, q), May(s, q), q.pc \notin Saving,
         NEW w, Wrote(s, w), Saved(s, w), Writes(s, w.id)
  PROVE  RowsInv'
<1>1. \A u \in Sources : req'[u] = IF u = s THEN q ELSE req[u]
  BY MovesFit DEF InboundsTypeOK
<1>2. \A u \in Sources : Held(req'[u]) => u # s /\ req'[u] = req[u] /\ Held(req[u])
  BY <1>1 DEF Held
<1>n. nextCert' >= nextCert /\ nextCert' > w.id /\ nextCert \in Nat \ {0} /\ nextCert' \in Nat \ {0}
  BY NextFits DEF Wrote, InboundsTypeOK, TableOK
<1>w. w \in CertRows /\ w.id \in Nat
  BY DEF Wrote, CertRows
<1>c. certs' = {c \in certs : c.id # w.id} \cup {w}
  BY DEF Saved
<1>i. \A c \in certs : c.id \in Nat
  BY DEF InboundsTypeOK, TableOK, CertRows
<1>3. \/ ~Held(req[s]) /\ w.id = nextCert
      \/ Held(req[s]) /\ w.id = req[s].row.id /\ w.dom = req[s].row.dom
  BY DEF Wrote
<1>4. w.id > 0
  BY <1>3, <1>n, HeldFits
<1>5. \A c \in certs' : 0 < c.id /\ c.id < nextCert'
  <2>1. TAKE c \in certs'
  <2>2. CASE c = w
    BY <1>4, <1>n, <2>2
  <2>3. CASE c \in certs
    <3>1. 0 < c.id /\ c.id < nextCert /\ c.id \in Nat
      BY <1>i, <2>3 DEF RowsInv
    <3>2. QED
      BY <1>n, <3>1
  <2>4. QED
    BY <1>c, <2>2, <2>3
<1>6. \A c, d \in certs' : c.id = d.id => c = d
  BY <1>c DEF RowsInv
<1>7. ASSUME NEW u \in Sources, Held(req'[u])
      PROVE  /\ req'[u].row.id < nextCert'
             /\ \A c \in certs' : c.id = req'[u].row.id => c.dom = req'[u].row.dom /\ (crossed' \/ c.auto = req'[u].row.auto)
             /\ \A v \in Sources : Held(req'[v]) /\ req'[v].row.id = req'[u].row.id => req'[v].row.dom = req'[u].row.dom
  <2>1. u # s /\ req'[u] = req[u] /\ Held(req[u]) /\ req[u].row.id < nextCert /\ req[u].row.id \in Nat
    BY <1>2, <1>7, HeldFits DEF RowsInv
  <2>2. req'[u].row.id < nextCert'
    BY <1>n, <2>1
  <2>3. ASSUME NEW c \in certs', c.id = req'[u].row.id PROVE c.dom = req'[u].row.dom /\ (crossed' \/ c.auto = req'[u].row.auto)
    <3>1. CASE c = w
      <4>1. w.id # nextCert
        BY <1>n, <2>1, <2>3, <3>1
      <4>2. w.dom = req[u].row.dom
        BY <1>3, <2>1, <2>3, <3>1, <4>1 DEF RowsInv
      <4>3. crossed'
        BY <2>1, <2>3, <3>1 DEF Writes, Held, Saving
      <4>4. QED
        BY <2>1, <3>1, <4>2, <4>3
    <3>2. CASE c \in certs
      <4>1. c.dom = req[u].row.dom /\ (crossed \/ c.auto = req[u].row.auto)
        BY <2>1, <2>3, <3>2 DEF RowsInv
      <4>2. crossed => crossed'
        BY DEF Writes
      <4>3. QED
        BY <2>1, <4>1, <4>2
    <3>3. QED
      BY <1>c, <3>1, <3>2
  <2>4. ASSUME NEW v \in Sources, Held(req'[v]), req'[v].row.id = req'[u].row.id PROVE req'[v].row.dom = req'[u].row.dom
    BY <1>2, <2>1, <2>4 DEF RowsInv
  <2>5. QED
    BY <2>2, <2>3, <2>4
<1>8. ASSUME NEW u \in Sources, req'[u].pc = "saveAuto" PROVE req'[u].row.id # 0
  BY <1>1, <1>8 DEF RowsInv, Saving
<1>9. QED
  BY <1>5, <1>6, <1>7, <1>8 DEF RowsInv, Held

IInv == InboundsTypeOK /\ RowsInv

LEMMA IdleIsQuiet == Idle.pc \notin Saving
BY IdleFits DEF Saving

LEMMA RowsServe ==
  ASSUME IInv, NEW s \in Sources, Serve(s)
  PROVE  RowsInv'
<1>k. InboundsTypeOK /\ RowsInv
  BY DEF IInv
<1>1. CASE ReadInbound(s)
  <2>1. PICK q : Moves(s, q) /\ May(s, q) /\ q.pc \notin Saving
    BY <1>1, <1>k, ReadStep, IdleIsQuiet DEF Saving
  <2>2. Still
    BY <1>1, <1>k, ReadStep
  <2>3. QED
    BY <1>k, <2>1, <2>2, RowsKept DEF Still, db, past
<1>2. CASE WriteInbound(s)
  <2>1. PICK q : Moves(s, q) /\ May(s, q) /\ q.pc \notin Saving
    BY <1>2, <1>k, WriteStep, IdleIsQuiet DEF Saving
  <2>2. UNCHANGED <<certs, nextCert, crossed>>
    BY <1>2, <1>k, WriteStep DEF past
  <2>3. QED
    BY <1>k, <2>1, <2>2, RowsKept
<1>3. CASE DeleteInbound(s)
  <2>1. PICK q : Moves(s, q) /\ May(s, q) /\ q.pc = "apply"
    BY <1>3, <1>k, DeleteStep
  <2>2. UNCHANGED <<certs, nextCert, crossed>>
    BY <1>3, <1>k, DeleteStep DEF past
  <2>3. QED
    BY <1>k, <2>1, <2>2, RowsKept DEF Saving
<1>4. CASE ApplyAfterChange(s)
  <2>1. PICK q : Moves(s, q) /\ May(s, q) /\ q.pc \in {"delete", "idle"}
    BY <1>4, <1>k, ApplyStep
  <2>2. UNCHANGED <<certs, nextCert, crossed>>
    BY <1>4, <1>k, ApplyStep DEF db, past
  <2>3. QED
    BY <1>k, <2>1, <2>2, RowsKept DEF Saving
<1>5. CASE GetCert(s)
  <2>1. PICK q : Moves(s, q) /\ May(s, q) /\ q.pc \in {"idle", "obtain"}
    BY <1>5, <1>k, GetCertStep
  <2>2. UNCHANGED <<certs, nextCert, crossed>>
    BY <1>5, <1>k, GetCertStep DEF Still, db, past
  <2>3. QED
    BY <1>k, <2>1, <2>2, RowsKept DEF Saving
<1>6. CASE Obtain(s)
  <2>1. PICK q : Moves(s, q) /\ May(s, q) /\ q.pc \in {"crt", "findFailed"}
    BY <1>6, <1>k, ObtainStep
  <2>2. UNCHANGED <<certs, nextCert, crossed>>
    BY <1>6, <1>k, ObtainStep DEF db
  <2>3. QED
    BY <1>k, <2>1, <2>2, RowsKept DEF Saving
<1>7. ASSUME NEW at \in {"crt", "key"}, NEW next \in {"key", "findCert"},
             NEW field \in {"crt", "key"}, WriteFile(s, at, field, next)
      PROVE  RowsInv'
  <2>1. PICK q : Moves(s, q) /\ May(s, q) /\ (FileWritten(s, q, field, next) \/ FileFailed(s, q))
    BY <1>7, <1>k, FileStep
  <2>2. UNCHANGED <<certs, nextCert, crossed>>
    BY <1>7, <1>k, FileStep DEF db
  <2>3. q.pc \notin Saving
    BY <2>1 DEF FileWritten, FileFailed, Saving
  <2>4. QED
    BY <1>k, <2>1, <2>2, <2>3, RowsKept
<1>8. CASE WriteCrt(s) \/ WriteKey(s)
  BY <1>7, <1>8 DEF WriteCrt, WriteKey
<1>9. CASE FindRow(s)
  <2>1. PICK q : Moves(s, q) /\ May(s, q) /\ q.row = findCert(q.dom) /\ q.pc \in {"saveCert", "saveFailed"}
    BY <1>9, <1>k, FindRowStep
  <2>2. UNCHANGED <<certs, nextCert, crossed>>
    BY <1>9, <1>k, FindRowStep DEF Still, db, past
  <2>3. q.row \in certs \/ q.row = NoRow
    BY <1>k, <2>1, FindFits DEF InboundsTypeOK, TableOK
  <2>4. certs' = certs
    BY <2>2
  <2>5. q.pc \in Saving => q.row \in certs' \/ (q.pc # "saveAuto" /\ q.row = NoRow)
    BY <2>1, <2>3, <2>4
  <2>6. QED
    BY <1>k, <2>1, <2>2, <2>5, RowsKept
<1>10. CASE SaveCert(s)
  <2>1. PICK q : Moves(s, q) /\ May(s, q) /\ q.pc \in {"idle", "pass"}
    BY <1>10, <1>k, SaveCertStep
  <2>2. PICK w : Wrote(s, w) /\ Writes(s, w.id) /\ (Saved(s, w) \/ UNCHANGED <<certs, nextCert, clashed>>)
    BY <1>10, <1>k, SaveCertStep
  <2>3. CASE Saved(s, w)
    BY <1>k, <2>1, <2>2, <2>3, RowsSaved DEF Saving
  <2>4. CASE UNCHANGED <<certs, nextCert, clashed>>
    <3>1. crossed => crossed'
      BY <2>2 DEF Writes
    <3>2. QED
      BY <1>k, <2>1, <2>4, <3>1, RowsKept DEF Saving
  <2>5. QED
    BY <2>2, <2>3, <2>4
<1>11. CASE RecordFailure(s)
  <2>1. PICK q : Moves(s, q) /\ May(s, q) /\ q.pc \in {"idle", "pass"}
    BY <1>11, <1>k, RecordFailureStep
  <2>2. PICK w : Wrote(s, w) /\ Writes(s, w.id) /\ Saved(s, w)
    BY <1>11, <1>k, RecordFailureStep
  <2>3. QED
    BY <1>k, <2>1, <2>2, RowsSaved DEF Saving
<1>12. CASE SetCertAutoRenew(s)
  <2>1. CASE At(s, "findAuto")
    <3>1. PICK q : Moves(s, q) /\ May(s, q) /\ (q.pc \notin Saving \/ q.row \in certs)
      BY <1>12, <1>k, <2>1, FindAutoStep, IdleIsQuiet
    <3>2. UNCHANGED <<certs, nextCert, crossed>>
      BY <1>12, <1>k, <2>1, FindAutoStep DEF Still, db, past
    <3>3. QED
      BY <1>k, <3>1, <3>2, RowsKept
  <2>2. CASE At(s, "saveAuto")
    <3>1. req[s].row.id # 0
      BY <1>k, <2>2 DEF RowsInv, At
    <3>2. Moves(s, Idle) /\ May(s, Idle) /\ \E w : Wrote(s, w) /\ Writes(s, w.id) /\ Saved(s, w)
      BY <1>12, <1>k, <2>2, <3>1, SaveAutoStep
    <3>q. PICK q : q = Idle
      OBVIOUS
    <3>3. Moves(s, q) /\ May(s, q) /\ q.pc \notin Saving
      BY <3>2, <3>q, IdleIsQuiet
    <3>4. QED
      BY <1>k, <3>2, <3>3, RowsSaved
  <2>3. QED
    BY <1>12, <2>1, <2>2 DEF SetCertAutoRenew
<1>13. CASE DeleteCert(s)
  <2>1. certs' \subseteq certs /\ UNCHANGED <<nextCert, crossed>> /\ Moves(s, Idle) /\ May(s, Idle)
    BY <1>13, <1>k, DeleteCertStep
  <2>2. QED
    BY <1>k, <2>1, IdleIsQuiet, RowsKept
<1>14. QED
  BY <1>1, <1>2, <1>3, <1>4, <1>5, <1>6, <1>8, <1>9, <1>10, <1>11, <1>12, <1>13 DEF Serve

LEMMA RowsOther ==
  ASSUME IInv, \/ \E t \in Tabs : Refetch(t) \/ Operator(t)
               \/ StartPass \/ PassNext \/ OnReplaced \/ FallDue
  PROVE  RowsInv'
<1>k. InboundsTypeOK /\ RowsInv
  BY DEF IInv
<1>1. ASSUME UNCHANGED <<db, req, past>> PROVE RowsInv'
  BY <1>k, <1>1 DEF RowsInv, Held, db, past
<1>2. ASSUME NEW t \in Tabs, Refetch(t) PROVE RowsInv'
  BY <1>1, <1>2 DEF Refetch
<1>3. ASSUME NEW t \in Tabs, Operator(t) PROVE RowsInv'
  <2>1. PICK q : q.pc \in AskPcs /\ Moves(t, q) /\ May(t, q)
    BY <1>3, <1>k, OperatorStep
  <2>2. UNCHANGED <<certs, nextCert, crossed>>
    BY <1>3, <1>k, OperatorStep DEF Kept, db, past
  <2>3. QED
    BY <1>k, <2>1, <2>2, RowsKept, NamesApart DEF AskPcs, Saving
<1>4. CASE StartPass
  <2>1. PICK q : Moves("sched", q) /\ May("sched", q) /\ q.pc = "pass"
    BY <1>4, <1>k, StartPassStep
  <2>2. UNCHANGED <<certs, nextCert, crossed>>
    BY <1>4, <1>k, StartPassStep DEF Kept, db, past
  <2>3. QED
    BY <1>k, <2>1, <2>2, RowsKept, NamesApart DEF Saving
<1>5. CASE PassNext
  <2>1. PICK q : Moves("sched", q) /\ May("sched", q) /\ (q = Idle \/ q.pc \in {"pass", "obtain"})
    BY <1>5, <1>k, PassNextStep
  <2>2. UNCHANGED <<certs, nextCert, crossed>>
    BY <1>5, <1>k, PassNextStep DEF db, past
  <2>3. q.pc \notin Saving
    BY <2>1, IdleIsQuiet DEF Saving
  <2>4. QED
    BY <1>k, <2>1, <2>2, <2>3, RowsKept, NamesApart
<1>6. CASE OnReplaced
  BY <1>1, <1>6, <1>k, HookStep
<1>7. CASE FallDue
  <2>1. UNCHANGED <<nextCert, req, crossed>>
    BY <1>7, <1>k, FallDueStep DEF past
  <2>2. PICK c \in certs, w \in CertRows : /\ certs' = (certs \ {c}) \cup {w}
                                           /\ w.id = c.id /\ w.dom = c.dom /\ w.path = c.path /\ w.auto = c.auto
    BY <1>7, <1>k, FallDueStep
  <2>3. \A x \in certs' : \E y \in certs : x.id = y.id /\ x.dom = y.dom /\ x.auto = y.auto
    BY <2>2
  <2>4. \A x \in certs' : 0 < x.id /\ x.id < nextCert'
    BY <1>k, <2>1, <2>3 DEF RowsInv
  <2>5. \A x, y \in certs' : x.id = y.id => x = y
    BY <1>k, <2>2 DEF RowsInv
  <2>6. QED
    BY <1>k, <2>1, <2>3, <2>4, <2>5 DEF RowsInv, Held
<1>8. QED
  BY <1>2, <1>3, <1>4, <1>5, <1>6, <1>7

LEMMA IInvInit == Init => IInv
<1> SUFFICES ASSUME Init PROVE IInv
  OBVIOUS
<1>1. InboundsTypeOK /\ \A s \in Sources : req[s].pc = "idle"
  BY InitFits, IdleFits
<1>2. RowsInv
  BY <1>1, InitFits DEF RowsInv, Held, Saving
<1>3. QED
  BY <1>1, <1>2 DEF IInv

LEMMA IInvNext == IInv /\ [Next]_vars => IInv'
<1> SUFFICES ASSUME IInv, [Next]_vars PROVE IInv'
  OBVIOUS
<1>1. CASE UNCHANGED vars
  <2>1. UNCHANGED <<db, disk, page, req, past, moves, faults>>
    BY <1>1 DEF vars
  <2>2. TableOK' /\ RequestsOK'
    BY <2>1 DEF IInv, InboundsTypeOK, TableOK, RequestsOK, db, disk, past
  <2>3. RowsInv'
    BY <2>1 DEF IInv, RowsInv, Held, db, past
  <2>4. QED
    BY <2>2, <2>3 DEF IInv, InboundsTypeOK
<1>2. ASSUME NEW s \in Sources, Serve(s) PROVE IInv'
  <2>1. req[s].pc = "saveAuto" => req[s].row.id # 0
    BY DEF IInv, RowsInv
  <2>2. QED
    BY <1>2, <2>1, RequestTypes, RowsServe DEF IInv
<1>3. CASE (\E t \in Tabs : Refetch(t) \/ Operator(t)) \/ StartPass \/ PassNext \/ OnReplaced \/ FallDue
  BY <1>3, OtherTypes, RowsOther DEF IInv
<1>4. QED
  BY <1>1, <1>2, <1>3 DEF Next

LEMMA IInvAlways == Spec => []IInv
<1>1. QED
  BY IInvInit, IInvNext, PTL DEF Spec

\* The tables and the requests are what their names say, at every place of a
\* request what its handler has looked up by then.
THEOREM InboundsTypes == Spec => []InboundsTypeOK
<1>1. IInv => InboundsTypeOK
  BY DEF IInv
<1>2. QED
  BY <1>1, IInvAlways, PTL

\* An operator who switches renewal off is not overruled by a renewal that was at
\* the CA meanwhile, unless two writers had the row in their hands at once.
LEMMA AutoStep ==
  ASSUME IInv, [Next]_vars, NEW c \in certs, NEW d \in certs', c.id = d.id, ~c.auto, d.auto
  PROVE  crossed' \/ \E s \in Sources : req[s].pc = "saveAuto" /\ req[s].on /\ req'[s] = Idle
<1> DEFINE Goal == crossed' \/ \E s \in Sources : req[s].pc = "saveAuto" /\ req[s].on /\ req'[s] = Idle
<1>k. InboundsTypeOK /\ RowsInv
  BY DEF IInv
<1>1. ASSUME certs' \subseteq certs PROVE Goal
  BY <1>k, <1>1 DEF RowsInv
<1>2. ASSUME NEW s \in Sources, NEW w, Wrote(s, w), Saved(s, w), Writes(s, w.id),
             req[s].pc = "saveAuto" => w.auto = req[s].on /\ req'[s] = Idle
      PROVE  Goal
  <2>1. d = w \/ d \in certs
    BY <1>2 DEF Saved
  <2>2. CASE d \in certs
    BY <1>k, <2>2 DEF RowsInv
  <2>3. CASE d = w
    <3>1. c.id # nextCert
      BY <1>k DEF RowsInv, InboundsTypeOK, TableOK, CertRows
    <3>2. Held(req[s]) /\ w.id = req[s].row.id /\ (req[s].pc # "saveAuto" => w.auto = req[s].row.auto)
      BY <1>2, <2>3, <3>1 DEF Wrote
    <3>3. crossed \/ c.auto = req[s].row.auto
      BY <1>k, <2>3, <3>2 DEF RowsInv
    <3>4. crossed => crossed'
      BY <1>2 DEF Writes
    <3>5. CASE req[s].pc = "saveAuto"
      BY <1>2, <2>3, <3>5
    <3>6. CASE req[s].pc # "saveAuto"
      BY <2>3, <3>2, <3>3, <3>4, <3>6
    <3>7. QED
      BY <3>5, <3>6
  <2>4. QED
    BY <2>1, <2>2, <2>3
<1>3. ASSUME NEW s \in Sources, Serve(s) PROVE Goal
  <2>1. CASE SaveCert(s)
    <3>1. PICK w : Wrote(s, w) /\ Writes(s, w.id) /\ (Saved(s, w) \/ UNCHANGED <<certs, nextCert, clashed>>)
      BY <1>k, <2>1, SaveCertStep
    <3>2. req[s].pc # "saveAuto"
      BY <2>1 DEF SaveCert, At
    <3>3. QED
      BY <1>1, <1>2, <3>1, <3>2
  <2>2. CASE RecordFailure(s)
    <3>1. PICK w : Wrote(s, w) /\ Writes(s, w.id) /\ Saved(s, w)
      BY <1>k, <2>2, RecordFailureStep
    <3>2. req[s].pc # "saveAuto"
      BY <2>2 DEF RecordFailure, At
    <3>3. QED
      BY <1>2, <3>1, <3>2
  <2>3. CASE SetCertAutoRenew(s)
    <3>1. CASE At(s, "findAuto")
      BY <1>1, <1>k, <2>3, <3>1, FindAutoStep DEF Still, db
    <3>2. CASE At(s, "saveAuto")
      <4>1. req[s].row.id # 0
        BY <1>k, <3>2 DEF RowsInv, At
      <4>2. /\ Moves(s, Idle) /\ May(s, Idle)
            /\ \E w : Wrote(s, w) /\ Writes(s, w.id) /\ Saved(s, w) /\ w.auto = req[s].on
        BY <1>k, <2>3, <3>2, <4>1, SaveAutoStep
      <4>3. req'[s] = Idle
        BY <1>k, <4>2 DEF Moves, InboundsTypeOK, RequestsOK
      <4>4. QED
        BY <1>2, <4>2, <4>3
    <3>3. QED
      BY <2>3, <3>1, <3>2 DEF SetCertAutoRenew
  <2>4. CASE DeleteCert(s)
    BY <1>1, <1>k, <2>4, DeleteCertStep
  <2>5. CASE ReadInbound(s) \/ WriteInbound(s) \/ DeleteInbound(s) \/ ApplyAfterChange(s) \/ GetCert(s)
    <3>1. UNCHANGED certs
      BY <2>5 DEF ReadInbound, WriteInbound, DeleteInbound, ApplyAfterChange, GetCert, db
    <3>2. QED
      BY <1>1, <3>1
  <2>6. CASE Obtain(s) \/ WriteCrt(s) \/ WriteKey(s) \/ FindRow(s)
    <3>1. UNCHANGED certs
      BY <2>6 DEF Obtain, WriteCrt, WriteKey, WriteFile, FindRow, db
    <3>2. QED
      BY <1>1, <3>1
  <2>7. QED
    BY <1>3, <2>1, <2>2, <2>3, <2>4, <2>5, <2>6 DEF Serve
<1>4. CASE FallDue
  <2>1. PICK x \in certs, w \in CertRows : certs' = (certs \ {x}) \cup {w} /\ w.id = x.id /\ w.auto = x.auto
    BY <1>4, <1>k, FallDueStep
  <2>2. QED
    BY <1>k, <2>1 DEF RowsInv
<1>5. CASE (\E t \in Tabs : Refetch(t) \/ Operator(t)) \/ StartPass \/ PassNext \/ OnReplaced
  <2>1. UNCHANGED certs
    <3>1. ASSUME NEW t \in Tabs, Operator(t) PROVE UNCHANGED certs
      BY <1>k, <3>1, OperatorStep DEF Kept, db
    <3>2. QED
      BY <1>5, <3>1 DEF Refetch, StartPass, PassNext, OnReplaced, db
  <2>2. QED
    BY <1>1, <2>1
<1>6. CASE UNCHANGED vars
  BY <1>1, <1>6 DEF vars, db
<1>7. QED
  BY <1>3, <1>4, <1>5, <1>6 DEF Next

THEOREM AutoRenewStays == Spec => AutoRenewKept
<1> DEFINE A == \A c \in certs, d \in certs' :
                  c.id = d.id /\ ~c.auto /\ d.auto =>
                    crossed' \/ \E s \in Sources : req[s].pc = "saveAuto" /\ req[s].on /\ req'[s] = Idle
<1>1. IInv /\ [Next]_vars => A
  BY AutoStep
<1>2. AutoRenewKept <=> [][A]_vars
  BY DEF AutoRenewKept
<1> HIDE DEF A
<1>3. QED
  BY <1>1, <1>2, IInvInit, IInvNext, PTL DEF Spec

(***************************************************************************)
(* Certificates                                                            *)
(***************************************************************************)
FilesGrow == \A d \in Domains : (files[d].crt # 0 => files'[d].crt # 0) /\ (files[d].key # 0 => files'[d].key # 0)

LEMMA NamesFit ==
  ASSUME NEW r \in Requests, Holds(r)
  PROVE  /\ r.pc = "write" => \A ib \in r.patch : ib.cert \in Names
         /\ r.pc \in Saving /\ r.row.path => r.row.dom \in Domains
         /\ r.pc \in Issuing => r.dom \in Domains
<1>1. r.row \in CertRows \cup {NoRow}
  BY DEF Requests
<1>2. \A c \in CertRows : c.dom \in Domains
  BY DEF CertRows
<1>3. NoRow.path = FALSE
  BY DEF NoRow
<1>4. \A ib \in Inbs : ib.cert \in Names
  BY DEF Inbs
<1>5. QED
  BY <1>1, <1>2, <1>3, <1>4 DEF Holds

LEMMA StaysSound ==
  ASSUME NEW r \in Requests, Holds(r), FilesGrow, SoundRequest(r)
  PROVE  SoundRequest(r)'
<1>1. \A d \in Domains : Whole(d) => Whole(d)'
  BY DEF FilesGrow, Whole
<1>2. \A c \in Names : Real(c) => Real(c)'
  BY <1>1 DEF Real, Names
<1>3. r.pc = "write" => \A ib \in r.patch : Real(ib.cert)'
  BY <1>2, NamesFit DEF SoundRequest
<1>4. r.pc \in Saving /\ r.row.path => Whole(r.row.dom)'
  BY <1>1, NamesFit DEF SoundRequest
<1>5. r.pc = "key" => files'[r.dom].crt # 0
  BY NamesFit DEF SoundRequest, FilesGrow, Issuing
<1>6. r.pc \in {"findCert", "saveCert"} => Whole(r.dom)'
  BY <1>1, NamesFit DEF SoundRequest, Issuing
<1>7. QED
  BY <1>3, <1>4, <1>5, <1>6 DEF SoundRequest

LEMMA RealKept ==
  ASSUME InboundsTypeOK, RealInv, FilesGrow, NEW s \in Sources, NEW q, Moves(s, q), May(s, q),
         \A ib \in inbounds' : ib \in inbounds \/ Real(ib.cert)',
         \A c \in certs' : c.path => c \in certs \/ Whole(c.dom)',
         SoundRequest(q)'
  PROVE  RealInv'
<1>1. \A u \in Sources : req'[u] = IF u = s THEN q ELSE req[u]
  BY MovesFit DEF InboundsTypeOK
<1>2. ASSUME NEW u \in Sources PROVE SoundRequest(req[u])'
  <2>1. CASE u = s
    BY <1>1, <2>1 DEF SoundRequest, Real, Whole
  <2>2. CASE u # s
    <3>1. PICK r : r = req[u]
      OBVIOUS
    <3>2. SoundRequest(r)'
      BY <3>1, RequestFits, StaysSound DEF RealInv
    <3>3. req'[u] = r
      BY <1>1, <2>2, <3>1
    <3>4. QED
      BY <3>2, <3>3 DEF SoundRequest, Real, Whole
  <2>3. QED
    BY <2>1, <2>2
<1>3. \A d \in Domains : Whole(d) => Whole(d)'
  BY DEF FilesGrow, Whole
<1>4. \A ib \in inbounds' : Real(ib.cert)'
  <2>1. \A ib \in inbounds : ib.cert \in Names
    BY DEF InboundsTypeOK, TableOK, Inbs
  <2>2. QED
    BY <1>3, <2>1 DEF RealInv, Real, Names
<1>5. \A c \in certs' : c.path => Whole(c.dom)'
  <2>1. \A c \in certs : c.dom \in Domains
    BY DEF InboundsTypeOK, TableOK, CertRows
  <2>2. QED
    BY <1>3, <2>1 DEF RealInv
<1>6. QED
  BY <1>2, <1>4, <1>5 DEF RealInv

QuietPcs == (PassPcs \cup TabPcs) \ ({"write", "key", "findCert", "saveCert", "saveFailed", "saveAuto"})

\* A step that leaves files and rows alone and comes to a place that holds nothing.
LEMMA RealQuiet ==
  ASSUME InboundsTypeOK, RealInv, NEW s \in Sources, NEW q, Moves(s, q), May(s, q), q.pc \in QuietPcs,
         UNCHANGED files, inbounds' \subseteq inbounds, certs' \subseteq certs
  PROVE  RealInv'
<1>1. FilesGrow
  BY DEF FilesGrow
<1>2. SoundRequest(q)'
  BY DEF SoundRequest, QuietPcs, Saving
<1>3. QED
  BY <1>1, <1>2, RealKept

LEMMA QuietOnes ==
  /\ Idle.pc \in QuietPcs /\ AskPcs \subseteq QuietPcs
  /\ {"idle", "pass", "apply", "delete", "obtain", "crt", "findFailed"} \subseteq QuietPcs
BY IdleFits DEF QuietPcs, AskPcs, PassPcs, TabPcs, Issuing

LEMMA RealSaved ==
  ASSUME InboundsTypeOK, RealInv, NEW s \in Sources, NEW q, Moves(s, q), May(s, q), q.pc \in QuietPcs,
         NEW w, w.path => Whole(w.dom), Saved(s, w), UNCHANGED <<files, inbounds>>
  PROVE  RealInv'
<1>1. FilesGrow
  BY DEF FilesGrow
<1>2. SoundRequest(q)'
  BY DEF SoundRequest, QuietPcs, Saving
<1>3. \A c \in certs' : c.path => c \in certs \/ Whole(c.dom)'
  BY DEF Saved, Whole
<1>4. QED
  BY <1>1, <1>2, <1>3, RealKept

LEMMA RealServe ==
  ASSUME IInv, RealInv, NEW s \in Sources, Serve(s)
  PROVE  RealInv'
<1>k. InboundsTypeOK /\ RowsInv
  BY DEF IInv
<1>s. SoundRequest(req[s])
  BY DEF RealInv
<1>1. CASE ReadInbound(s)
  <2>1. Still
    BY <1>1, <1>k, ReadStep
  <2>2. PICK q : /\ Moves(s, q) /\ May(s, q)
                 /\ \/ q = Idle
                    \/ /\ q.pc = "write"
                       /\ \E x \in Inbs, ib \in inbounds :
                            q.patch = {x} /\ (x.cert = ib.cert \/ x.cert = "self" \/ Listed(x.cert))
    BY <1>1, <1>k, ReadStep
  <2>u. UNCHANGED <<files, inbounds, certs>>
    BY <2>1 DEF Still, db, disk
  <2>3. CASE q = Idle
    BY <1>k, <2>2, <2>3, <2>u, QuietOnes, RealQuiet
  <2>4. CASE q.pc = "write"
    <3>0. q # Idle
      BY <2>4, IdleFits
    <3>1. PICK x \in Inbs, ib \in inbounds : q.patch = {x} /\ (x.cert = ib.cert \/ x.cert = "self" \/ Listed(x.cert))
      BY <2>2, <3>0
    <3>2. Real(x.cert)
      BY <3>1 DEF RealInv, Listed, Real
    <3>3. SoundRequest(q)'
      BY <2>4, <2>u, <3>1, <3>2 DEF SoundRequest, Saving, Real, Whole
    <3>4. FilesGrow
      BY <2>u DEF FilesGrow
    <3>5. QED
      BY <1>k, <2>2, <2>u, <3>3, <3>4, RealKept
  <2>5. QED
    BY <2>2, <2>3, <2>4
<1>2. CASE WriteInbound(s)
  <2>1. PICK row \in Inbs : \E q : /\ row \in req[s].patch /\ Moves(s, q) /\ May(s, q)
                                   /\ \/ q = Idle /\ inbounds' = inbounds
                                      \/ q.pc = "apply" /\ inbounds' = {ib \in inbounds : ib.id # row.id} \cup {row}
    BY <1>2, <1>k, WriteStep
  <2>2. PICK q : /\ row \in req[s].patch /\ Moves(s, q) /\ May(s, q)
                 /\ \/ q = Idle /\ inbounds' = inbounds
                    \/ q.pc = "apply" /\ inbounds' = {ib \in inbounds : ib.id # row.id} \cup {row}
    BY <2>1
  <2>3. UNCHANGED <<files, certs>> /\ At(s, "write")
    BY <1>2, <1>k, WriteStep DEF disk
  <2>4. Real(row.cert)'
    BY <1>s, <2>2, <2>3 DEF SoundRequest, At, Real, Whole
  <2>5. \A ib \in inbounds' : ib \in inbounds \/ Real(ib.cert)'
    BY <2>2, <2>4
  <2>6. q.pc \in QuietPcs
    BY <2>2, QuietOnes
  <2>7. SoundRequest(q)'
    BY <2>6 DEF SoundRequest, QuietPcs, Saving
  <2>8. FilesGrow
    BY <2>3 DEF FilesGrow
  <2>9. QED
    BY <1>k, <2>2, <2>3, <2>5, <2>7, <2>8, RealKept
<1>3. CASE DeleteInbound(s)
  <2>1. UNCHANGED <<files, certs>> /\ inbounds' \subseteq inbounds /\ \E q : Moves(s, q) /\ May(s, q) /\ q.pc = "apply"
    BY <1>3, <1>k, DeleteStep DEF disk
  <2>2. QED
    BY <1>k, <2>1, QuietOnes, RealQuiet
<1>4. CASE ApplyAfterChange(s)
  <2>1. UNCHANGED <<files, certs, inbounds>> /\ \E q : Moves(s, q) /\ May(s, q) /\ q.pc \in {"delete", "idle"}
    BY <1>4, <1>k, ApplyStep DEF db
  <2>2. QED
    BY <1>k, <2>1, QuietOnes, RealQuiet
<1>5. CASE GetCert(s)
  <2>1. UNCHANGED <<files, certs, inbounds>> /\ \E q : Moves(s, q) /\ May(s, q) /\ q.pc \in {"idle", "obtain"}
    BY <1>5, <1>k, GetCertStep DEF Still, db, disk
  <2>2. QED
    BY <1>k, <2>1, QuietOnes, RealQuiet
<1>6. CASE Obtain(s)
  <2>1. UNCHANGED <<files, certs, inbounds>> /\ \E q : Moves(s, q) /\ May(s, q) /\ q.pc \in {"crt", "findFailed"}
    BY <1>6, <1>k, ObtainStep DEF db, disk
  <2>2. QED
    BY <1>k, <2>1, QuietOnes, RealQuiet
<1>7. ASSUME NEW at \in {"crt", "key"}, NEW next \in {"key", "findCert"}, at = "crt" => next = "key",
             at = "key" => next = "findCert", WriteFile(s, at, at, next)
      PROVE  RealInv'
  <2>1. PICK q : Moves(s, q) /\ May(s, q) /\ (FileWritten(s, q, at, next) \/ FileFailed(s, q))
    BY <1>7, <1>k, FileStep
  <2>2. UNCHANGED <<inbounds, certs>> /\ At(s, at) /\ req[s].dom \in Domains /\ req[s].gen \in Nat \ {0}
    BY <1>7, <1>k, FileStep DEF db
  <2>3. CASE FileWritten(s, q, at, next)
    <3> DEFINE d == req[s].dom
               g == req[s].gen
    <3>1. files' = [files EXCEPT ![d][at] = g] /\ q.pc = next /\ q.dom = d
      BY <2>3 DEF FileWritten
    <3>2. /\ \A e \in Domains : e # d => files'[e] = files[e]
          /\ at = "crt" => files'[d].crt = g /\ files'[d].key = files[d].key
          /\ at = "key" => files'[d].key = g /\ files'[d].crt = files[d].crt
      BY <1>k, <2>2, <3>1, WriteStepFits
    <3> HIDE DEF g
    <3>g. g # 0
      BY <2>2 DEF g
    <3>3. FilesGrow
      BY <3>2, <3>g DEF FilesGrow
    <3>4. at = "key" => files[d].crt # 0
      BY <1>s, <2>2 DEF SoundRequest, At
    <3>5. q.pc = "key" => files'[q.dom].crt # 0
      BY <1>7, <3>1, <3>2, <3>g
    <3>6. q.pc = "findCert" => Whole(q.dom)'
      BY <1>7, <3>1, <3>2, <3>4, <3>g DEF Whole
    <3>7. SoundRequest(q)'
      BY <3>1, <3>5, <3>6 DEF SoundRequest, Saving
    <3>8. QED
      BY <1>k, <2>1, <2>2, <3>3, <3>7, RealKept
  <2>4. CASE FileFailed(s, q)
    <3>1. UNCHANGED files /\ q.pc \in QuietPcs
      BY <2>4, QuietOnes DEF FileFailed
    <3>2. QED
      BY <1>k, <2>1, <2>2, <3>1, RealQuiet
  <2>5. QED
    BY <2>1, <2>3, <2>4
<1>8. CASE WriteCrt(s) \/ WriteKey(s)
  BY <1>7, <1>8 DEF WriteCrt, WriteKey
<1>9. CASE FindRow(s)
  <2>1. UNCHANGED <<files, inbounds, certs>> /\ req[s].dom \in Domains
    BY <1>9, <1>k, FindRowStep DEF Still, db, disk
  <2>2. PICK q : /\ Moves(s, q) /\ May(s, q) /\ q.row = findCert(q.dom) /\ q.dom = req[s].dom
                 /\ \/ At(s, "findCert") /\ q.pc = "saveCert"
                    \/ At(s, "findFailed") /\ q.pc = "saveFailed"
    BY <1>9, <1>k, FindRowStep
  <2>3. q.row.path => q.row \in certs
    <3>1. NoRow.path = FALSE
      BY DEF NoRow
    <3>2. q.row = NoRow \/ q.row \in certs
      BY <1>k, <2>2, FindFits DEF InboundsTypeOK, TableOK
    <3>3. QED
      BY <3>1, <3>2
  <2>4. q.row.path => Whole(q.row.dom)
    BY <2>3 DEF RealInv
  <2>5. q.pc = "saveCert" => Whole(q.dom)
    BY <1>s, <2>2 DEF SoundRequest, At
  <2>6. SoundRequest(q)'
    BY <2>1, <2>2, <2>4, <2>5 DEF SoundRequest, Whole
  <2>7. FilesGrow
    BY <2>1 DEF FilesGrow
  <2>8. QED
    BY <1>k, <2>1, <2>2, <2>6, <2>7, RealKept
<1>10. CASE SaveCert(s)
  <2>1. PICK q : Moves(s, q) /\ May(s, q) /\ q.pc \in {"idle", "pass"}
    BY <1>10, <1>k, SaveCertStep
  <2>2. PICK w : w.dom = req[s].dom /\ (Saved(s, w) \/ UNCHANGED <<certs, nextCert, clashed>>)
    BY <1>10, <1>k, SaveCertStep
  <2>3. UNCHANGED <<inbounds, files>> /\ At(s, "saveCert")
    BY <1>10, <1>k, SaveCertStep
  <2>4. Whole(w.dom)
    BY <1>s, <2>2, <2>3 DEF SoundRequest, At
  <2>5. CASE Saved(s, w)
    BY <1>k, <2>1, <2>3, <2>4, <2>5, QuietOnes, RealSaved
  <2>6. CASE UNCHANGED <<certs, nextCert, clashed>>
    BY <1>k, <2>1, <2>3, <2>6, QuietOnes, RealQuiet
  <2>7. QED
    BY <2>2, <2>5, <2>6
<1>11. CASE RecordFailure(s)
  <2>1. PICK q : Moves(s, q) /\ May(s, q) /\ q.pc \in {"idle", "pass"}
    BY <1>11, <1>k, RecordFailureStep
  <2>2. PICK w : Wrote(s, w) /\ Saved(s, w) /\ (w.path => Held(req[s]) /\ req[s].row.path)
    BY <1>11, <1>k, RecordFailureStep
  <2>3. UNCHANGED <<inbounds, files>>
    BY <1>11, <1>k, RecordFailureStep
  <2>4. w.path => Whole(w.dom)
    BY <1>s, <2>2 DEF SoundRequest, Held, Wrote
  <2>5. QED
    BY <1>k, <2>1, <2>2, <2>3, <2>4, QuietOnes, RealSaved
<1>12. CASE SetCertAutoRenew(s)
  <2>1. CASE At(s, "findAuto")
    <3>1. PICK q : Moves(s, q) /\ May(s, q) /\ (q = Idle \/ (q.pc = "saveAuto" /\ q.row \in certs))
      BY <1>12, <1>k, <2>1, FindAutoStep
    <3>2. UNCHANGED <<files, inbounds, certs>>
      BY <1>12, <1>k, <2>1, FindAutoStep DEF Still, db, disk
    <3>3. CASE q = Idle
      BY <1>k, <3>1, <3>2, <3>3, QuietOnes, RealQuiet
    <3>4. CASE q.pc = "saveAuto" /\ q.row \in certs
      <4>1. SoundRequest(q)'
        BY <3>2, <3>4 DEF SoundRequest, RealInv, Whole
      <4>2. FilesGrow
        BY <3>2 DEF FilesGrow
      <4>3. QED
        BY <1>k, <3>1, <3>2, <4>1, <4>2, RealKept
    <3>5. QED
      BY <3>1, <3>3, <3>4
  <2>2. CASE At(s, "saveAuto")
    <3>1. req[s].row.id # 0
      BY <1>k, <2>2 DEF RowsInv, At
    <3>2. PICK w : Wrote(s, w) /\ Saved(s, w) /\ w.path = req[s].row.path
      BY <1>12, <1>k, <2>2, <3>1, SaveAutoStep
    <3>3. UNCHANGED <<inbounds, files>> /\ Moves(s, Idle) /\ May(s, Idle) /\ Held(req[s])
      BY <1>12, <1>k, <2>2, <3>1, SaveAutoStep DEF disk
    <3>4. w.path => Whole(w.dom)
      BY <1>s, <3>2, <3>3 DEF SoundRequest, Held, Wrote
    <3>q. PICK q : q = Idle
      OBVIOUS
    <3>5. QED
      BY <1>k, <3>2, <3>3, <3>4, <3>q, QuietOnes, RealSaved
  <2>3. QED
    BY <1>12, <2>1, <2>2 DEF SetCertAutoRenew
<1>13. CASE DeleteCert(s)
  <2>1. certs' \subseteq certs /\ UNCHANGED <<files, inbounds>> /\ Moves(s, Idle) /\ May(s, Idle)
    BY <1>13, <1>k, DeleteCertStep DEF disk
  <2>q. PICK q : q = Idle
    OBVIOUS
  <2>2. QED
    BY <1>k, <2>1, <2>q, QuietOnes, RealQuiet
<1>14. QED
  BY <1>1, <1>2, <1>3, <1>4, <1>5, <1>6, <1>8, <1>9, <1>10, <1>11, <1>12, <1>13 DEF Serve

LEMMA RealOther ==
  ASSUME IInv, RealInv, \/ \E t \in Tabs : Refetch(t) \/ Operator(t)
                        \/ StartPass \/ PassNext \/ OnReplaced \/ FallDue
  PROVE  RealInv'
<1>k. InboundsTypeOK
  BY DEF IInv
<1>1. ASSUME UNCHANGED <<inbounds, certs, req, files>> PROVE RealInv'
  BY <1>1 DEF RealInv, SoundRequest, Real, Whole
<1>2. ASSUME NEW t \in Tabs, Refetch(t) PROVE RealInv'
  BY <1>1, <1>2 DEF Refetch, db, disk
<1>3. ASSUME NEW t \in Tabs, Operator(t) PROVE RealInv'
  <2>1. PICK q : q.pc \in AskPcs /\ Moves(t, q) /\ May(t, q)
    BY <1>3, <1>k, OperatorStep
  <2>2. UNCHANGED <<certs, inbounds, files>>
    BY <1>3, <1>k, OperatorStep DEF Kept, db, disk
  <2>3. QED
    BY <1>k, <2>1, <2>2, QuietOnes, RealQuiet, NamesApart
<1>4. CASE StartPass
  <2>1. PICK q : Moves("sched", q) /\ May("sched", q) /\ q.pc = "pass"
    BY <1>4, <1>k, StartPassStep
  <2>2. UNCHANGED <<certs, inbounds, files>>
    BY <1>4, <1>k, StartPassStep DEF Kept, db, disk
  <2>3. QED
    BY <1>k, <2>1, <2>2, QuietOnes, RealQuiet, NamesApart
<1>5. CASE PassNext
  <2>1. PICK q : Moves("sched", q) /\ May("sched", q) /\ (q = Idle \/ q.pc \in {"pass", "obtain"})
    BY <1>5, <1>k, PassNextStep
  <2>2. UNCHANGED <<certs, inbounds, files>>
    BY <1>5, <1>k, PassNextStep DEF db
  <2>3. q.pc \in QuietPcs
    BY <2>1, QuietOnes
  <2>4. QED
    BY <1>k, <2>1, <2>2, <2>3, RealQuiet, NamesApart
<1>6. CASE OnReplaced
  BY <1>1, <1>6, <1>k, HookStep DEF db
<1>7. CASE FallDue
  <2>1. UNCHANGED <<inbounds, req, files>>
    BY <1>7, <1>k, FallDueStep DEF disk
  <2>2. PICK c \in certs, w \in CertRows : certs' = (certs \ {c}) \cup {w} /\ w.dom = c.dom /\ w.path = c.path
    BY <1>7, <1>k, FallDueStep
  <2>3. \A x \in certs' : x.path => Whole(x.dom)
    BY <2>2 DEF RealInv
  <2>4. QED
    BY <2>1, <2>3 DEF RealInv, SoundRequest, Real, Whole
<1>8. QED
  BY <1>2, <1>3, <1>4, <1>5, <1>6, <1>7

RealAll == IInv /\ RealInv

LEMMA RealInit == Init => RealAll
<1> SUFFICES ASSUME Init PROVE RealAll
  OBVIOUS
<1>1. \A r \in Rows : r.cert \in Domains => Whole(r.cert)
  <2>1. TAKE r \in Rows
  <2>2. ASSUME r.cert \in Domains PROVE files[r.cert] = [crt |-> 1, key |-> 1]
    BY <2>2, InitFits
  <2>3. QED
    BY <2>2 DEF Whole
<1>2. \A r \in Rows : r.cert \in Domains \cup {"self"}
  BY InboundsAssumption DEF InboundsAssumption
<1>3. \A ib \in inbounds : Real(ib.cert)
  BY <1>1, <1>2, InitFits DEF Real
<1>4. \A c \in certs : c.path => Whole(c.dom)
  BY <1>1, InitFits
<1>5. \A s \in Sources : SoundRequest(req[s])
  BY InitFits, IdleFits DEF SoundRequest, Saving
<1>6. QED
  BY <1>3, <1>4, <1>5, IInvInit DEF RealAll, RealInv

LEMMA RealNext == RealAll /\ [Next]_vars => RealAll'
<1> SUFFICES ASSUME RealAll, [Next]_vars PROVE RealAll'
  OBVIOUS
<1>1. IInv'
  BY IInvNext DEF RealAll
<1>2. CASE UNCHANGED vars
  BY <1>1, <1>2 DEF RealAll, RealInv, SoundRequest, Real, Whole, vars, db, disk
<1>3. CASE Next
  BY <1>1, <1>3, RealServe, RealOther DEF RealAll, Next
<1>4. QED
  BY <1>2, <1>3

\* Whatever happens to certificates while a form is open, no inbound is saved with
\* a certificate that has no files (applyCertDomain, cert.Manager.issue).
THEOREM CertsAreThere == Spec => []CertsAreReal
<1>1. RealAll => CertsAreReal
  <2>1. ASSUME IInv, RealInv, NEW ib \in inbounds PROVE ib.cert = "self" \/ (ib.cert # "none" /\ Whole(ib.cert))
    <3>1. ib.cert \in Names
      BY <2>1 DEF IInv, InboundsTypeOK, TableOK, Inbs
    <3>2. QED
      BY <2>1, <3>1, NamesApart DEF RealInv, Real, Names
  <2>2. QED
    BY <2>1 DEF RealAll, CertsAreReal, Whole
<1>2. QED
  BY <1>1, RealInit, RealNext, PTL DEF Spec

(***************************************************************************)
(* The list                                                                *)
(***************************************************************************)
Listing == <<certs, orphans, clashed>>

LEMMA KnownStays == ASSUME UNCHANGED Listing, NEW n PROVE Known(n)' = Known(n) /\ Listed(n)' = Listed(n) /\ Excused(n)' = Excused(n)
BY DEF Listing, Known, Excused, Listed

\* A step that leaves the certificates alone.
LEMMA ListKept ==
  ASSUME InboundsTypeOK, ListInv, NEW s \in Sources, NEW q, Moves(s, q), May(s, q), UNCHANGED Listing,
         \A ib \in inbounds' : ib \in inbounds \/ Known(ib.cert),
         q.pc = "write" => \A ib \in q.patch : Known(ib.cert),
         q.pc \in Writing /\ ~q.replaced => q.dom \in clashed \/ ~Listed(q.dom)
  PROVE  ListInv'
<1>1. \A u \in Sources : req'[u] = IF u = s THEN q ELSE req[u]
  BY MovesFit DEF InboundsTypeOK
<1>2. \A c, d \in certs' : c.dom = d.dom /\ c # d => c.dom \in clashed'
  BY DEF ListInv, Listing
<1>3. \A ib \in inbounds' : Known(ib.cert)'
  BY KnownStays DEF ListInv
<1>4. ASSUME NEW u \in Sources PROVE KnownRequest(req[u])'
  <2>1. PICK r : r = req'[u]
    OBVIOUS
  <2>2. r = q \/ r = req[u]
    BY <1>1, <2>1
  <2>3. KnownRequest(r)
    <3>1. CASE r = q
      BY <3>1 DEF KnownRequest
    <3>2. CASE r = req[u]
      BY <3>2 DEF ListInv
    <3>3. QED
      BY <2>2, <3>1, <3>2
  <2>4. KnownRequest(r)'
    BY <2>3, KnownStays DEF KnownRequest, Listing
  <2>5. QED
    BY <2>1, <2>4 DEF KnownRequest, Known, Excused, Listed
<1>5. QED
  BY <1>2, <1>3, <1>4 DEF ListInv

PlainPcs == (QuietPcs \ Writing) \cup {"saveCert", "saveFailed", "saveAuto", "findCert"}

LEMMA ListQuiet ==
  ASSUME InboundsTypeOK, ListInv, NEW s \in Sources, NEW q, Moves(s, q), May(s, q), q.pc \in PlainPcs,
         UNCHANGED Listing, inbounds' \subseteq inbounds
  PROVE  ListInv'
BY ListKept DEF PlainPcs, QuietPcs, Writing

LEMMA PlainOnes ==
  /\ Idle.pc \in PlainPcs /\ AskPcs \subseteq PlainPcs
  /\ {"idle", "pass", "apply", "delete", "obtain", "findFailed"} \subseteq PlainPcs
  /\ {"saveCert", "saveFailed", "saveAuto", "findCert"} \subseteq PlainPcs
BY IdleFits DEF PlainPcs, QuietPcs, AskPcs, PassPcs, TabPcs, Issuing, Writing

\* A step that writes or takes away a row.
LEMMA ListMoved ==
  ASSUME InboundsTypeOK, ListInv, NEW s \in Sources, NEW q, Moves(s, q), May(s, q), q.pc \in PlainPcs,
         UNCHANGED inbounds,
         \A c, d \in certs' : c.dom = d.dom /\ c # d => c.dom \in clashed',
         \A n : Known(n) => Known(n)',
         clashed \subseteq clashed',
         \A n : Listed(n)' => \/ Listed(n) \/ n \in clashed'
                             \/ \A u \in Sources \ {s} : req[u].dom = n => req[u].pc \notin Writing \/ req[u].replaced
  PROVE  ListInv'
<1>1. \A u \in Sources : req'[u] = IF u = s THEN q ELSE req[u]
  BY MovesFit DEF InboundsTypeOK
<1>2. \A ib \in inbounds' : Known(ib.cert)'
  BY DEF ListInv
<1>3. ASSUME NEW u \in Sources PROVE KnownRequest(req[u])'
  <2>1. PICK r : r = req'[u]
    OBVIOUS
  <2>2. KnownRequest(r)'
    <3>1. CASE u = s
      <4>1. r.pc # "write" /\ r.pc \notin Writing
        BY <1>1, <2>1, <3>1 DEF PlainPcs, QuietPcs, Writing
      <4>2. QED
        BY <4>1 DEF KnownRequest
    <3>2. CASE u # s
      <4>1. r = req[u] /\ KnownRequest(r)
        BY <1>1, <2>1, <3>2 DEF ListInv
      <4>2. r.pc = "write" => \A ib \in r.patch : Known(ib.cert)'
        BY <4>1 DEF KnownRequest
      <4>3. ASSUME r.pc \in Writing, ~r.replaced, Listed(r.dom)' PROVE r.dom \in clashed'
        BY <3>2, <4>1, <4>3 DEF KnownRequest
      <4>4. QED
        BY <4>2, <4>3 DEF KnownRequest
    <3>3. QED
      BY <3>1, <3>2
  <2>3. QED
    BY <2>1, <2>2 DEF KnownRequest, Known, Excused, Listed
<1>4. QED
  BY <1>2, <1>3 DEF ListInv

\* A row that is written stands for its name as the one that it replaces did, or
\* the name is in the history of clashes.
LEMMA ListSaved ==
  ASSUME IInv, ListInv, NEW s \in Sources, NEW q, Moves(s, q), May(s, q), q.pc \in PlainPcs,
         NEW w, Wrote(s, w), Saved(s, w), UNCHANGED <<inbounds, orphans>>
  PROVE  ListInv'
<1>k. InboundsTypeOK /\ RowsInv
  BY DEF IInv
<1>c. certs' = {c \in certs : c.id # w.id} \cup {w} /\ clashed' = IF Clash(s, w) THEN clashed \cup {w.dom} ELSE clashed
  BY DEF Saved
<1>m. clashed \subseteq clashed' /\ (Clash(s, w) => w.dom \in clashed')
  BY <1>c
<1>1. \A c \in certs : c.id = w.id => c.dom = w.dom
  <2>1. TAKE c \in certs
  <2>2. HAVE c.id = w.id
  <2>3. c.id # nextCert
    BY <1>k DEF RowsInv, InboundsTypeOK, TableOK, CertRows
  <2>4. Held(req[s]) /\ w.id = req[s].row.id /\ w.dom = req[s].row.dom
    BY <2>2, <2>3 DEF Wrote
  <2>5. QED
    BY <1>k, <2>2, <2>4 DEF RowsInv
<1>2. \A c, d \in certs' : c.dom = d.dom /\ c # d => c.dom \in clashed'
  <2>1. TAKE c, d \in certs'
  <2>2. HAVE c.dom = d.dom /\ c # d
  <2>3. CASE c \in certs /\ d \in certs
    BY <1>m, <2>2, <2>3 DEF ListInv
  <2>4. ASSUME NEW x \in certs, x.id # w.id, x.dom = w.dom PROVE w.dom \in clashed'
    BY <1>m, <2>4 DEF Clash
  <2>5. CASE c = w
    BY <1>c, <2>2, <2>4, <2>5
  <2>6. CASE d = w
    BY <1>c, <2>2, <2>4, <2>6
  <2>7. QED
    BY <1>c, <2>3, <2>5, <2>6
<1>3. ASSUME NEW n, Listed(n) PROVE Listed(n)' \/ n \in clashed'
  <2>1. PICK c \in certs : c.dom = n /\ c.path
    BY <1>3 DEF Listed
  <2>2. CASE c.id # w.id
    BY <1>c, <2>1, <2>2 DEF Listed
  <2>3. CASE c.id = w.id /\ w.path
    BY <1>1, <1>c, <2>1, <2>3 DEF Listed
  <2>4. CASE c.id = w.id /\ ~w.path
    BY <1>1, <1>m, <2>1, <2>4 DEF Clash
  <2>5. QED
    BY <2>2, <2>3, <2>4
<1>4. \A n : Known(n) => Known(n)'
  BY <1>3, <1>m DEF Known, Excused
<1>5. \A n : Listed(n)' => \/ Listed(n) \/ n \in clashed'
                          \/ \A u \in Sources \ {s} : req[u].dom = n => req[u].pc \notin Writing \/ req[u].replaced
  <2>1. TAKE n
  <2>2. HAVE Listed(n)'
  <2>3. PICK c \in certs' : c.dom = n /\ c.path
    BY <2>2 DEF Listed
  <2>4. CASE c \in certs
    BY <2>3, <2>4 DEF Listed
  <2>5. CASE c = w
    <3>1. ASSUME NEW u \in Sources \ {s}, req[u].dom = n, req[u].pc \in Writing, ~req[u].replaced PROVE n \in clashed'
      BY <1>m, <2>3, <2>5, <3>1 DEF Clash, Writing
    <3>2. QED
      BY <3>1
  <2>6. QED
    BY <1>c, <2>4, <2>5
<1>6. QED
  BY <1>k, <1>2, <1>4, <1>5, <1>m, ListMoved

LEMMA ListServe ==
  ASSUME IInv, ListInv, NEW s \in Sources, Serve(s)
  PROVE  ListInv'
<1>k. InboundsTypeOK /\ RowsInv
  BY DEF IInv
<1>1. CASE ReadInbound(s)
  <2>1. Still
    BY <1>1, <1>k, ReadStep
  <2>2. PICK q : /\ Moves(s, q) /\ May(s, q)
                 /\ \/ q = Idle
                    \/ /\ q.pc = "write"
                       /\ \E x \in Inbs, ib \in inbounds :
                            q.patch = {x} /\ (x.cert = ib.cert \/ x.cert = "self" \/ Listed(x.cert))
    BY <1>1, <1>k, ReadStep
  <2>u. UNCHANGED Listing /\ UNCHANGED inbounds
    BY <2>1 DEF Still, db, past, Listing
  <2>3. CASE q = Idle
    BY <1>k, <2>2, <2>3, <2>u, PlainOnes, ListQuiet
  <2>4. CASE q.pc = "write"
    <3>0. q # Idle
      BY <2>4, IdleFits
    <3>1. PICK x \in Inbs, ib \in inbounds : q.patch = {x} /\ (x.cert = ib.cert \/ x.cert = "self" \/ Listed(x.cert))
      BY <2>2, <3>0
    <3>2. Known(x.cert)
      BY <3>1 DEF ListInv, Known, Excused
    <3>3. q.pc \notin Writing /\ \A y \in q.patch : Known(y.cert)
      BY <2>4, <3>1, <3>2 DEF Writing
    <3>4. QED
      BY <1>k, <2>2, <2>u, <3>3, ListKept
  <2>5. QED
    BY <2>2, <2>3, <2>4
<1>2. CASE WriteInbound(s)
  <2>1. PICK row \in Inbs : \E q : /\ row \in req[s].patch /\ Moves(s, q) /\ May(s, q)
                                   /\ \/ q = Idle /\ inbounds' = inbounds
                                      \/ q.pc = "apply" /\ inbounds' = {ib \in inbounds : ib.id # row.id} \cup {row}
    BY <1>2, <1>k, WriteStep
  <2>2. PICK q : /\ row \in req[s].patch /\ Moves(s, q) /\ May(s, q)
                 /\ \/ q = Idle /\ inbounds' = inbounds
                    \/ q.pc = "apply" /\ inbounds' = {ib \in inbounds : ib.id # row.id} \cup {row}
    BY <2>1
  <2>3. UNCHANGED Listing /\ At(s, "write")
    BY <1>2, <1>k, WriteStep DEF past, Listing
  <2>4. Known(row.cert)
    BY <2>2, <2>3 DEF ListInv, KnownRequest, At
  <2>5. \A ib \in inbounds' : ib \in inbounds \/ Known(ib.cert)
    BY <2>2, <2>4
  <2>6. q.pc # "write" /\ q.pc \notin Writing
    BY <2>2, IdleFits DEF Writing
  <2>7. QED
    BY <1>k, <2>2, <2>3, <2>5, <2>6, ListKept
<1>3. CASE DeleteInbound(s)
  <2>1. UNCHANGED Listing /\ inbounds' \subseteq inbounds /\ \E q : Moves(s, q) /\ May(s, q) /\ q.pc = "apply"
    BY <1>3, <1>k, DeleteStep DEF past, Listing
  <2>2. QED
    BY <1>k, <2>1, PlainOnes, ListQuiet
<1>4. CASE ApplyAfterChange(s)
  <2>1. UNCHANGED Listing /\ UNCHANGED inbounds /\ \E q : Moves(s, q) /\ May(s, q) /\ q.pc \in {"delete", "idle"}
    BY <1>4, <1>k, ApplyStep DEF db, past, Listing
  <2>2. QED
    BY <1>k, <2>1, PlainOnes, ListQuiet
<1>5. CASE GetCert(s)
  <2>1. UNCHANGED Listing /\ UNCHANGED inbounds /\ \E q : Moves(s, q) /\ May(s, q) /\ q.pc \in {"idle", "obtain"}
    BY <1>5, <1>k, GetCertStep DEF Still, db, past, Listing
  <2>2. QED
    BY <1>k, <2>1, PlainOnes, ListQuiet
<1>6. CASE Obtain(s)
  <2>1. UNCHANGED Listing /\ UNCHANGED inbounds
    BY <1>6, <1>k, ObtainStep DEF db, Listing
  <2>2. PICK q : /\ Moves(s, q) /\ May(s, q)
                 /\ \/ q.pc = "crt" /\ q.dom \in Domains /\ (q.replaced = findCert(q.dom).path)
                    \/ q.pc = "findFailed"
    BY <1>6, <1>k, ObtainStep
  <2>3. CASE q.pc = "findFailed"
    BY <1>k, <2>1, <2>2, <2>3, PlainOnes, ListQuiet
  <2>4. CASE q.pc = "crt"
    <3>1. ASSUME ~q.replaced PROVE q.dom \in clashed \/ ~Listed(q.dom)
      <4>1. CASE Named(q.dom) = {}
        BY <4>1 DEF Named, Listed
      <4>2. CASE Named(q.dom) # {}
        <5>1. PICK f : f = findCert(q.dom)
          OBVIOUS
        <5>2. f \in certs /\ f.dom = q.dom
          BY <1>k, <4>2, <5>1, FindFits DEF InboundsTypeOK, TableOK
        <5>3. ~f.path
          BY <2>2, <2>4, <3>1, <5>1
        <5>4. QED
          BY <5>2, <5>3 DEF ListInv, Listed
      <4>3. QED
        BY <4>1, <4>2
    <3>2. QED
      BY <1>k, <2>1, <2>2, <2>4, <3>1, ListKept
  <2>5. QED
    BY <2>2, <2>3, <2>4
<1>7. ASSUME NEW at \in {"crt", "key"}, NEW next \in {"key", "findCert"}, NEW field \in {"crt", "key"},
             WriteFile(s, at, field, next)
      PROVE  ListInv'
  <2>1. PICK q : Moves(s, q) /\ May(s, q) /\ (FileWritten(s, q, field, next) \/ FileFailed(s, q))
    BY <1>7, <1>k, FileStep
  <2>2. UNCHANGED Listing /\ UNCHANGED inbounds /\ At(s, at)
    BY <1>7, <1>k, FileStep DEF db, Listing
  <2>3. CASE FileWritten(s, q, field, next)
    <3>1. q.dom = req[s].dom /\ q.replaced = req[s].replaced /\ q.pc # "write"
      BY <2>3 DEF FileWritten
    <3>2. req[s].pc \in Writing
      BY <2>2 DEF At, Writing
    <3>3. ~q.replaced => q.dom \in clashed \/ ~Listed(q.dom)
      BY <3>1, <3>2 DEF ListInv, KnownRequest
    <3>4. QED
      BY <1>k, <2>1, <2>2, <3>1, <3>3, ListKept
  <2>4. CASE FileFailed(s, q)
    <3>1. q.pc \in PlainPcs
      BY <2>4, PlainOnes DEF FileFailed
    <3>2. QED
      BY <1>k, <2>1, <2>2, <3>1, ListQuiet
  <2>5. QED
    BY <2>1, <2>3, <2>4
<1>8. CASE WriteCrt(s) \/ WriteKey(s)
  BY <1>7, <1>8 DEF WriteCrt, WriteKey
<1>9. CASE FindRow(s)
  <2>1. UNCHANGED Listing /\ UNCHANGED inbounds
    BY <1>9, <1>k, FindRowStep DEF Still, db, past, Listing
  <2>2. PICK q : Moves(s, q) /\ May(s, q) /\ q.pc \in {"saveCert", "saveFailed"}
    BY <1>9, <1>k, FindRowStep
  <2>3. QED
    BY <1>k, <2>1, <2>2, PlainOnes, ListQuiet
<1>10. CASE SaveCert(s)
  <2>1. PICK q : Moves(s, q) /\ May(s, q) /\ q.pc \in {"idle", "pass"}
    BY <1>10, <1>k, SaveCertStep
  <2>2. PICK w : Wrote(s, w) /\ (Saved(s, w) \/ UNCHANGED <<certs, nextCert, clashed>>)
    BY <1>10, <1>k, SaveCertStep
  <2>3. UNCHANGED <<inbounds, orphans>>
    BY <1>10, <1>k, SaveCertStep
  <2>4. q.pc \in PlainPcs
    BY <2>1, PlainOnes
  <2>5. CASE Saved(s, w)
    BY <2>1, <2>2, <2>3, <2>4, <2>5, ListSaved
  <2>6. CASE UNCHANGED <<certs, nextCert, clashed>>
    BY <1>k, <2>1, <2>3, <2>4, <2>6, ListQuiet DEF Listing
  <2>7. QED
    BY <2>2, <2>5, <2>6
<1>11. CASE RecordFailure(s)
  <2>1. PICK q : Moves(s, q) /\ May(s, q) /\ q.pc \in {"idle", "pass"}
    BY <1>11, <1>k, RecordFailureStep
  <2>2. PICK w : Wrote(s, w) /\ Saved(s, w)
    BY <1>11, <1>k, RecordFailureStep
  <2>3. UNCHANGED <<inbounds, orphans>>
    BY <1>11, <1>k, RecordFailureStep
  <2>4. QED
    BY <2>1, <2>2, <2>3, PlainOnes, ListSaved
<1>12. CASE SetCertAutoRenew(s)
  <2>1. CASE At(s, "findAuto")
    <3>1. PICK q : Moves(s, q) /\ May(s, q) /\ (q = Idle \/ q.pc = "saveAuto")
      BY <1>12, <1>k, <2>1, FindAutoStep
    <3>2. UNCHANGED Listing /\ UNCHANGED inbounds
      BY <1>12, <1>k, <2>1, FindAutoStep DEF Still, db, past, Listing
    <3>3. QED
      BY <1>k, <3>1, <3>2, PlainOnes, ListQuiet
  <2>2. CASE At(s, "saveAuto")
    <3>1. req[s].row.id # 0
      BY <1>k, <2>2 DEF RowsInv, At
    <3>2. PICK w : Wrote(s, w) /\ Saved(s, w)
      BY <1>12, <1>k, <2>2, <3>1, SaveAutoStep
    <3>3. UNCHANGED <<inbounds, orphans>> /\ Moves(s, Idle) /\ May(s, Idle)
      BY <1>12, <1>k, <2>2, <3>1, SaveAutoStep
    <3>q. PICK q : q = Idle
      OBVIOUS
    <3>4. QED
      BY <3>2, <3>3, <3>q, PlainOnes, ListSaved
  <2>3. QED
    BY <1>12, <2>1, <2>2 DEF SetCertAutoRenew
<1>13. CASE DeleteCert(s)
  <2>1. /\ UNCHANGED <<inbounds, clashed>> /\ certs' \subseteq certs
        /\ \A c \in certs : c \in certs' \/ ~c.path \/ c.dom \in orphans'
        /\ orphans \subseteq orphans' /\ Moves(s, Idle) /\ May(s, Idle)
    BY <1>13, <1>k, DeleteCertStep
  <2>q. PICK q : q = Idle
    OBVIOUS
  <2>2. Moves(s, q) /\ May(s, q) /\ q.pc \in PlainPcs
    BY <2>1, <2>q, PlainOnes
  <2>3. \A n : Known(n) => Known(n)'
    BY <2>1 DEF Known, Excused, Listed
  <2>4. \A c, d \in certs' : c.dom = d.dom /\ c # d => c.dom \in clashed'
    BY <2>1 DEF ListInv
  <2>5. \A n : Listed(n)' => Listed(n)
    BY <2>1 DEF Listed
  <2>6. QED
    BY <1>k, <2>1, <2>2, <2>3, <2>4, <2>5, ListMoved
<1>14. QED
  BY <1>1, <1>2, <1>3, <1>4, <1>5, <1>6, <1>8, <1>9, <1>10, <1>11, <1>12, <1>13 DEF Serve

LEMMA ListOther ==
  ASSUME IInv, ListInv, \/ \E t \in Tabs : Refetch(t) \/ Operator(t)
                        \/ StartPass \/ PassNext \/ OnReplaced \/ FallDue
  PROVE  ListInv'
<1>k. InboundsTypeOK
  BY DEF IInv
<1>1. ASSUME UNCHANGED <<inbounds, req, Listing>> PROVE ListInv'
  BY <1>1 DEF ListInv, KnownRequest, Known, Excused, Listed, Listing
<1>2. ASSUME NEW t \in Tabs, Refetch(t) PROVE ListInv'
  BY <1>1, <1>2 DEF Refetch, db, past, Listing
<1>3. ASSUME NEW t \in Tabs, Operator(t) PROVE ListInv'
  <2>1. PICK q : q.pc \in AskPcs /\ Moves(t, q) /\ May(t, q)
    BY <1>3, <1>k, OperatorStep
  <2>2. UNCHANGED Listing /\ UNCHANGED inbounds
    BY <1>3, <1>k, OperatorStep DEF Kept, db, past, Listing
  <2>3. QED
    BY <1>k, <2>1, <2>2, PlainOnes, ListQuiet, NamesApart
<1>4. CASE StartPass
  <2>1. PICK q : Moves("sched", q) /\ May("sched", q) /\ q.pc = "pass"
    BY <1>4, <1>k, StartPassStep
  <2>2. UNCHANGED Listing /\ UNCHANGED inbounds
    BY <1>4, <1>k, StartPassStep DEF Kept, db, past, Listing
  <2>3. QED
    BY <1>k, <2>1, <2>2, PlainOnes, ListQuiet, NamesApart
<1>5. CASE PassNext
  <2>1. PICK q : Moves("sched", q) /\ May("sched", q) /\ (q = Idle \/ q.pc \in {"pass", "obtain"})
    BY <1>5, <1>k, PassNextStep
  <2>2. UNCHANGED Listing /\ UNCHANGED inbounds
    BY <1>5, <1>k, PassNextStep DEF db, past, Listing
  <2>3. q.pc \in PlainPcs
    BY <2>1, PlainOnes
  <2>4. QED
    BY <1>k, <2>1, <2>2, <2>3, ListQuiet, NamesApart
<1>6. CASE OnReplaced
  BY <1>1, <1>6, <1>k, HookStep DEF db, past, Listing
<1>7. CASE FallDue
  <2>1. UNCHANGED <<inbounds, req, orphans, clashed>>
    BY <1>7, <1>k, FallDueStep DEF past
  <2>2. PICK c \in certs, w \in CertRows : certs' = (certs \ {c}) \cup {w} /\ w.dom = c.dom /\ w.path = c.path
    BY <1>7, <1>k, FallDueStep
  <2>3. \A n : Listed(n)' <=> Listed(n)
    BY <2>2 DEF Listed
  <2>4. \A n : Known(n) => Known(n)'
    BY <2>1, <2>3 DEF Known, Excused
  <2>5. \A x, y \in certs' : x.dom = y.dom /\ x # y => x.dom \in clashed'
    BY <2>1, <2>2 DEF ListInv
  <2>6. ASSUME NEW u \in Sources PROVE KnownRequest(req[u])'
    <3>1. PICK r : r = req[u]
      OBVIOUS
    <3>2. KnownRequest(r)
      BY <3>1 DEF ListInv
    <3>3. KnownRequest(r)'
      BY <2>1, <2>3, <2>4, <3>2 DEF KnownRequest
    <3>4. QED
      BY <2>1, <3>1, <3>3 DEF KnownRequest, Known, Excused, Listed
  <2>7. QED
    BY <2>1, <2>4, <2>5, <2>6 DEF ListInv
<1>8. QED
  BY <1>2, <1>3, <1>4, <1>5, <1>6, <1>7

(***************************************************************************)
(* The engines                                                             *)
(***************************************************************************)
\* Nothing that was owed is forgotten by a step of s to q.
Carries(s, q) ==
  /\ reload => reload'
  /\ s = "sched" /\ req[s].hook => q.hook \/ reload'
  /\ req[s].pc # "apply"
  /\ req[s].pc \in {"key", "findCert", "saveCert"} /\ req[s].replaced =>
       \/ reload' \/ (s = "sched" /\ q.hook)
       \/ q.pc \in {"key", "findCert", "saveCert"} /\ q.replaced /\ q.dom = req[s].dom

LEMMA StillOwed ==
  ASSUME InboundsTypeOK, NEW s \in Sources, NEW q, Moves(s, q), May(s, q), Carries(s, q), NEW d, Owed(d)
  PROVE  Owed(d)'
<1>1. \A u \in Sources : req'[u] = IF u = s THEN q ELSE req[u]
  BY MovesFit DEF InboundsTypeOK
<1>o. (\/ reload' \/ req'["sched"].hook
       \/ \E u \in Sources : req'[u].pc = "apply"
       \/ \E u \in Sources : req'[u].pc \in {"key", "findCert", "saveCert"} /\ req'[u].replaced /\ req'[u].dom = d) => Owed(d)'
  BY DEF Owed, Replacing
<1>2. CASE reload
  BY <1>2, <1>o DEF Carries
<1>3. CASE req["sched"].hook
  BY <1>1, <1>3, <1>o, NamesApart DEF Carries
<1>4. ASSUME NEW u \in Sources, req[u].pc = "apply" PROVE Owed(d)'
  BY <1>1, <1>4, <1>o DEF Carries
<1>5. ASSUME NEW u \in Sources, req[u].pc \in {"key", "findCert", "saveCert"}, req[u].replaced, req[u].dom = d PROVE Owed(d)'
  <2>1. CASE u # s
    BY <1>1, <1>5, <1>o, <2>1
  <2>2. CASE u = s
    <3>1. CASE reload'
      BY <1>o, <3>1
    <3>2. CASE s = "sched" /\ q.hook
      BY <1>1, <1>o, <3>2, NamesApart
    <3>3. CASE q.pc \in {"key", "findCert", "saveCert"} /\ q.replaced /\ q.dom = req[s].dom
      BY <1>1, <1>5, <1>o, <2>2, <3>3
    <3>4. QED
      BY <1>5, <2>2, <3>1, <3>2, <3>3 DEF Carries
  <2>3. QED
    BY <2>1, <2>2
<1>6. QED
  BY <1>2, <1>3, <1>4, <1>5 DEF Owed, Replacing

\* What an engine serves, of an inbound.
Served(ib) == ib.on /\ ~Excused(ib.cert) => loaded[ib.cert] = files[ib.cert] \/ Owed(ib.cert)

\* A step that writes no file.
LEMMA CalmKept ==
  ASSUME InboundsTypeOK, CalmInv, NEW s \in Sources, NEW q, Moves(s, q), May(s, q), UNCHANGED files,
         req[s].pc # "key", q.pc # "key", \A ib \in inbounds' : Served(ib)'
  PROVE  CalmInv'
<1>1. \A u \in Sources : req'[u] = IF u = s THEN q ELSE req[u]
  BY MovesFit DEF InboundsTypeOK
<1>2. \A u \in Sources : req'[u].pc = "key" => files'[req'[u].dom].crt = req'[u].gen
  BY <1>1 DEF CalmInv
<1>3. \A d \in Domains : files'[d].crt = files'[d].key \/ \E u \in Sources : req'[u].pc = "key" /\ req'[u].dom = d
  BY <1>1 DEF CalmInv
<1>4. QED
  BY <1>2, <1>3 DEF CalmInv, Served

LEMMA ServedStays ==
  ASSUME InboundsTypeOK, CalmInv, NEW s \in Sources, NEW q, Moves(s, q), May(s, q), Carries(s, q),
         UNCHANGED <<files, loaded>>, orphans \subseteq orphans', clashed \subseteq clashed', NEW ib \in inbounds
  PROVE  Served(ib)'
<1>1. Excused(ib.cert) => Excused(ib.cert)'
  BY DEF Excused
<1>2. Owed(ib.cert) => Owed(ib.cert)'
  BY StillOwed
<1>3. QED
  BY <1>1, <1>2 DEF CalmInv, Served

\* Whoever is not replacing anything has nothing to carry.
Empty == (PassPcs \cup TabPcs) \ {"apply", "key", "findCert", "saveCert"}

LEMMA CalmQuiet ==
  ASSUME InboundsTypeOK, CalmInv, NEW s \in Sources, NEW q, Moves(s, q), May(s, q),
         req[s].pc \in Empty, q.pc \in Empty, reload => reload', s = "sched" /\ req[s].hook => q.hook \/ reload',
         UNCHANGED <<files, loaded>>, orphans \subseteq orphans', clashed \subseteq clashed', inbounds' \subseteq inbounds
  PROVE  CalmInv'
<1>1. Carries(s, q)
  BY DEF Carries, Empty
<1>2. \A ib \in inbounds' : Served(ib)'
  BY <1>1, ServedStays
<1>3. req[s].pc # "key" /\ q.pc # "key"
  BY DEF Empty
<1>4. QED
  BY <1>2, <1>3, CalmKept

LEMMA EmptyOnes ==
  /\ Idle.pc \in Empty /\ AskPcs \subseteq Empty
  /\ {"idle", "pass", "delete", "obtain", "findFailed", "crt", "write", "saveFailed", "saveAuto", "read", "getCert",
      "findAuto", "deleteCert"} \subseteq Empty
BY IdleFits DEF Empty, AskPcs, PassPcs, TabPcs, Issuing

\* Someone is about to apply.
LEMMA CalmToApply ==
  ASSUME InboundsTypeOK, CalmInv, NEW s \in Sources, NEW q, Moves(s, q), May(s, q),
         req[s].pc \in Empty, q.pc = "apply", UNCHANGED files
  PROVE  CalmInv'
<1>1. \A u \in Sources : req'[u] = IF u = s THEN q ELSE req[u]
  BY MovesFit DEF InboundsTypeOK
<1>2. \A n : Owed(n)'
  BY <1>1 DEF Owed
<1>3. \A ib \in inbounds' : Served(ib)'
  BY <1>2 DEF Served
<1>4. req[s].pc # "key" /\ q.pc # "key"
  BY DEF Empty
<1>5. QED
  BY <1>3, <1>4, CalmKept

\* All of them have been read.
LEMMA AllServed ==
  ASSUME InboundsTypeOK, loaded' = Serving, UNCHANGED <<files, inbounds>>, NEW ib \in inbounds
  PROVE  Served(ib)'
<1>1. ib.cert \in Names
  BY DEF InboundsTypeOK, TableOK, Inbs
<1>2. CASE ib.cert = "self"
  BY <1>2 DEF Served, Excused
<1>3. CASE ib.cert \in Domains /\ ib.on
  <2>1. loaded'[ib.cert] = files[ib.cert]
    BY <1>3 DEF Serving
  <2>2. QED
    BY <2>1 DEF Served
<1>4. CASE ~ib.on
  BY <1>4 DEF Served
<1>5. QED
  BY <1>1, <1>2, <1>3, <1>4 DEF Names

\* One of the two files is written.
LEMMA CalmWrite ==
  ASSUME InboundsTypeOK, ListInv, CalmInv, NEW s \in Sources, NEW q, Moves(s, q), May(s, q),
         NEW at \in {"crt", "key"}, NEW next \in {"key", "findCert"}, at = "crt" => next = "key", at = "key" => next = "findCert",
         At(s, at), FileWritten(s, q, at, next), UNCHANGED <<inbounds, loaded, clashed, orphans>>,
         req[s].dom \in Domains, req[s].gen \in Nat,
         \A u \in Sources \ {s} : ~(req[u].dom = req[s].dom /\ req[u].pc \in {"crt", "key"})
  PROVE  CalmInv'
<1> DEFINE d == req[s].dom
           g == req[s].gen
<1>1. \A u \in Sources : req'[u] = IF u = s THEN q ELSE req[u]
  BY MovesFit DEF InboundsTypeOK
<1>q. q.pc = next /\ q.dom = d /\ q.gen = g /\ q.replaced = req[s].replaced /\ q.hook = req[s].hook /\ UNCHANGED <<reload, faults>>
      /\ files' = [files EXCEPT ![d][at] = g]
  BY DEF FileWritten
<1>f. /\ \A e \in Domains : e # d => files'[e] = files[e]
      /\ at = "crt" => files'[d].crt = g /\ files'[d].key = files[d].key
      /\ at = "key" => files'[d].key = g /\ files'[d].crt = files[d].crt
  BY <1>q, WriteStepFits
<1>s. req[s].pc = at /\ req[s].pc \in Writing
  BY DEF At, Writing
<1>u. \A u \in Sources : u # s /\ req[u].pc = "key" => req[u].dom \in Domains /\ req[u].dom # d
  BY RequestFits DEF Holds, Issuing
<1>2. ASSUME NEW u \in Sources, req'[u].pc = "key" PROVE files'[req'[u].dom].crt = req'[u].gen
  <2>1. CASE u = s
    BY <1>1, <1>2, <1>f, <1>q, <2>1
  <2>2. CASE u # s
    BY <1>1, <1>2, <1>f, <1>u, <2>2 DEF CalmInv
  <2>3. QED
    BY <2>1, <2>2
<1>3. ASSUME NEW e \in Domains PROVE files'[e].crt = files'[e].key \/ \E u \in Sources : req'[u].pc = "key" /\ req'[u].dom = e
  <2>1. CASE e = d /\ at = "crt"
    BY <1>1, <1>q, <2>1
  <2>2. CASE e = d /\ at = "key"
    <3>1. files[d].crt = g
      BY <1>s, <2>2 DEF CalmInv
    <3>2. QED
      BY <1>f, <2>2, <3>1
  <2>3. CASE e # d
    <3>1. CASE files[e].crt = files[e].key
      BY <1>f, <2>3, <3>1
    <3>2. ASSUME NEW u \in Sources, req[u].pc = "key", req[u].dom = e PROVE req'[u].pc = "key" /\ req'[u].dom = e
      BY <1>1, <2>3, <3>2
    <3>3. QED
      BY <3>1, <3>2 DEF CalmInv
  <2>4. QED
    BY <2>1, <2>2, <2>3
<1>4. ASSUME NEW ib \in inbounds', ib.on, ~Excused(ib.cert)' PROVE loaded'[ib.cert] = files'[ib.cert] \/ Owed(ib.cert)'
  <2>1. ib \in inbounds /\ ~Excused(ib.cert)
    BY <1>4 DEF Excused
  <2>2. ib.cert \in Domains
    BY <2>1 DEF InboundsTypeOK, TableOK, Inbs, Names, Excused
  <2>3. CASE ib.cert = d
    <3>1. Listed(d) /\ d \notin clashed
      BY <2>1, <2>3 DEF ListInv, Known, Excused
    <3>2. req[s].replaced
      BY <1>s, <3>1 DEF ListInv, KnownRequest
    <3>3. req'[s].pc \in {"key", "findCert", "saveCert"} /\ req'[s].replaced /\ req'[s].dom = ib.cert
      BY <1>1, <1>q, <2>3, <3>2
    <3>4. QED
      BY <3>3 DEF Owed, Replacing
  <2>4. CASE ib.cert # d
    <3>1. loaded[ib.cert] = files[ib.cert] => loaded'[ib.cert] = files'[ib.cert]
      BY <1>f, <2>2, <2>4
    <3>2. Carries(s, q)
      BY <1>q, <1>s DEF Carries
    <3>3. Owed(ib.cert) => Owed(ib.cert)'
      BY <3>2, StillOwed
    <3>4. QED
      BY <1>4, <2>1, <3>1, <3>3 DEF CalmInv
  <2>5. QED
    BY <2>3, <2>4
<1>5. QED
  BY <1>2, <1>3, <1>4 DEF CalmInv

LEMMA Worse ==
  ASSUME InboundsTypeOK, faults' = faults + 1
  PROVE  ~Calm'
BY DEF InboundsTypeOK, TableOK, Calm

LEMMA CalmServe ==
  ASSUME IInv, ListInv, Calm => CalmInv, NEW s \in Sources, Serve(s), Calm'
  PROVE  CalmInv'
<1>k. InboundsTypeOK
  BY DEF IInv
<1>f. faults \in Nat /\ faults' = 0 /\ ~mixed'
  BY <1>k DEF InboundsTypeOK, TableOK, Calm
<1>q. ASSUME Calm, NEW q, Moves(s, q), May(s, q),
             req[s].pc \in Empty, q.pc \in Empty, reload => reload', s = "sched" /\ req[s].hook => q.hook \/ reload',
             UNCHANGED <<files, loaded>>, orphans \subseteq orphans', clashed \subseteq clashed', inbounds' \subseteq inbounds
      PROVE  CalmInv'
  BY <1>k, <1>q, CalmQuiet
<1>t. s \in Tabs => s # "sched"
  BY NamesApart
<1>1. CASE ReadInbound(s)
  <2>1. Still /\ At(s, "read") /\ s \in Tabs
    BY <1>1, <1>k, ReadStep
  <2>2. PICK q : Moves(s, q) /\ May(s, q) /\ (q = Idle \/ q.pc = "write")
    BY <1>1, <1>k, ReadStep
  <2>3. Calm /\ UNCHANGED <<files, loaded, reload, orphans, clashed, inbounds>>
    BY <1>f, <2>1 DEF Still, db, disk, past, Calm
  <2>4. req[s].pc \in Empty /\ q.pc \in Empty
    BY <2>1, <2>2, EmptyOnes DEF At
  <2>5. QED
    BY <1>q, <1>t, <2>1, <2>2, <2>3, <2>4
<1>2. CASE WriteInbound(s)
  <2>1. UNCHANGED <<certs, nextCert, disk, page, past, moves, faults>> /\ At(s, "write") /\ s \in Tabs
    BY <1>2, <1>k, WriteStep
  <2>2. PICK q : Moves(s, q) /\ May(s, q) /\ ((q = Idle /\ inbounds' = inbounds) \/ q.pc = "apply")
    BY <1>2, <1>k, WriteStep
  <2>3. Calm /\ UNCHANGED <<files, loaded, reload, orphans, clashed>>
    BY <1>f, <2>1 DEF disk, past, Calm
  <2>4. req[s].pc \in Empty
    BY <2>1, EmptyOnes DEF At
  <2>5. CASE q = Idle /\ inbounds' = inbounds
    BY <1>q, <1>t, <2>1, <2>2, <2>3, <2>4, <2>5, EmptyOnes
  <2>6. CASE q.pc = "apply"
    BY <1>k, <2>2, <2>3, <2>4, <2>6, CalmToApply
  <2>7. QED
    BY <2>2, <2>5, <2>6
<1>3. CASE DeleteInbound(s)
  <2>1. UNCHANGED <<certs, nextCert, disk, page, past, moves, faults>> /\ At(s, "delete")
    BY <1>3, <1>k, DeleteStep
  <2>2. PICK q : Moves(s, q) /\ May(s, q) /\ q.pc = "apply"
    BY <1>3, <1>k, DeleteStep
  <2>3. Calm /\ UNCHANGED files
    BY <1>f, <2>1 DEF disk, past, Calm
  <2>4. req[s].pc \in Empty
    BY <2>1, EmptyOnes DEF At
  <2>5. QED
    BY <1>k, <2>2, <2>3, <2>4, CalmToApply
<1>4. CASE ApplyAfterChange(s)
  <2>1. UNCHANGED <<db, files, reload, page, past, moves>> /\ Applied /\ At(s, "apply")
    BY <1>4, <1>k, ApplyStep
  <2>2. PICK q : Moves(s, q) /\ May(s, q) /\ q.pc \in {"delete", "idle"}
    BY <1>4, <1>k, ApplyStep
  <2>3. loaded' = Serving /\ UNCHANGED faults
    BY <1>f, <2>1 DEF Applied
  <2>4. Calm /\ UNCHANGED <<files, inbounds>>
    BY <1>f, <2>1, <2>3 DEF Calm, past, db
  <2>5. \A ib \in inbounds' : Served(ib)'
    BY <1>k, <2>3, <2>4, AllServed
  <2>6. req[s].pc # "key" /\ q.pc # "key"
    BY <2>1, <2>2 DEF At
  <2>7. QED
    BY <1>k, <2>2, <2>4, <2>5, <2>6, CalmKept
<1>5. CASE GetCert(s)
  <2>1. Still /\ At(s, "getCert") /\ s \in Tabs
    BY <1>5, <1>k, GetCertStep
  <2>2. PICK q : Moves(s, q) /\ May(s, q) /\ q.pc \in {"idle", "obtain"}
    BY <1>5, <1>k, GetCertStep
  <2>3. Calm /\ UNCHANGED <<files, loaded, reload, orphans, clashed, inbounds>>
    BY <1>f, <2>1 DEF Still, db, disk, past, Calm
  <2>4. req[s].pc \in Empty /\ q.pc \in Empty
    BY <2>1, <2>2, EmptyOnes DEF At
  <2>5. QED
    BY <1>q, <1>t, <2>1, <2>2, <2>3, <2>4
<1>6. CASE Obtain(s)
  <2>1. UNCHANGED <<db, disk, page, crossed, mixed, clashed, orphans, moves, faults>> /\ At(s, "obtain")
    BY <1>6, <1>k, ObtainStep
  <2>2. PICK q : Moves(s, q) /\ May(s, q) /\ q.hook = req[s].hook /\ q.pc \in {"crt", "findFailed"}
    BY <1>6, <1>k, ObtainStep
  <2>3. Calm /\ UNCHANGED <<files, loaded, reload, orphans, clashed, inbounds>>
    BY <1>f, <2>1 DEF db, disk, Calm
  <2>4. req[s].pc \in Empty /\ q.pc \in Empty
    BY <2>1, <2>2, EmptyOnes DEF At
  <2>5. QED
    BY <1>q, <2>2, <2>3, <2>4
<1>7. ASSUME NEW at \in {"crt", "key"}, NEW next \in {"key", "findCert"}, at = "crt" => next = "key",
             at = "key" => next = "findCert", WriteFile(s, at, at, next)
      PROVE  CalmInv'
  <2>1. PICK q : Moves(s, q) /\ May(s, q) /\ (FileWritten(s, q, at, next) \/ FileFailed(s, q))
    BY <1>7, <1>k, FileStep
  <2>2. /\ UNCHANGED <<db, loaded, page, issued, crossed, clashed, orphans, moves>> /\ At(s, at)
        /\ req[s].dom \in Domains /\ req[s].gen \in Nat
        /\ mixed' = (mixed \/ \E u \in Sources \ {s} : req[u].dom = req[s].dom /\ req[u].pc \in {"crt", "key"})
    BY <1>7, <1>k, FileStep
  <2>3. ~FileFailed(s, q)
    BY <1>k, Worse DEF FileFailed
  <2>4. FileWritten(s, q, at, next)
    BY <2>1, <2>3
  <2>5. Calm /\ \A u \in Sources \ {s} : ~(req[u].dom = req[s].dom /\ req[u].pc \in {"crt", "key"})
    <3>1. faults' = faults
      BY <2>4 DEF FileWritten
    <3>2. ~mixed /\ ~\E u \in Sources \ {s} : req[u].dom = req[s].dom /\ req[u].pc \in {"crt", "key"}
      BY <1>f, <2>2
    <3>3. QED
      BY <1>f, <3>1, <3>2 DEF Calm
  <2>6. UNCHANGED <<inbounds, loaded, clashed, orphans>>
    BY <2>2 DEF db
  <2>7. QED
    BY <1>7, <1>k, <2>1, <2>2, <2>4, <2>5, <2>6, CalmWrite
<1>8. CASE WriteCrt(s) \/ WriteKey(s)
  BY <1>7, <1>8 DEF WriteCrt, WriteKey
<1>9. CASE FindRow(s)
  <2>1. Still
    BY <1>9, <1>k, FindRowStep
  <2>2. PICK q : /\ Moves(s, q) /\ May(s, q) /\ q.dom = req[s].dom /\ q.replaced = req[s].replaced /\ q.hook = req[s].hook
                 /\ \/ At(s, "findCert") /\ q.pc = "saveCert"
                    \/ At(s, "findFailed") /\ q.pc = "saveFailed"
    BY <1>9, <1>k, FindRowStep
  <2>3. Calm /\ UNCHANGED <<files, loaded, reload, orphans, clashed, inbounds>>
    BY <1>f, <2>1 DEF Still, db, disk, past, Calm
  <2>4. Carries(s, q)
    BY <2>2, <2>3 DEF Carries, At
  <2>5. \A ib \in inbounds' : Served(ib)'
    BY <1>k, <2>2, <2>3, <2>4, ServedStays
  <2>6. req[s].pc # "key" /\ q.pc # "key"
    BY <2>2 DEF At
  <2>7. QED
    BY <1>k, <2>2, <2>3, <2>5, <2>6, CalmKept
<1>10. CASE SaveCert(s)
  <2>1. PICK q : Moves(s, q) /\ May(s, q) /\ q.pc \in {"idle", "pass"} /\ Pays(s, q, req[s].replaced)
    BY <1>10, <1>k, SaveCertStep
  <2>2. PICK w : Saved(s, w) /\ UNCHANGED faults
    <3>1. PICK w : \/ Saved(s, w) /\ UNCHANGED faults
                   \/ faults' = faults + 1 /\ UNCHANGED <<certs, nextCert, clashed>>
      BY <1>10, <1>k, SaveCertStep
    <3>2. QED
      BY <1>k, <3>1, Worse
  <2>3. UNCHANGED <<inbounds, files, loaded, mixed, orphans>> /\ At(s, "saveCert")
    BY <1>10, <1>k, SaveCertStep
  <2>4. Calm /\ clashed \subseteq clashed'
    BY <1>f, <2>2, <2>3 DEF Calm, Saved
  <2>5. Carries(s, q)
    BY <2>1, <2>3 DEF Carries, Pays, At, Sources
  <2>6. \A ib \in inbounds' : Served(ib)'
    BY <1>k, <2>1, <2>3, <2>4, <2>5, ServedStays
  <2>7. req[s].pc # "key" /\ q.pc # "key"
    BY <2>1, <2>3 DEF At
  <2>8. QED
    BY <1>k, <2>1, <2>3, <2>4, <2>6, <2>7, CalmKept
<1>11. CASE RecordFailure(s)
  <2>1. PICK q : Moves(s, q) /\ May(s, q) /\ q.pc \in {"idle", "pass"} /\ Pays(s, q, FALSE)
    BY <1>11, <1>k, RecordFailureStep
  <2>2. PICK w : Saved(s, w)
    BY <1>11, <1>k, RecordFailureStep
  <2>3. UNCHANGED <<inbounds, files, loaded, mixed, orphans, faults>> /\ At(s, "saveFailed")
    BY <1>11, <1>k, RecordFailureStep
  <2>4. Calm /\ clashed \subseteq clashed'
    BY <1>f, <2>2, <2>3 DEF Calm, Saved
  <2>5. req[s].pc \in Empty /\ q.pc \in Empty
    BY <2>1, <2>3, EmptyOnes DEF At
  <2>6. (reload => reload') /\ (s = "sched" /\ req[s].hook => q.hook \/ reload')
    BY <2>1 DEF Pays
  <2>7. QED
    BY <1>q, <2>1, <2>3, <2>4, <2>5, <2>6
<1>12. CASE SetCertAutoRenew(s)
  <2>1. CASE At(s, "findAuto")
    <3>1. PICK q : Moves(s, q) /\ May(s, q) /\ (q = Idle \/ q.pc = "saveAuto")
      BY <1>12, <1>k, <2>1, FindAutoStep
    <3>2. Still /\ s \in Tabs
      BY <1>12, <1>k, <2>1, FindAutoStep
    <3>3. Calm /\ UNCHANGED <<files, loaded, reload, orphans, clashed, inbounds>>
      BY <1>f, <3>2 DEF Still, db, disk, past, Calm
    <3>4. req[s].pc \in Empty /\ q.pc \in Empty
      BY <2>1, <3>1, EmptyOnes DEF At
    <3>5. QED
      BY <1>q, <1>t, <3>1, <3>2, <3>3, <3>4
  <2>2. CASE At(s, "saveAuto")
    <3>1. req[s].row.id # 0
      BY <2>2 DEF IInv, RowsInv, At
    <3>2. PICK w : Saved(s, w)
      BY <1>12, <1>k, <2>2, <3>1, SaveAutoStep
    <3>3. UNCHANGED <<inbounds, disk, mixed, orphans, faults>> /\ Moves(s, Idle) /\ May(s, Idle) /\ s \in Tabs
      BY <1>12, <1>k, <2>2, <3>1, SaveAutoStep
    <3>4. Calm /\ UNCHANGED <<files, loaded, reload, orphans, inbounds>> /\ clashed \subseteq clashed'
      BY <1>f, <3>2, <3>3 DEF disk, Calm, Saved
    <3>q. PICK q : q = Idle
      OBVIOUS
    <3>5. req[s].pc \in Empty /\ q.pc \in Empty
      BY <2>2, <3>q, EmptyOnes DEF At
    <3>6. QED
      BY <1>q, <1>t, <3>3, <3>4, <3>5, <3>q
  <2>3. QED
    BY <1>12, <2>1, <2>2 DEF SetCertAutoRenew
<1>13. CASE DeleteCert(s)
  <2>1. /\ UNCHANGED <<inbounds, disk, mixed, clashed, faults>> /\ At(s, "deleteCert") /\ s \in Tabs
        /\ orphans \subseteq orphans' /\ Moves(s, Idle) /\ May(s, Idle)
    BY <1>13, <1>k, DeleteCertStep
  <2>2. Calm /\ UNCHANGED <<files, loaded, reload, inbounds, clashed>>
    BY <1>f, <2>1 DEF disk, Calm
  <2>q. PICK q : q = Idle
    OBVIOUS
  <2>3. req[s].pc \in Empty /\ q.pc \in Empty
    BY <2>1, <2>q, EmptyOnes DEF At
  <2>4. QED
    BY <1>q, <1>t, <2>1, <2>2, <2>3, <2>q
<1>14. QED
  BY <1>1, <1>2, <1>3, <1>4, <1>5, <1>6, <1>8, <1>9, <1>10, <1>11, <1>12, <1>13 DEF Serve

LEMMA CalmOther ==
  ASSUME IInv, ListInv, Calm => CalmInv, Calm',
         \/ \E t \in Tabs : Refetch(t) \/ Operator(t)
         \/ StartPass \/ PassNext \/ OnReplaced \/ FallDue
  PROVE  CalmInv'
<1>k. InboundsTypeOK
  BY DEF IInv
<1>f. faults \in Nat /\ faults' = 0 /\ ~mixed'
  BY <1>k DEF InboundsTypeOK, TableOK, Calm
<1>1. ASSUME UNCHANGED <<inbounds, req, files, loaded, reload, orphans, clashed, mixed, faults>> PROVE CalmInv'
  <2>1. Calm
    BY <1>1, <1>f DEF Calm
  <2>2. QED
    BY <1>1, <2>1 DEF CalmInv, Excused, Owed, Replacing
<1>2. ASSUME NEW t \in Tabs, Refetch(t) PROVE CalmInv'
  BY <1>1, <1>2 DEF Refetch, db, past, disk
<1>3. ASSUME NEW t \in Tabs, Operator(t) PROVE CalmInv'
  <2>1. PICK q : q.pc \in AskPcs /\ Moves(t, q) /\ May(t, q)
    BY <1>3, <1>k, OperatorStep
  <2>2. Kept /\ req[t] = Idle
    BY <1>3, <1>k, OperatorStep
  <2>3. Calm /\ UNCHANGED <<files, loaded, reload, orphans, clashed, inbounds>>
    BY <1>f, <2>2 DEF Kept, db, past, disk, Calm
  <2>4. req[t].pc \in Empty /\ q.pc \in Empty /\ t # "sched" /\ t \in Sources
    BY <2>1, <2>2, EmptyOnes, NamesApart
  <2>5. QED
    BY <1>k, <2>1, <2>3, <2>4, CalmQuiet
<1>4. CASE StartPass
  <2>1. PICK q : Moves("sched", q) /\ May("sched", q) /\ q.pc = "pass"
    BY <1>4, <1>k, StartPassStep
  <2>2. Kept /\ req["sched"] = Idle
    BY <1>4, <1>k, StartPassStep
  <2>3. Calm /\ UNCHANGED <<files, loaded, reload, orphans, clashed, inbounds>>
    BY <1>f, <2>2 DEF Kept, db, past, disk, Calm
  <2>4. req["sched"].pc \in Empty /\ q.pc \in Empty /\ ~req["sched"].hook /\ "sched" \in Sources
    BY <2>1, <2>2, EmptyOnes, IdleFits, NamesApart
  <2>5. QED
    BY <1>k, <2>1, <2>3, <2>4, CalmQuiet
<1>5. CASE PassNext
  <2>1. PICK q : /\ Moves("sched", q) /\ May("sched", q)
                 /\ \/ q = Idle /\ reload' = (reload \/ req["sched"].hook)
                    \/ q.pc \in {"pass", "obtain"} /\ q.hook = req["sched"].hook /\ reload' = reload
    BY <1>5, <1>k, PassNextStep
  <2>2. UNCHANGED <<db, files, loaded, page, past, moves, faults>> /\ At("sched", "pass")
    BY <1>5, <1>k, PassNextStep
  <2>3. Calm /\ UNCHANGED <<files, loaded, orphans, clashed, inbounds>>
    BY <1>f, <2>2 DEF db, past, Calm
  <2>4. req["sched"].pc \in Empty /\ q.pc \in Empty /\ "sched" \in Sources
    BY <2>1, <2>2, EmptyOnes, NamesApart DEF At
  <2>5. (reload => reload') /\ (req["sched"].hook => q.hook \/ reload')
    <3>1. ASSUME reload' = (reload \/ req["sched"].hook) PROVE (reload => reload') /\ (req["sched"].hook => reload')
      BY <3>1
    <3>2. ASSUME q.hook = req["sched"].hook, reload' = reload
          PROVE  (reload => reload') /\ (req["sched"].hook => q.hook)
      BY <3>2
    <3>3. QED
      BY <2>1, <3>1, <3>2
  <2>6. QED
    BY <1>k, <2>1, <2>3, <2>4, <2>5, CalmQuiet
<1>6. CASE OnReplaced
  <2>1. Applied /\ UNCHANGED <<db, files, page, req, past, moves>>
    BY <1>6, <1>k, HookStep
  <2>2. loaded' = Serving /\ UNCHANGED faults
    BY <1>f, <2>1 DEF Applied
  <2>3. Calm /\ UNCHANGED <<files, inbounds, req>>
    BY <1>f, <2>1, <2>2 DEF db, past, Calm
  <2>4. \A ib \in inbounds' : Served(ib)'
    BY <1>k, <2>2, <2>3, AllServed
  <2>5. QED
    BY <2>3, <2>4 DEF CalmInv, Served
<1>7. CASE FallDue
  BY <1>1, <1>7, <1>k, FallDueStep DEF disk, past
<1>8. QED
  BY <1>2, <1>3, <1>4, <1>5, <1>6, <1>7

ServeAll == IInv /\ ServeInv

LEMMA ServeInit == Init => ServeAll
<1> SUFFICES ASSUME Init PROVE ServeAll
  OBVIOUS
<1>1. \A c, d \in certs : c.dom = d.dom /\ c # d => c.dom \in clashed
  BY InitFits
<1>2. \A ib \in inbounds : Known(ib.cert)
  BY InitFits DEF Known, Excused
<1>3. \A s \in Sources : req[s].pc = "idle"
  BY InitFits, IdleFits
<1>4. ListInv
  BY <1>1, <1>2, <1>3 DEF ListInv, KnownRequest, Writing
<1>5. \A d \in Domains : files[d].crt = files[d].key
  <2>1. \A d \in Domains : files[d] = [crt |-> 1, key |-> 1] \/ files[d] = [crt |-> 0, key |-> 0]
    BY InitFits DEF NoFile
  <2>2. QED
    BY <2>1
<1>6. ASSUME NEW ib \in inbounds, ib.on, ~Excused(ib.cert) PROVE loaded[ib.cert] = files[ib.cert]
  <2>1. ib.cert \in Domains
    BY <1>6, InitFits DEF InboundsTypeOK, TableOK, Inbs, Names, Excused
  <2>2. QED
    BY <1>6, <2>1, InitFits DEF Serving
<1>7. CalmInv
  BY <1>3, <1>5, <1>6 DEF CalmInv
<1>8. QED
  BY <1>4, <1>7, IInvInit DEF ServeAll, ServeInv

LEMMA ServeNext == ServeAll /\ [Next]_vars => ServeAll'
<1> SUFFICES ASSUME ServeAll, [Next]_vars PROVE ServeAll'
  OBVIOUS
<1>1. IInv' /\ IInv /\ ListInv /\ (Calm => CalmInv)
  BY IInvNext DEF ServeAll, ServeInv
<1>2. CASE UNCHANGED vars
  <2>1. ListInv'
    BY <1>1, <1>2 DEF ListInv, KnownRequest, Known, Excused, Listed, vars, db, past
  <2>2. (Calm => CalmInv)'
    BY <1>1, <1>2 DEF Calm, CalmInv, Excused, Owed, Replacing, vars, db, past, disk
  <2>3. QED
    BY <1>1, <2>1, <2>2 DEF ServeAll, ServeInv
<1>3. CASE Next
  <2>1. ListInv'
    BY <1>1, <1>3, ListServe, ListOther DEF Next
  <2>2. ASSUME Calm' PROVE CalmInv'
    BY <1>1, <1>3, <2>2, CalmServe, CalmOther DEF Next
  <2>3. QED
    BY <1>1, <2>1, <2>2 DEF ServeAll, ServeInv
<1>4. QED
  BY <1>2, <1>3

\* When nothing is under way and nothing has failed, the engines serve the last
\* certificate that was issued, with its own key, of every name whose row stayed
\* and whose first issuances kept out of each other's way (OnReplaced).
THEOREM TheNewestIsServed == Spec => []ServesTheNewest
<1>1. ServeAll => ServesTheNewest
  <2> SUFFICES ASSUME ServeAll, AtRest, faults = 0, ~mixed, NEW d \in InUse \ (orphans \cup clashed) PROVE Newest(d)
    BY DEF ServesTheNewest
  <2>1. CalmInv
    BY DEF ServeAll, ServeInv, Calm
  <2>2. PICK ib \in inbounds : ib.on /\ ib.cert = d
    BY DEF InUse
  <2>3. d \in Domains /\ ~Excused(d)
    BY <2>2 DEF InUse, ServeAll, IInv, InboundsTypeOK, TableOK, Inbs, Names, Excused
  <2>4. \A s \in Sources : req[s].pc = "idle" /\ ~req[s].hook
    BY IdleFits DEF AtRest
  <2>5. ~Owed(d)
    BY <2>4, NamesApart DEF AtRest, Owed, Replacing
  <2>6. files[d].crt = files[d].key
    BY <2>1, <2>3, <2>4 DEF CalmInv
  <2>7. loaded[d] = files[d]
    BY <2>1, <2>2, <2>3, <2>5 DEF CalmInv
  <2>8. QED
    BY <2>6, <2>7 DEF Newest
<1>2. QED
  BY <1>1, ServeInit, ServeNext, PTL DEF Spec
===================================================================
