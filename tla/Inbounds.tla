------------------------------- MODULE Inbounds -------------------------------
(***************************************************************************)
(* The inbound list with its edit form, and the certificate page: rows     *)
(* that are read, patched and written back whole, from pages that show an  *)
(* older copy of them; certificates that take a round trip to the CA, two  *)
(* files and a row to replace, while the engines go on with what they      *)
(* loaded.                                                                 *)
(***************************************************************************)
EXTENDS Integers, FiniteSets, FiniteSetsExt

CONSTANTS Tabs,            \* pages open on the lists, each with one request at a time
          Domains,         \* names of certificates
          Ports,           \* ports of one listening address
          Rows,            \* the inbounds there are at first
          Fronted,         \* ids of those behind the CDN or a tunnel
          MaxMoves,        \* bound: what the operator and the clock do
          MaxFaults        \* bound: failed writes, failed applies

ASSUME InboundsAssumption ==
  /\ IsFiniteSet(Domains) /\ Domains \cap {"self", "keep", "none"} = {} /\ "sched" \notin Tabs
  /\ Rows \subseteq [id: Nat, on: BOOLEAN, port: Ports, cert: Domains \cup {"self"}]
  /\ \A r, s \in Rows : r # s => r.id # s.id /\ r.port # s.port

VARIABLES
  inbounds,  \* database: the inbounds
  certs,     \* database: the certificates
  nextCert,
  files,     \* on disk: which issuance the two files of a name are from
  loaded,    \* what the engines serve: the files as the last Apply found them
  reload,    \* the hook of a replaced certificate is to run
  page,      \* what each page shows
  req,       \* the request of each page, and the pass of the scheduler
  issued,    \* certificates obtained so far
  crossed,   \* history: two writers of a certificate's row held it at once
  mixed,     \* history: two issuances of a name wrote its files at once
  clashed,   \* history: names whose first issuances got in each other's way (see Clash)
  orphans,   \* history: names whose row was deleted while the files stayed
  moves, faults

db   == <<inbounds, certs, nextCert>>
past == <<issued, crossed, mixed, clashed, orphans>>
disk == <<files, loaded, reload>>
vars == <<db, disk, page, req, past, moves, faults>>

Move  == moves < MaxMoves /\ moves' = moves + 1
Fault == faults < MaxFaults /\ faults' = faults + 1

Sources == Tabs \cup {"sched"}
NoRow  == [id |-> 0, dom |-> "none", path |-> FALSE, auto |-> TRUE, due |-> FALSE]
NoFile == [crt |-> 0, key |-> 0]
Idle   == [op |-> "idle", pc |-> "idle", ids |-> {}, row |-> NoRow, patch |-> {}, dom |-> "none",
           gen |-> 0, replaced |-> FALSE, hook |-> FALSE, on |-> FALSE]

(***************************************************************************)
(* The pages                                                               *)
(***************************************************************************)
\* How the form names the certificate of a row: the pair made at installation,
\* a certificate of the list, or a file that the list does not have any more.
inboundCertDomain(ib) ==
  IF ib.cert = "self" \/ \E c \in certs : c.path /\ c.dom = ib.cert THEN ib.cert ELSE "keep"

Shown == [ins |-> {[ib EXCEPT !.cert = inboundCertDomain(ib)] : ib \in inbounds}, certs |-> certs]

\* The queries run on mount, on focus and after a change; an open form takes
\* over the new detail of its row, whatever was typed.
Refetch(t) ==
  /\ page[t] # Shown /\ req[t] = Idle
  /\ page' = [page EXCEPT ![t] = Shown]
  /\ UNCHANGED <<db, disk, req, past, moves, faults>>

Ask(t, r) == /\ req[t] = Idle /\ Move /\ req' = [req EXCEPT ![t] = r]
             /\ UNCHANGED <<db, disk, page, past, faults>>

\* A row has its switch, its buttons, and a box to select it by.
InboundRow(t) == page[t].ins
Selected(t)   == SUBSET {ib.id : ib \in InboundRow(t)} \ {{}}

\* The switch of a row sends the opposite of what it shows.
ToggleRow(t) == \E ib \in InboundRow(t) :
  Ask(t, [Idle EXCEPT !.op = "update", !.pc = "read", !.ids = {ib.id},
                      !.patch = {<<"on", ~ib.on>>}])

\* The port of a row behind the CDN or a tunnel is locked, and it has no certificate to choose.
portLocked(ib) == ib.id \in Fronted

\* The file in use, the pair made at installation, and each issued certificate of the list.
certSelect(t, ib) ==
  IF portLocked(ib) THEN {ib.cert} ELSE {ib.cert, "self"} \cup {c.dom : c \in {d \in page[t].certs : d.path}}

\* The form sends all it holds, with the switch, which it does not show.
save(ib, port, cert) ==
  [Idle EXCEPT !.op = "update", !.pc = "read", !.ids = {ib.id},
               !.patch = {<<"on", ib.on>>, <<"port", port>>, <<"cert", cert>>}]

SubmitForm(t) == \E ib \in InboundRow(t), port \in Ports : \E cert \in certSelect(t, ib) :
  (portLocked(ib) => port = ib.port) /\ Ask(t, save(ib, port, cert))

SubmitDelete(t) == \E ib \in InboundRow(t) :
  Ask(t, [Idle EXCEPT !.op = "delete", !.pc = "delete", !.ids = {ib.id}])

\* The selected rows, one after another; one that fails does not end the run.
BulkDelete(t) == \E ids \in Selected(t) :
  Ask(t, [Idle EXCEPT !.op = "delete", !.pc = "delete", !.ids = ids])

\* A certificate is asked for, renewed, deleted, or its renewal switched.
CertRow(t) == page[t].certs

SubmitIssue(t) == \E d \in Domains :
  Ask(t, [Idle EXCEPT !.op = "issue", !.pc = "obtain", !.dom = d])

SubmitRenew(t) == \E c \in CertRow(t) :
  Ask(t, [Idle EXCEPT !.op = "issue", !.pc = "getCert", !.ids = {c.id}])

SubmitAuto(t) == \E c \in CertRow(t) :
  Ask(t, [Idle EXCEPT !.op = "auto", !.pc = "findAuto", !.ids = {c.id}, !.on = ~c.auto])

SubmitDeleteCert(t) == \E c \in CertRow(t) :
  Ask(t, [Idle EXCEPT !.op = "deleteCert", !.pc = "deleteCert", !.ids = {c.id}])

(***************************************************************************)
(* The inbound handlers                                                    *)
(***************************************************************************)
At(s, pc)  == req[s].pc = pc
Then(s, r) == req' = [req EXCEPT ![s] = r]
To(s, pc)  == Then(s, [req[s] EXCEPT !.pc = pc])
End(s)     == Then(s, Idle)
Only(id)   == CHOOSE i \in id : TRUE

\* Mutant: the row is found by its name, issued or not.
MutApplyCertDomain(ib, d) ==
  CASE d = "keep" -> {ib.cert}
    [] d = "self" -> {"self"}
    [] OTHER      -> {IF c.path THEN d ELSE "none" : c \in {x \in certs : x.dom = d}}

\* The certificate that a choice stands for; none, and the update is refused, if
\* no issued certificate has that name any more.
applyCertDomain(ib, d) ==
  CASE d = "keep" -> {ib.cert}
    [] d = "self" -> {"self"}
    [] OTHER      -> {c.dom : c \in {x \in certs : x.dom = d /\ x.path}}

Patch(ib, patch) ==
  LET has(f) == \E p \in patch : p[1] = f
      val(f) == (CHOOSE p \in patch : p[1] = f)[2]
      chosen == IF has("cert") THEN applyCertDomain(ib, val("cert")) ELSE {ib.cert}
  IN {[ib EXCEPT !.on = val("on"), !.cert = c,
                 !.port = IF has("port") THEN val("port") ELSE @] : c \in chosen}

\* The row is read and patched; it is written as a whole later on.
ReadInbound(s) ==
  LET rows == {ib \in inbounds : ib.id = Only(req[s].ids)}
      out  == UNION {Patch(ib, req[s].patch) : ib \in rows}
  IN
  /\ At(s, "read")
  /\ IF out = {} THEN End(s) ELSE Then(s, [req[s] EXCEPT !.pc = "write", !.patch = {Only(out)}])
  /\ UNCHANGED <<db, disk, page, past, moves, faults>>

\* Save inserts a row that is not there; two rows never share a port.
WriteInbound(s) ==
  LET row == Only(req[s].patch)
      others == {ib \in inbounds : ib.id # row.id}
  IN
  /\ At(s, "write")
  /\ IF \E ib \in others : ib.port = row.port
     THEN End(s) /\ UNCHANGED inbounds
     ELSE inbounds' = others \cup {row} /\ To(s, "apply")
  /\ UNCHANGED <<certs, nextCert, disk, page, past, moves, faults>>

DeleteInbound(s) ==
  /\ At(s, "delete")
  /\ \E id \in req[s].ids :
       /\ inbounds' = {ib \in inbounds : ib.id # id}
       /\ Then(s, [req[s] EXCEPT !.ids = @ \ {id}, !.pc = "apply"])
  /\ UNCHANGED <<certs, nextCert, disk, page, past, moves, faults>>

\* An Apply makes the engines read the files of every inbound that is on.
Serving == [d \in Domains |-> IF \E ib \in inbounds : ib.on /\ ib.cert = d THEN files[d] ELSE NoFile]

\* A failed Apply is answered as an error: the row stays as it was written.
ApplyAfterChange(s) ==
  /\ At(s, "apply")
  /\ \/ loaded' = Serving /\ UNCHANGED faults
     \/ Fault /\ UNCHANGED loaded
  /\ IF req[s].op = "delete" /\ req[s].ids # {} THEN To(s, "delete") ELSE End(s)
  /\ UNCHANGED <<db, files, reload, page, past, moves>>

(***************************************************************************)
(* The certificate manager                                                 *)
(***************************************************************************)
Writes(s, id) == crossed' = (crossed \/ \E u \in Sources \ {s} :
                   req[u].pc \in {"saveCert", "saveFailed", "saveAuto"} /\ req[u].row.id = id)

\* A renewal starts from the row, and issues anew.
GetCert(s) ==
  LET rows == {c \in certs : c.id \in req[s].ids} IN
  /\ At(s, "getCert")
  /\ IF rows = {} THEN End(s)
     ELSE Then(s, [req[s] EXCEPT !.pc = "obtain", !.dom = Only(rows).dom, !.row = Only(rows)])
  /\ UNCHANGED <<db, disk, page, past, moves, faults>>

Named(d) == {c \in certs : c.dom = d}
findCert(d) == IF Named(d) = {} THEN NoRow ELSE CHOOSE c \in Named(d) : \A x \in Named(d) : c.id <= x.id

\* The CA grants or refuses; what was there before is looked up after that.
Obtain(s) ==
  /\ At(s, "obtain")
  /\ \/ /\ issued' = issued + 1
        /\ Then(s, [req[s] EXCEPT !.pc = "crt", !.gen = issued + 1,
                                  !.replaced = findCert(req[s].dom).path])
     \/ To(s, "findFailed") /\ UNCHANGED issued
  /\ UNCHANGED <<db, disk, page, crossed, mixed, clashed, orphans, moves, faults>>

\* The scheduler goes on to the next row, and reloads once, after its pass.
Finish(s, replaced) ==
  LET r == req[s] IN
  IF s = "sched"
  THEN Then(s, [Idle EXCEPT !.op = "pass", !.pc = "pass", !.ids = r.ids, !.hook = r.hook \/ replaced])
       /\ UNCHANGED reload
  ELSE End(s) /\ reload' = (reload \/ replaced)

WriteFile(s, at, field, next) ==
  LET r == req[s] IN
  /\ At(s, at)
  /\ \/ /\ files' = [files EXCEPT ![r.dom][field] = r.gen]
        /\ To(s, next) /\ UNCHANGED <<reload, faults>>
     \/ Fault /\ Finish(s, FALSE) /\ UNCHANGED files
  /\ mixed' = (mixed \/ \E u \in Sources \ {s} : req[u].dom = r.dom /\ req[u].pc \in {"crt", "key"})
  /\ UNCHANGED <<db, loaded, page, issued, crossed, clashed, orphans, moves>>
WriteCrt(s) == WriteFile(s, "crt", "crt", "key")
WriteKey(s) == WriteFile(s, "key", "key", "findCert")

\* Mutant: a renewal goes on with the row that it started from.
MutFindRow(s) ==
  LET r == req[s] IN
  /\ \/ At(s, "findCert") /\ Then(s, [r EXCEPT !.pc = "saveCert", !.row = IF @.id = 0 THEN findCert(r.dom) ELSE @])
     \/ At(s, "findFailed") /\ Then(s, [r EXCEPT !.pc = "saveFailed", !.row = findCert(r.dom)])
  /\ UNCHANGED <<db, disk, page, past, moves, faults>>

\* The row is read again before it is written, after the round trip.
FindRow(s) ==
  LET r == req[s] IN
  /\ \/ At(s, "findCert") /\ Then(s, [r EXCEPT !.pc = "saveCert", !.row = findCert(r.dom)])
     \/ At(s, "findFailed") /\ Then(s, [r EXCEPT !.pc = "saveFailed", !.row = findCert(r.dom)])
  /\ UNCHANGED <<db, disk, page, past, moves, faults>>

\* A write that leaves a name in the list twice, or takes the files away from its
\* row, or gives its row files while an issuance that found none is replacing them.
Clash(s, row) ==
  \/ \E c \in certs : c.dom = row.dom /\ c.id # row.id
  \/ \E c \in certs : c.id = row.id /\ c.path /\ ~row.path
  \/ /\ row.path
     /\ \E u \in Sources \ {s} : req[u].dom = row.dom /\ req[u].pc \in {"crt", "key"} /\ ~req[u].replaced

Saved(s, row) == /\ certs' = {c \in certs : c.id # row.id} \cup {row}
                 /\ nextCert' = Max({nextCert, row.id + 1})
                 /\ clashed' = IF Clash(s, row) THEN clashed \cup {row.dom} ELSE clashed

\* Mutant: only what the operator asks for is loaded at once.
MutReloads(s) == req[s].replaced /\ s # "sched"

Reloads(s) == req[s].replaced

SaveCert(s) ==
  LET r == req[s]
      new == IF r.row.id = 0 THEN [NoRow EXCEPT !.id = nextCert, !.dom = r.dom] ELSE r.row
  IN
  /\ At(s, "saveCert")
  /\ \/ Saved(s, [new EXCEPT !.path = TRUE, !.due = FALSE]) /\ UNCHANGED faults
     \/ Fault /\ UNCHANGED <<certs, nextCert, clashed>>
  /\ Writes(s, new.id) /\ Finish(s, Reloads(s))
  /\ UNCHANGED <<inbounds, files, loaded, page, issued, mixed, orphans, moves>>

\* A refusal is noted in the row, or in a new one that has no files.
RecordFailure(s) ==
  LET r == req[s]
      new == IF r.row.id = 0 THEN [NoRow EXCEPT !.id = nextCert, !.dom = r.dom] ELSE r.row
  IN
  /\ At(s, "saveFailed")
  /\ Saved(s, new) /\ Writes(s, new.id) /\ Finish(s, FALSE)
  /\ UNCHANGED <<inbounds, files, loaded, page, issued, mixed, orphans, moves, faults>>

SetCertAutoRenew(s) ==
  LET r == req[s]  rows == {c \in certs : c.id \in r.ids} IN
  \/ /\ At(s, "findAuto")
     /\ IF rows = {} THEN End(s) ELSE Then(s, [r EXCEPT !.pc = "saveAuto", !.row = Only(rows)])
     /\ UNCHANGED <<db, disk, page, past, moves, faults>>
  \/ /\ At(s, "saveAuto")
     /\ Saved(s, [r.row EXCEPT !.auto = r.on]) /\ Writes(s, r.row.id) /\ End(s)
     /\ UNCHANGED <<inbounds, disk, page, issued, mixed, orphans, moves, faults>>

\* The row goes and the files stay, for the inbounds that use them.
DeleteCert(s) ==
  LET gone == {c \in certs : c.id \in req[s].ids} IN
  /\ At(s, "deleteCert")
  /\ certs' = certs \ gone
  /\ orphans' = orphans \cup {c.dom : c \in {x \in gone : x.path}}
  /\ End(s)
  /\ UNCHANGED <<inbounds, nextCert, disk, page, issued, crossed, mixed, clashed, moves, faults>>

\* The pass lists the rows, then renews those that are due, one after another.
StartPass ==
  /\ req["sched"] = Idle
  /\ \E c \in certs : c.due /\ c.auto
  /\ Move
  /\ req' = [req EXCEPT !["sched"] =
       [Idle EXCEPT !.op = "pass", !.pc = "pass", !.ids = {c.id : c \in {x \in certs : x.auto /\ x.due}}]]
  /\ UNCHANGED <<db, disk, page, past, faults>>

\* In the model a pass has one name at a time, its other ids wait in "ids".
PassNext ==
  LET r == req["sched"] IN
  /\ At("sched", "pass")
  /\ IF r.ids = {} THEN End("sched") /\ reload' = (reload \/ r.hook)
     ELSE /\ UNCHANGED reload
          /\ \E id \in r.ids : LET rows == {c \in certs : c.id = id} IN
               Then("sched", IF rows = {} THEN [r EXCEPT !.ids = @ \ {id}]
                             ELSE [r EXCEPT !.ids = @ \ {id}, !.pc = "obtain",
                                            !.dom = Only(rows).dom, !.row = Only(rows)])
  /\ UNCHANGED <<db, files, loaded, page, past, moves, faults>>

\* The hook applies in its own goroutine; its failure is logged.
OnReplaced ==
  /\ reload /\ reload' = FALSE
  /\ \/ loaded' = Serving /\ UNCHANGED faults
     \/ Fault /\ UNCHANGED loaded
  /\ UNCHANGED <<db, files, page, req, past, moves>>

\* Thirty days are left.
FallDue ==
  /\ \E c \in certs : ~c.due /\ c.path /\ certs' = (certs \ {c}) \cup {[c EXCEPT !.due = TRUE]}
  /\ Move
  /\ UNCHANGED <<inbounds, nextCert, disk, page, req, past, faults>>

-----------------------------------------------------------------------------
\* Each name that an inbound uses has been issued, by the wizard or by hand.
Init ==
  /\ inbounds = Rows
  /\ \E d \in [Domains -> 1..Cardinality(Domains)] :
       /\ \A a, b \in Domains : d[a] = d[b] => a = b
       /\ certs = {[id |-> d[n], dom |-> n, path |-> TRUE, auto |-> TRUE, due |-> FALSE] :
                     n \in {r.cert : r \in Rows} \ {"self"}}
  /\ nextCert = Cardinality(Domains) + 1
  /\ files = [d \in Domains |-> IF \E r \in Rows : r.cert = d THEN [crt |-> 1, key |-> 1] ELSE NoFile]
  /\ loaded = Serving /\ reload = FALSE
  /\ page = [t \in Tabs |-> Shown] /\ req = [s \in Sources |-> Idle]
  /\ issued = 1 /\ crossed = FALSE /\ mixed = FALSE /\ clashed = {} /\ orphans = {}
  /\ moves = 0 /\ faults = 0

Operator(t) ==
  \/ ToggleRow(t) \/ SubmitForm(t) \/ SubmitDelete(t) \/ BulkDelete(t)
  \/ SubmitIssue(t) \/ SubmitRenew(t) \/ SubmitAuto(t) \/ SubmitDeleteCert(t)

Serve(s) ==
  \/ ReadInbound(s) \/ WriteInbound(s) \/ DeleteInbound(s) \/ ApplyAfterChange(s)
  \/ GetCert(s) \/ Obtain(s) \/ WriteCrt(s) \/ WriteKey(s) \/ FindRow(s) \/ SaveCert(s)
  \/ RecordFailure(s) \/ SetCertAutoRenew(s) \/ DeleteCert(s)

Next == \/ \E t \in Tabs : Refetch(t) \/ Operator(t)
        \/ \E s \in Sources : Serve(s)
        \/ StartPass \/ PassNext \/ OnReplaced \/ FallDue

Spec == Init /\ [][Next]_vars

(***************************************************************************)
(* Properties                                                              *)
(***************************************************************************)
\* Whatever happens to certificates while a form is open, an inbound is never
\* saved with a certificate that has no files: its row deleted, its name issued
\* again and refused, the choice of the form made before that (applyCertDomain).
CertsAreReal ==
  \A ib \in inbounds : ib.cert = "self" \/ (ib.cert # "none" /\ files[ib.cert].crt # 0 /\ files[ib.cert].key # 0)

\* An operator who switches renewal off is not overruled by a renewal that has
\* been to the CA meanwhile: it goes on only if someone switches it on, or if two
\* writers had the row in their hands at once (upsertCert reads it again).
AutoRenewKept ==
  [][\A c \in certs, d \in certs' :
       c.id = d.id /\ ~c.auto /\ d.auto =>
         crossed' \/ \E s \in Sources : req[s].pc = "saveAuto" /\ req[s].on /\ req'[s] = Idle]_vars

AtRest == ~reload /\ \A s \in Sources : req[s] = Idle
Newest(d) == loaded[d] = files[d] /\ files[d].crt = files[d].key
InUse == {ib.cert : ib \in {i \in inbounds : i.on}} \ {"self"}

\* When nothing is under way and nothing has failed, the engines serve the last
\* certificate that was issued, with its own key, whoever renewed it and in
\* whatever order inbounds were edited.  Names whose row was deleted, names that
\* two issuances wrote at once, and names whose first issuances got in each
\* other's way are the exceptions (OnReplaced).
ServesTheNewest ==
  AtRest /\ faults = 0 /\ ~mixed => \A d \in InUse \ (orphans \cup clashed) : Newest(d)

\* The same for every name whose row stayed: what the manager says of onReplaced,
\* that the engines reload the files of a certificate that was on disk when it was
\* issued again, "instead of serving the old ones until their next unrelated
\* restart" (cert/manager.go:65).
ReissuedIsReloaded ==
  AtRest /\ faults = 0 /\ ~mixed => \A d \in InUse \ orphans : Newest(d)
=============================================================================
