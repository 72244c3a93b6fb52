------------------------------- MODULE Advanced -------------------------------
(***************************************************************************)
(* The acceleration pages: one row that four panels of the browser each    *)
(* write a slice of, read and written back whole; the tunnel whose         *)
(* cloudflared the supervisor starts and stops under a lock that it lets   *)
(* go in between; and the inbound that the tunnel feeds, which can be      *)
(* moved or deleted under it, its users along with it.                     *)
(***************************************************************************)
EXTENDS Integers, FiniteSets, FiniteSetsExt

CONSTANTS Tabs,            \* open pages, each with one request at a time
          Origins,         \* the inbounds that the tunnel could feed, at first
          Grants,          \* who has a client on which of them, at first
          Entries,         \* addresses a pool may hold; what else is typed is refused
          Recommended,     \* the default pool
          Networks,        \* what clients measured from
          Policies,        \* valid limits of re-optimisation
          MaxMoves         \* bound: what the operator does, and what fails

ASSUME AdvancedAssumption ==
  /\ Origins \subseteq [id: Nat \ {0}, argo: BOOLEAN, edge: BOOLEAN, standby: BOOLEAN, on: BOOLEAN]
  /\ IsFiniteSet(Origins)
  /\ \A i, j \in Origins : i.id = j.id \/ (i.argo /\ j.argo) => i = j
  /\ Recommended \subseteq Entries /\ Recommended # {} /\ "boot" \notin Tabs

VARIABLES
  row,       \* database: the advanced row
  inbounds, clients,  \* database: the origins and who is on them
  policy, nets,       \* database: limits of re-optimisation, measurements of clients
  redacting, \* the flag that the writers of the logs read
  status, cmd,  \* the supervisor: the state it shows and the process it has a hold of
  procs,     \* the cloudflared processes that run
  page,      \* what each page shows
  req,       \* the request of each page, and the start at boot
  crossed,   \* history: two writers of the row held it at once
  strayed,   \* history: two requests about the tunnel overlapped, or one came from an outdated page
  torn,      \* history: a write failed, or the panel died, with a request half-way
  nextPid, moves

db   == <<row, inbounds, clients, policy, nets>>
sup  == <<status, cmd, procs, nextPid>>
past == <<crossed, strayed, torn>>
vars == <<db, redacting, sup, page, req, past, moves>>

Move == moves < MaxMoves /\ moves' = moves + 1
Sources == Tabs \cup {"boot"}

NoRow == [cdn |-> FALSE, pool |-> {}, enabled |-> FALSE, mode |-> "", token |-> FALSE,
          quic |-> FALSE, redact |-> FALSE]
Idle  == [op |-> "idle", pc |-> "idle", row |-> NoRow, want |-> NoRow, id |-> 0, from |-> 0,
          pid |-> 0, start |-> FALSE, wasArgo |-> FALSE]

Slice(op) == CASE op = "cdn"    -> {"cdn", "pool"}
               [] op = "quic"   -> {"quic"}
               [] op = "redact" -> {"redact"}
               [] OTHER         -> {"enabled", "mode", "token"}
AboutTunnel == {"start", "stop", "move", "delete", "boot"}

Bound == {i.id : i \in {x \in inbounds : x.argo}}
argoInboundPort == IF Bound = {} THEN 0 ELSE Min(Bound)
Get(id) == CHOOSE i \in inbounds : i.id = id
Has(id) == \E i \in inbounds : i.id = id

(***************************************************************************)
(* The panels                                                              *)
(***************************************************************************)
Shown == [row |-> row, origins |-> inbounds, status |-> status]

\* The queries of the page run on mount, on focus and after a change, that for
\* the tunnel every three seconds; in the model they run together, and not any
\* more when the operator has spent his moves.
Refetch(t) ==
  /\ req[t] = Idle /\ page[t] # Shown /\ moves < MaxMoves
  /\ page' = [page EXCEPT ![t] = Shown]
  /\ UNCHANGED <<db, redacting, sup, req, past, moves>>

Outdated(t) == page[t].origins # inbounds

Ask(t, r) ==
  /\ req[t] = Idle /\ Move
  /\ req' = [req EXCEPT ![t] = r]
  /\ strayed' = (strayed \/ (r.op \in AboutTunnel \cup {"argo"} /\
       (Outdated(t) \/ \E u \in Sources \ {t} : req[u].op \in AboutTunnel \cup {"argo"})))
  /\ UNCHANGED <<db, redacting, sup, page, crossed, torn>>

Put(op, want) == [Idle EXCEPT !.op = op, !.pc = "load", !.want = want]

\* An address, or a host name: anything else is refused where it is typed.
isValidCdnEntry(s) == s \in Entries
addEntry(ips)      == {ips \cup {s} : s \in {e \in Entries : isValidCdnEntry(e)}}
removeEntry(ips)   == {ips \ {s} : s \in ips}

\* A line of the results of a speed test, over the built-in or the refreshed
\* candidates, is ticked while its address is in the pool.
Tested          == Recommended
togglePool(ips) == {IF s \in ips THEN ips \ {s} ELSE ips \cup {s} : s \in Tested}

\* The pool as it was loaded, or edited once, or cleared.
CdnCard(ips) == {ips, {}} \cup addEntry(ips) \cup removeEntry(ips) \cup togglePool(ips)

CdnPanel(t) == \E on \in BOOLEAN, ips \in CdnCard(page[t].row.pool) :
  Ask(t, Put("cdn", [page[t].row EXCEPT !.cdn = on, !.pool = ips]))

QuicPanel(t) == \E on \in BOOLEAN :
  Ask(t, Put("quic", [page[t].row EXCEPT !.quic = on]))

LogPrivacyCard(t) == Ask(t, Put("redact", [page[t].row EXCEPT !.redact = ~@]))

\* These two are one statement each, and no engine hears of them.
DeleteCDNNetwork(n) ==
  /\ Move /\ nets' = nets \ {n}
  /\ UNCHANGED <<row, inbounds, clients, policy, redacting, sup, page, req, past>>

PutCDNPolicy(p) ==
  /\ Move /\ policy' = p
  /\ UNCHANGED <<row, inbounds, clients, nets, redacting, sup, page, req, past>>

\* What clients measured on one network is cleared.
CdnInsights(t) == req[t] = Idle /\ \E n \in nets : DeleteCDNNetwork(n)

\* The limits are checked in the form, and again by the handler.
PolicyCard(t) == req[t] = Idle /\ \E p \in Policies \ {policy} : PutCDNPolicy(p)

argoInbound(t) ==
  LET ids == {i.id : i \in {x \in page[t].origins : x.argo}} IN IF ids = {} THEN 0 ELSE Min(ids)

\* One button: it stops a tunnel that runs, saves and starts one that does not,
\* or only saves where there is nothing for it to feed.
running(t) == page[t].status \in {"running", "starting"}

\* A tunnel token may be typed, or pasted into the guide, for a fixed tunnel.
Typed(m) == IF m = "fixed" THEN BOOLEAN ELSE {FALSE}

\* The enabled flag, which is not in the form, is sent as it was loaded.
argoForm(t) ==
  UNION {{[page[t].row EXCEPT !.mode = m, !.token = tok] : tok \in Typed(m)} : m \in {"temp", "fixed"}}

saveThenStart(t) == \E want \in argoForm(t) :
  /\ ~running(t)
  /\ Ask(t, [Put("argo", want) EXCEPT !.start = argoInbound(t) # 0, !.id = argoInbound(t)])

\* The result page of the wizard, which an inbound for the tunnel has just come
\* up on, starts it at once and leaves it to the handler which one that is.
ArgoAutoStart(t) == argoInbound(t) # 0 /\ Ask(t, [Idle EXCEPT !.op = "start", !.pc = "start"])

stopTunnel(t) == running(t) /\ Ask(t, [Idle EXCEPT !.op = "stop", !.pc = "cancel"])

\* Through the Cloudflare API: the tunnel, its ingress and its token in one go.
ArgoCFApi(t) == Ask(t, [Idle EXCEPT !.op = "provision", !.pc = "provision"])

\* The tunnel can be fed by its own inbound or by the one of the CDN; if the
\* ingress cannot be changed the operator is asked to, and confirms.
ArgoOriginCard(t) == \E i \in page[t].origins :
  /\ i.id # argoInbound(t)
  /\ Ask(t, [Idle EXCEPT !.op = "move", !.pc = "origin", !.id = i.id])

\* On the inbounds page.
DeleteRow(t) == \E i \in page[t].origins :
  Ask(t, [Idle EXCEPT !.op = "delete", !.pc = "wasArgo", !.id = i.id])

(***************************************************************************)
(* The advanced handlers                                                   *)
(***************************************************************************)
At(s, pc)  == req[s].pc = pc
Then(s, r) == req' = [req EXCEPT ![s] = r]
To(s, pc)  == Then(s, [req[s] EXCEPT !.pc = pc])
End(s)     == Then(s, Idle)

\* Mutant: the row is written as the page had it.
MutMerge(op, read, want) == want

\* The row as it was read, with the slice of one panel replaced.  A blank token
\* keeps the stored one; an empty pool that is switched on becomes the default.
Merge(op, read, want) ==
  LET w == [want EXCEPT !.token = @ \/ (op = "argo" /\ read.token),
                        !.pool = IF want.cdn /\ @ = {} THEN Recommended ELSE @]
  IN [c \in DOMAIN read |-> IF c \in Slice(op) THEN w[c] ELSE read[c]]

\* Refused: a fixed tunnel that is enabled and has no token.
BadArgo(w) == w.enabled /\ w.mode = "fixed" /\ ~w.token

Load(s) ==
  LET r == req[s]  new == Merge(r.op, row, r.want) IN
  /\ At(s, "load")
  /\ IF r.op = "argo" /\ BadArgo(new) THEN End(s)
     ELSE Then(s, [r EXCEPT !.pc = "save", !.row = new, !.want = NoRow])
  /\ UNCHANGED <<db, redacting, sup, page, past, moves>>

Holds(u) == req[u].pc \in {"save", "saveEnabled", "saveCleared", "live"}

WriteRow(s) ==
  /\ row' = req[s].row
  /\ crossed' = (crossed \/ \E u \in Sources \ {s} : Holds(u))

Save(s) ==
  LET r == req[s] IN
  /\ At(s, "save")
  /\ WriteRow(s)
  /\ CASE r.op = "redact"          -> To(s, "live")
       [] r.op = "argo" /\ r.start -> Then(s, [Idle EXCEPT !.op = "start", !.pc = "start", !.id = r.id])
       [] OTHER                    -> End(s)
  /\ UNCHANGED <<inbounds, clients, policy, nets, redacting, sup, page, strayed, torn, moves>>

\* The flag takes effect at once, the engines are left alone.
SetEnabled(s) ==
  /\ At(s, "live")
  /\ redacting' = req[s].row.redact /\ End(s)
  /\ UNCHANGED <<db, sup, page, past, moves>>

\* Cloudflare may refuse at every step; the row is read after all of them.
ArgoCFProvision(s) ==
  /\ At(s, "provision")
  /\ \/ /\ argoInboundPort # 0
        /\ Then(s, [req[s] EXCEPT !.pc = "save", !.row = [row EXCEPT !.mode = "fixed", !.token = TRUE]])
     \/ End(s)
  /\ UNCHANGED <<db, redacting, sup, page, past, moves>>

(***************************************************************************)
(* The supervisor                                                          *)
(***************************************************************************)
Kill(pids) == procs' = {p \in procs : p.pid \notin pids}

\* Stop cancels the process it finds, with the lock let go.
StopCancel(s) ==
  /\ At(s, "cancel")
  /\ Kill({cmd})
  /\ status' = IF cmd # 0 THEN "failed" ELSE status
  /\ To(s, "reset")
  /\ UNCHANGED <<db, redacting, cmd, nextPid, page, past, moves>>

\* When that one has gone, whatever is on record by then is signalled and forgotten.
StopReset(s) ==
  LET r == req[s] IN
  /\ At(s, "reset")
  /\ Kill({cmd}) /\ cmd' = 0 /\ status' = "idle"
  /\ CASE r.op = "stop"   -> End(s)
       [] r.op = "delete" -> To(s, "clear")
       [] OTHER           -> To(s, "spawn")
  /\ UNCHANGED <<db, redacting, nextPid, page, past, moves>>

\* The process is put on record over whatever is there.
Spawn(s) ==
  LET r == req[s] IN
  /\ At(s, "spawn")
  /\ procs' = procs \cup {[pid |-> nextPid, dial |-> r.id, mode |-> r.row.mode]}
  /\ cmd' = nextPid /\ nextPid' = nextPid + 1 /\ status' = "starting"
  /\ Then(s, [r EXCEPT !.pc = "await", !.pid = nextPid])
  /\ UNCHANGED <<db, redacting, page, past, moves>>

\* The host name is printed, or a fixed tunnel has lived two seconds; or the
\* process has gone; or no host name is printed in time, and it is left to run.
Await(s) ==
  LET r == req[s]  lives == \E p \in procs : p.pid = r.pid IN
  /\ At(s, "await") /\ End(s)
  /\ \/ lives /\ status' = IF cmd = r.pid THEN "running" ELSE status
     \/ ~lives /\ UNCHANGED status
     \/ lives /\ r.row.mode = "temp" /\ UNCHANGED status
  /\ UNCHANGED <<db, redacting, cmd, procs, nextPid, page, past, moves>>

\* cloudflared ends by itself; the reaper records it.
Exit == \E p \in procs :
  /\ Move
  /\ Kill({p.pid})
  /\ status' = IF cmd = p.pid THEN "failed" ELSE status
  /\ UNCHANGED <<db, redacting, cmd, nextPid, page, req, past>>

(***************************************************************************)
(* The tunnel handlers                                                     *)
(***************************************************************************)
\* The tunnel starts from the row as saved, and records the wish.
ArgoStart(s) ==
  LET r == req[s]  id == IF r.id # 0 THEN r.id ELSE argoInboundPort IN
  /\ At(s, "start")
  /\ IF id = 0 \/ row.mode = "" THEN End(s)
     ELSE Then(s, [r EXCEPT !.id = id, !.row = [row EXCEPT !.enabled = TRUE],
                            !.pc = IF row.enabled THEN "launch" ELSE "saveEnabled"])
  /\ UNCHANGED <<db, redacting, sup, page, past, moves>>

SaveEnabled(s) ==
  /\ At(s, "saveEnabled")
  /\ WriteRow(s) /\ To(s, "launch")
  /\ UNCHANGED <<inbounds, clients, policy, nets, redacting, sup, page, strayed, torn, moves>>

\* A fixed tunnel without its token is refused, after the wish has been recorded.
Launch(s) ==
  LET r == req[s] IN
  /\ At(s, "launch")
  /\ IF r.row.mode = "fixed" /\ ~r.row.token THEN End(s) ELSE To(s, "cancel")
  /\ UNCHANGED <<db, redacting, sup, page, past, moves>>

\* At boot, after the first Apply if that works, alongside the first requests: if
\* the row says so and there is something to feed.
AutoStartArgoIfEnabled ==
  LET r == req["boot"] IN
  /\ At("boot", "boot")
  /\ \/ /\ row.enabled /\ row.mode # "" /\ argoInboundPort # 0
        /\ row.mode = "fixed" => row.token
        /\ Then("boot", [r EXCEPT !.pc = "cancel", !.row = row, !.id = argoInboundPort])
     \/ End("boot")
  /\ UNCHANGED <<db, redacting, sup, page, past, moves>>

\* Any inbound that feeds the tunnel or could: the flag is to move to it.  For a
\* fixed tunnel the ingress comes first, and without it nothing is moved.
SetArgoOrigin(s) ==
  LET r == req[s]  from == argoInboundPort
      ok == Has(r.id) /\ (Get(r.id).argo \/ Get(r.id).edge \/ Get(r.id).standby)
      fixed == row.mode = "fixed" /\ row.token
  IN
  /\ At(s, "origin")
  /\ \/ /\ ok /\ ~(from = r.id /\ Get(r.id).on)
        /\ Then(s, [r EXCEPT !.pc = "flag", !.from = from, !.row.mode = row.mode])
     \/ (~ok \/ from = r.id \/ fixed) /\ End(s)
  /\ UNCHANGED <<db, redacting, sup, page, past, moves>>

Change(i) == inbounds' = {x \in inbounds : x.id # i.id} \cup {i}
Broken    == Move /\ torn' = TRUE

\* The new origin has the flag first.
FlagTarget(s) ==
  LET r == req[s] IN
  /\ At(s, "flag")
  /\ Has(r.id)
  /\ Change([Get(r.id) EXCEPT !.argo = TRUE, !.standby = FALSE, !.on = TRUE])
  /\ To(s, IF r.from \in {0, r.id} THEN "restart" ELSE "park")
  /\ UNCHANGED <<row, clients, policy, nets, redacting, sup, page, past, moves>>

\* A dedicated inbound has no other entry left: it is kept, switched off.
ParkCurrent(s) ==
  LET r == req[s]  i == Get(r.from) IN
  /\ At(s, "park") /\ Has(r.from)
  /\ \/ /\ Change([i EXCEPT !.argo = FALSE, !.standby = @ \/ ~i.edge, !.on = @ /\ i.edge])
        /\ To(s, "users") /\ UNCHANGED <<torn, moves>>
     \/ Broken /\ End(s) /\ UNCHANGED inbounds
  /\ UNCHANGED <<row, clients, policy, nets, redacting, sup, page, crossed, strayed>>

On(id) == {c[1] : c \in {x \in clients : x[2] = id}}

\* Mutant: only a dedicated inbound has users to bring along.
MutMoveUsers(s) ==
  LET r == req[s] IN
  /\ At(s, "users")
  /\ clients' = clients \cup {<<u, r.id>> : u \in IF Get(r.id).edge THEN {} ELSE On(r.from)}
  /\ To(s, "restart")
  /\ UNCHANGED <<row, inbounds, policy, nets, redacting, sup, page, past, moves>>

\* Its users get a client on the new origin, all of them or none.
MoveUsers(s) ==
  LET r == req[s] IN
  /\ At(s, "users")
  /\ \/ /\ clients' = clients \cup {<<u, r.id>> : u \in On(r.from)}
        /\ To(s, "restart") /\ UNCHANGED <<torn, moves>>
     \/ Broken /\ End(s) /\ UNCHANGED clients
  /\ UNCHANGED <<row, inbounds, policy, nets, redacting, sup, page, crossed, strayed>>

\* A quick tunnel has the port on its command line: one that runs is started anew.
RestartTemp(s) ==
  /\ At(s, "restart")
  /\ IF req[s].row.mode = "temp" /\ status = "running" THEN To(s, "cancel") ELSE End(s)
  /\ UNCHANGED <<db, redacting, sup, page, past, moves>>

\* Whether it feeds the tunnel is looked up before the inbound is deleted.
WasArgo(s) ==
  /\ At(s, "wasArgo")
  /\ Then(s, [req[s] EXCEPT !.pc = "delete", !.wasArgo = Has(req[s].id) /\ Get(req[s].id).argo])
  /\ UNCHANGED <<db, redacting, sup, page, past, moves>>

\* Mutant: the tunnel of a deleted inbound is left to run.
MutDeleteInbound(s) ==
  LET r == req[s] IN
  /\ At(s, "delete")
  /\ inbounds' = {i \in inbounds : i.id # r.id}
  /\ clients' = {c \in clients : c[2] # r.id}
  /\ IF r.wasArgo THEN To(s, "clear") ELSE End(s)
  /\ UNCHANGED <<row, policy, nets, redacting, sup, page, past, moves>>

DeleteInbound(s) ==
  LET r == req[s] IN
  /\ At(s, "delete")
  /\ inbounds' = {i \in inbounds : i.id # r.id}
  /\ clients' = {c \in clients : c[2] # r.id}
  /\ IF r.wasArgo THEN To(s, "cancel") ELSE End(s)
  /\ UNCHANGED <<row, policy, nets, redacting, sup, page, past, moves>>

\* With the tunnel stopped its configuration is cleared, the pool of the CDN is kept.
ClearArgo(s) ==
  LET r == req[s] IN
  \/ /\ At(s, "clear")
     /\ Then(s, [r EXCEPT !.pc = "saveCleared",
                          !.row = [row EXCEPT !.enabled = FALSE, !.mode = "", !.token = FALSE]])
     /\ UNCHANGED <<db, redacting, sup, page, past, moves>>
  \/ /\ At(s, "saveCleared")
     /\ WriteRow(s) /\ End(s)
     /\ UNCHANGED <<inbounds, clients, policy, nets, redacting, sup, page, strayed, torn, moves>>

(***************************************************************************)
(* The panel is restarted: processes that survive are killed, the flag of  *)
(* the logs is read from the row, the tunnel is started if it was enabled. *)
(***************************************************************************)
\* Mutant: the flag is left as a new process has it.
MutRestart ==
  /\ Move
  /\ torn' = (torn \/ \E s \in Sources : req[s] # Idle)
  /\ req' = [s \in Sources |-> IF s = "boot" THEN [Idle EXCEPT !.op = "boot", !.pc = "boot"] ELSE Idle]
  /\ procs' = {} /\ cmd' = 0 /\ status' = "idle" /\ redacting' = FALSE
  /\ UNCHANGED <<db, nextPid, page, crossed, strayed>>

Restart ==
  /\ Move
  /\ torn' = (torn \/ \E s \in Sources : req[s] # Idle)
  /\ req' = [s \in Sources |-> IF s = "boot" THEN [Idle EXCEPT !.op = "boot", !.pc = "boot"] ELSE Idle]
  /\ procs' = {} /\ cmd' = 0 /\ status' = "idle" /\ redacting' = row.redact
  /\ UNCHANGED <<db, nextPid, page, crossed, strayed>>

-----------------------------------------------------------------------------
Init ==
  /\ row = NoRow /\ inbounds = Origins /\ clients = Grants
  /\ policy = (CHOOSE p \in Policies : TRUE) /\ nets = Networks
  /\ redacting = FALSE /\ status = "idle" /\ cmd = 0 /\ procs = {} /\ nextPid = 1
  /\ page = [t \in Tabs |-> Shown] /\ req = [s \in Sources |-> Idle]
  /\ crossed = FALSE /\ strayed = FALSE /\ torn = FALSE
  /\ moves = 0

Operator(t) ==
  \/ CdnPanel(t) \/ QuicPanel(t) \/ LogPrivacyCard(t) \/ CdnInsights(t) \/ PolicyCard(t)
  \/ saveThenStart(t) \/ ArgoAutoStart(t) \/ stopTunnel(t) \/ ArgoCFApi(t)
  \/ ArgoOriginCard(t) \/ DeleteRow(t)

Serve(s) ==
  \/ Load(s) \/ Save(s) \/ SetEnabled(s) \/ ArgoCFProvision(s)
  \/ StopCancel(s) \/ StopReset(s) \/ Spawn(s) \/ Await(s)
  \/ ArgoStart(s) \/ SaveEnabled(s) \/ Launch(s)
  \/ SetArgoOrigin(s) \/ FlagTarget(s) \/ ParkCurrent(s) \/ MoveUsers(s) \/ RestartTemp(s)
  \/ WasArgo(s) \/ DeleteInbound(s) \/ ClearArgo(s)

Next == \/ \E t \in Tabs : Refetch(t) \/ Operator(t)
        \/ \E s \in Sources : Serve(s)
        \/ AutoStartArgoIfEnabled \/ Exit \/ Restart

Spec == Init /\ [][Next]_vars

(***************************************************************************)
(* Properties                                                              *)
(***************************************************************************)
AtRest == \A s \in Sources : req[s] = Idle

\* Saving one panel leaves the columns of the others alone, however old the page
\* is that it was saved from, unless another writer wrote the row between the
\* read and the write; and so do the starts and the deletions (UpsertAdvanced).
OwnSliceOnly ==
  [][\A c \in DOMAIN row : row'[c] # row[c] =>
       crossed' \/ \E s \in Sources : req'[s] # req[s] /\ Holds(s) /\ c \in Slice(req[s].op)]_vars

\* The switch that keeps client addresses out of the logs is what the row says
\* once nothing is under way, through restarts too, or it would be off unseen.
RedactIsLive == AtRest /\ ~crossed /\ ~torn => redacting = row.redact

\* A quick tunnel that runs dials the inbound that is bound to it, after a move,
\* a deletion, a change of mode or a restart, unless requests about the tunnel
\* overlapped or came from an outdated page, or two writers of the row crossed,
\* which can bring the mode of a quick tunnel back; with nothing bound none runs.
TunnelFeedsOrigin ==
  AtRest /\ ~strayed /\ ~torn /\ ~crossed =>
    \A p \in procs :
      /\ argoInboundPort # 0
      /\ p.pid = cmd
      /\ p.mode = "temp" /\ row.mode = "temp" /\ status = "running" => p.dial = argoInboundPort

\* Whoever had a tunnel node through an inbound that was parked has one through
\* the inbound that took its place (SetArgoOrigin: "so nobody loses their tunnel
\* node"), and there is one such inbound, switched on.
NobodyLosesTheTunnel ==
  AtRest /\ ~strayed /\ ~torn /\ Cardinality(inbounds) = Cardinality(Origins) =>
    /\ Cardinality(Bound) = 1 /\ Get(argoInboundPort).on
    /\ \A i \in inbounds : i.standby => On(i.id) \subseteq On(argoInboundPort)
=============================================================================
