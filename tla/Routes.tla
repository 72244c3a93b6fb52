-------------------------------- MODULE Routes --------------------------------
(***************************************************************************)
(* How the server reaches the outside: the ordered table of routing rules, *)
(* which several pages of the browser edit from the list each one last     *)
(* saw, the curated group that is materialised switched off, the domains   *)
(* that are captured, and the WARP identity that the rules may point at.   *)
(* The first rule that matches wins, and a rule whose outbound the engine  *)
(* does not have is skipped.                                               *)
(***************************************************************************)
EXTENDS Integers, Sequences, FiniteSets, SequencesExt, FiniteSetsExt

CONSTANTS Tabs,       \* open pages
          Preset,     \* the domains of the curated group, in its order
          Loose,      \* other domains, typed or captured
          OUTBOUNDS,  \* what a rule may point at
          AtFirst,    \* the rules there are at first
          MaxRules, MaxMoves  \* bounds: rules ever made; what the operator does

ASSUME RoutesAssumption ==
  /\ OUTBOUNDS \subseteq {"direct", "block", "warp"} /\ "warp" \in OUTBOUNDS
  /\ IsInjective(Preset) /\ Range(Preset) \cap Loose = {}
  /\ \A r \in AtFirst : r.id \in 1..Cardinality(AtFirst)

VARIABLES
  rules,     \* database: the routing rules
  warp,      \* database: the WARP row, whose key no page ever sees
  engine,    \* what the engine routes by
  pollers,   \* the goroutines of live captures that were not cancelled
  live,      \* the one live capture
  page,      \* what each page shows and has picked
  req,       \* the requests about WARP in flight, at most one of a kind per page
  owed,      \* history: the last write that the engine was not told, or refused
  outdated,  \* history: a WARP form older than the row was saved
  lastId, regs, moves

table == <<rules, warp, engine, owed, lastId>>
capt  == <<pollers, live>>
routesVars == <<table, capt, page, req, outdated, regs, moves>>

Move == moves < MaxMoves /\ moves' = moves + 1
SOURCES   == {"preset", "custom", "captured"}
Pickable  == {"preset", "custom"}
Domains   == Range(Preset) \cup Loose
NoRule    == [id |-> 0, value |-> "", outbound |-> "direct", enabled |-> TRUE, order |-> 0,
              source |-> "custom"]
NoWarp    == [enabled |-> FALSE, key |-> 0, addr |-> 0]

isPresetSource(s) == s = "preset"

(***************************************************************************)
(* The table and the engine                                                *)
(***************************************************************************)
Before(a, b) == a.order < b.order \/ (a.order = b.order /\ a.id < b.id)

\* In declared order: ties fall to the older rule.
ListRouteRules(rs) == SetToSortSeq(rs, Before)

\* What the engine is asked for, and what it makes of it: a rule that is off is
\* not sent, one that points at WARP while WARP is off is skipped.
BuildDesired(rs, w) ==
  [routes |-> ListRouteRules({r \in rs : r.enabled}),
   warp   |-> IF w.enabled THEN [key |-> w.key, addr |-> w.addr] ELSE [key |-> 0, addr |-> 0]]

renderRoute(r) == [value |-> r.value, outbound |-> r.outbound]

Render(cfg) ==
  [warp   |-> cfg.warp,
   routes |-> LET kept == SelectSeq(cfg.routes, LAMBDA r : r.outbound # "warp" \/ cfg.warp.key # 0)
              IN [i \in 1..Len(kept) |-> renderRoute(kept[i])]]

\* Where the traffic to a domain leaves.
Egress(eng, d) ==
  LET hits == {i \in 1..Len(eng.routes) : eng.routes[i].value = d}
  IN IF hits = {} THEN "default" ELSE eng.routes[Min(hits)].outbound

\* A handler stores and then applies; an Apply that fails leaves what was stored.
Stored(rs, w) ==
  /\ rules' = rs /\ warp' = w
  /\ \/ engine' = Render(BuildDesired(rs, w)) /\ owed' = "none"
     \/ engine' = engine /\ owed' = "failed"

(***************************************************************************)
(* The handlers of the rules: what each makes of the table                 *)
(***************************************************************************)
New(value, outbound, enabled, order, source, n) ==
  [id |-> lastId + n, value |-> value, outbound |-> outbound, enabled |-> enabled,
   order |-> order, source |-> source]

Make(more) ==
  /\ lastId + Cardinality(more) <= MaxRules
  /\ lastId' = lastId + Cardinality(more)
  /\ Stored(rules \cup more, warp)

Keep(rs) == Stored(rs, warp) /\ UNCHANGED lastId
Nothing  == UNCHANGED table

Missing(ds, outbound) ==
  SelectSeq(ds, LAMBDA d : ~\E r \in rules : r.value = d /\ r.outbound = outbound)

CreateRoute(value, outbound, enabled, source, order) ==
  Make({New(value, outbound, enabled, order, source, 1)})

\* Every field of the body is written over what the row holds now.
UpdateRoute(body) ==
  IF \E r \in rules : r.id = body.id
  THEN Keep({IF r.id = body.id THEN body ELSE r : r \in rules})
  ELSE Nothing

DeleteRoute(id) ==
  IF \E r \in rules : r.id = id THEN Keep({r \in rules : r.id # id}) ELSE Nothing

\* Mutant: the rules are created switched on.
MutApplyRoutePreset(outbound, enabled) ==
  LET ds == Missing(Preset, outbound)
  IN Make({New(ds[i], outbound, TRUE, 0, "preset", i) : i \in 1..Len(ds)})

\* No order is given: the new rules come to the top of the list, after the older
\* ones that are first already.
ApplyRoutePreset(outbound, enabled) ==
  LET ds == Missing(Preset, outbound)
  IN Make({New(ds[i], outbound, enabled, 0, "preset", i) : i \in 1..Len(ds)})

ApplyCapturedRoutes(domains, outbound) ==
  LET ds == Missing(SetToSeq(domains), outbound)
  IN Make({New(ds[i], outbound, TRUE, 0, "captured", i) : i \in 1..Len(ds)})

\* Rules that are gone by now are skipped; nothing is applied when all are.
BulkRoutes(action, ids) ==
  LET hit == {r \in rules : r.id \in ids}
  IN IF hit = {} THEN Nothing
     ELSE IF action = "delete" THEN Keep(rules \ hit)
     ELSE Keep((rules \ hit) \cup {[r EXCEPT !.enabled = (action = "enable")] : r \in hit})

Named(ids, r) == CHOOSE i \in 1..Len(ids) : ids[i] = r.id

\* A list that leaves a rule out, or names one that is gone, is refused.
ReorderRoutes(ids) ==
  IF Len(ids) = Cardinality(rules) /\ Range(ids) \subseteq {r.id : r \in rules}
  THEN Keep({IF r.id \in Range(ids) THEN [r EXCEPT !.order = Named(ids, r) - 1] ELSE r : r \in rules})
  ELSE Nothing

(***************************************************************************)
(* The page of the rules                                                   *)
(***************************************************************************)
Idle == UNCHANGED <<capt, req, outdated, regs>>

\* The queries run on mount, on focus and after a change; in the model not any
\* more when the operator has spent his moves.  An open form keeps its rule.
Refetch(t) ==
  LET list == ListRouteRules(rules) IN
  /\ moves < MaxMoves /\ (page[t].list # list \/ page[t].addr # warp.addr)
  /\ page' = [page EXCEPT ![t].list = list, ![t].addr = warp.addr]
  /\ UNCHANGED <<table, capt, req, outdated, regs, moves>>

Shown(t)  == Range(page[t].list)
Idents(t) == {r.id : r \in Shown(t)}

\* What the card of a group works out from the rules on the page.
stateFor(t) ==
  LET applied == {r \in Shown(t) : r.source = "preset"}
  IN [applied |-> applied,
      outs    |-> {r.outbound : r \in applied},
      missing |-> {d \in Range(Preset) : ~\E r \in applied : r.value = d}]

\* What was picked, else what the group has in common, else what is recommended.
chosenOut(t) ==
  IF page[t].out # "" THEN page[t].out
  ELSE IF Cardinality(stateFor(t).outs) = 1 THEN CHOOSE o \in stateFor(t).outs : TRUE ELSE "warp"

\* The rules of the group are created, switched off, if one is missing, and the
\* table is filtered to them.
ViewRules(t) ==
  /\ Move /\ Idle
  /\ IF stateFor(t).missing # {} THEN ApplyRoutePreset(chosenOut(t), FALSE) ELSE Nothing
  /\ page' = [page EXCEPT ![t].filter = "preset"]

PickOutbound(t) == \E o \in OUTBOUNDS \ {page[t].out} :
  /\ Move /\ stateFor(t).missing # {}
  /\ page' = [page EXCEPT ![t].out = o]
  /\ UNCHANGED <<table, capt, req, outdated, regs>>

RemoveGroup(t) ==
  /\ stateFor(t).applied # {}
  /\ Move /\ Idle /\ UNCHANGED page
  /\ BulkRoutes("delete", {r.id : r \in stateFor(t).applied})

RoutePresetsCard(t) == ViewRules(t) \/ PickOutbound(t) \/ RemoveGroup(t)

\* Rows are ticked one by one or all at once; what is gone loses its tick.
Selections(t) == SUBSET Shown(t) \ {{}}

\* The rules of a group are dropped from what is deleted in bulk.
runBulk(t) == \E action \in {"delete", "enable", "disable"}, picked \in Selections(t) :
  LET ids == {r.id : r \in {x \in picked : action = "delete" => ~isPresetSource(x.source)}} IN
  /\ ids # {} /\ Move /\ Idle /\ UNCHANGED page
  /\ BulkRoutes(action, ids)

\* The opposite of what the row shows.
toggleRule(t) == \E r \in Shown(t) :
  /\ Move /\ Idle /\ UNCHANGED page
  /\ BulkRoutes(IF r.enabled THEN "disable" ELSE "enable", {r.id})

\* A rule of a group has no button of its own to delete it.
del(t) == \E r \in {x \in Shown(t) : ~isPresetSource(x.source)} :
  /\ Move /\ Idle /\ UNCHANGED page
  /\ DeleteRoute(r.id)

\* A row is dropped in another place of the whole list, which the page shows from
\* then on, refused or not; the rows keep the order that they were loaded with.
onDrop(t) == \E from, to \in 1..Len(page[t].list) :
  LET next == InsertAt(RemoveAt(page[t].list, from), to, page[t].list[from]) IN
  /\ from # to /\ page[t].filter = "all"
  /\ Move /\ Idle
  /\ page' = [page EXCEPT ![t].list = next]
  /\ ReorderRoutes([i \in 1..Len(next) |-> next[i].id])

ClearFilter(t) ==
  /\ page[t].filter # "all" /\ Move
  /\ page' = [page EXCEPT ![t].filter = "all"]
  /\ UNCHANGED <<table, capt, req, outdated, regs>>

\* The form for a new rule, or with a row as it is shown at that moment.
OpenRule(t) == \E r \in Shown(t) \cup {NoRule} :
  /\ page[t].editing = {} /\ Move
  /\ page' = [page EXCEPT ![t].editing = {r}]
  /\ UNCHANGED <<table, capt, req, outdated, regs>>

\* Of a rule of a group only the outbound and the switch can be changed.
Edits(r) ==
  IF isPresetSource(r.source)
  THEN {[r EXCEPT !.outbound = o, !.enabled = on] : o \in OUTBOUNDS, on \in BOOLEAN}
  ELSE {[r EXCEPT !.value = d, !.outbound = o, !.enabled = on, !.source = s] :
          d \in IF r.id = 0 THEN Loose ELSE Loose \cup {r.value}, o \in OUTBOUNDS,
          on \in BOOLEAN, s \in Pickable \cup {r.source}}

\* A new rule is put where the list on the page ends, an edited one where it was;
\* the form stays when it was refused.
RuleModal(t) == \E r \in page[t].editing : \E body \in Edits(r) :
  /\ Move /\ Idle
  /\ IF r.id = 0
     THEN CreateRoute(body.value, body.outbound, body.enabled, body.source, Len(page[t].list))
     ELSE UpdateRoute(body)
  /\ page' = [page EXCEPT ![t].editing =
               IF owed' = "failed" \/ (r.id # 0 /\ \A x \in rules : x.id # r.id) THEN @ ELSE {}]

\* The form is put away, with what was typed.
CloseRule(t) ==
  /\ page[t].editing # {} /\ Move
  /\ page' = [page EXCEPT ![t].editing = {}]
  /\ UNCHANGED <<table, capt, req, outdated, regs>>

RoutesPage(t) ==
  \/ runBulk(t) \/ toggleRule(t) \/ del(t) \/ onDrop(t)
  \/ ClearFilter(t) \/ OpenRule(t) \/ CloseRule(t) \/ RuleModal(t)

(***************************************************************************)
(* Capture                                                                 *)
(***************************************************************************)
\* What can be ticked of the domains that were found.
DomainChecklist == SUBSET Domains \ {{}}

\* The domains of a site that was scanned.
CaptureModal(t) == \E ds \in DomainChecklist, o \in OUTBOUNDS :
  /\ Move /\ Idle /\ UNCHANGED page
  /\ ApplyCapturedRoutes(ds, o)

\* Refused while one runs.
StartLiveCapture ==
  IF live.running THEN UNCHANGED capt
  ELSE /\ live' = [running |-> TRUE, cancel |-> moves + 1]
       /\ pollers' = pollers \cup {moves + 1}

\* Mutant: the goroutine is not cancelled.
MutStopLiveCapture == live' = [live EXCEPT !.running = FALSE] /\ UNCHANGED pollers

\* Whoever asks stops the capture, even one that another page has started.
StopLiveCapture ==
  /\ pollers' = pollers \ {live.cancel}
  /\ live' = [live EXCEPT !.running = FALSE]

\* The button shows what the panel heard last, so either may come at any time.
LiveStart(t) == Move /\ StartLiveCapture /\ UNCHANGED <<table, page, req, outdated, regs>>
LiveStop(t)  == Move /\ StopLiveCapture  /\ UNCHANGED <<table, page, req, outdated, regs>>

\* Building rules of what was captured ends the capture, with requests of their own.
LiveCapturePanel(t) == \E ds \in DomainChecklist, o \in OUTBOUNDS :
  /\ ~page[t].ending /\ Move /\ Idle
  /\ ApplyCapturedRoutes(ds, o)
  /\ page' = [page EXCEPT ![t].ending = owed' # "failed"]

EndCapture(t) ==
  /\ page[t].ending
  /\ StopLiveCapture
  /\ page' = [page EXCEPT ![t].ending = FALSE]
  /\ UNCHANGED <<table, req, outdated, regs, moves>>

Captures(t) == CaptureModal(t) \/ LiveStart(t) \/ LiveStop(t) \/ LiveCapturePanel(t) \/ EndCapture(t)

(***************************************************************************)
(* WARP                                                                    *)
(***************************************************************************)
Pending(t, op) == {r \in req : r.tab = t /\ r.op = op}

\* A new account is asked for; Cloudflare takes its time, and may refuse.
AskRegister(t) ==
  /\ Pending(t, "register") = {} /\ Move
  /\ req' = req \cup {[tab |-> t, op |-> "register", enabled |-> FALSE, key |-> 0, addr |-> 0]}
  /\ UNCHANGED <<table, capt, page, outdated, regs>>

\* The account replaces the row, switched off, and the engine is not told.
RegisterWarp(r) ==
  /\ r.op = "register" /\ req' = req \ {r}
  /\ \/ /\ regs' = regs + 1
        /\ warp' = [enabled |-> FALSE, key |-> regs', addr |-> regs']
        /\ page' = [page EXCEPT ![r.tab].addr = regs']
        /\ owed' = "register"
     \/ UNCHANGED <<regs, warp, page, owed>>
  /\ UNCHANGED <<rules, engine, lastId, capt, outdated, moves>>

\* The form has everything but the key, which is read from the row; to switch
\* WARP on takes a key and a peer.
PutWarp(t) == \E on \in BOOLEAN :
  /\ Pending(t, "put") = {} /\ Move
  /\ on => warp.key # 0 /\ page[t].addr # 0
  /\ req' = req \cup {[tab |-> t, op |-> "put", enabled |-> on, key |-> warp.key, addr |-> page[t].addr]}
  /\ outdated' = (outdated \/ page[t].addr # warp.addr)
  /\ UNCHANGED <<table, capt, page, regs>>

\* Mutant: the key is taken from the row when it is written.
MutUpsertWarp(r) ==
  /\ r.op = "put" /\ req' = req \ {r}
  /\ Stored(rules, [enabled |-> r.enabled, key |-> warp.key, addr |-> r.addr])
  /\ UNCHANGED <<lastId, capt, page, outdated, regs, moves>>

UpsertWarp(r) ==
  /\ r.op = "put" /\ req' = req \ {r}
  /\ Stored(rules, [enabled |-> r.enabled, key |-> r.key, addr |-> r.addr])
  /\ UNCHANGED <<lastId, capt, page, outdated, regs, moves>>

\* Mutant: the engine is not told.
MutDeleteWarp(t) ==
  /\ Move /\ warp' = NoWarp
  /\ UNCHANGED <<rules, engine, owed, lastId, capt, page, req, outdated, regs>>

DeleteWarp(t) ==
  /\ Move /\ Stored(rules, NoWarp)
  /\ UNCHANGED <<lastId, capt, page, req, outdated, regs>>

WarpPanel(t) == AskRegister(t) \/ PutWarp(t) \/ DeleteWarp(t)

(***************************************************************************)
(* Detection                                                               *)
(***************************************************************************)
\* What is not unlocked, for whatever reason, counts as blocked.
STATE_META == {"unlocked", "blocked"}

\* A direct run makes the comparison with an earlier one through WARP void.
UnlockProbe(t) == \E s \in STATE_META :
  /\ Move
  /\ page' = [page EXCEPT ![t].direct = s, ![t].via = ""]
  /\ UNCHANGED <<table, capt, req, outdated, regs>>

\* Through a tunnel of its own, so that WARP need not be on, only registered.
UnlockProbeWARP(t) == \E s \in STATE_META :
  /\ warp.key # 0 /\ Move
  /\ page' = [page EXCEPT ![t].via = s]
  /\ UNCHANGED <<table, capt, req, outdated, regs>>

UnlockPanel(t) == UnlockProbe(t) \/ UnlockProbeWARP(t)

\* Blocked, and WARP not tried: the link to the group, with WARP picked for it.
needsRelay(t) == page[t].direct = "blocked" /\ page[t].via = ""

\* The page that the link opens begins anew, with WARP picked for the group.
initialPreset(p) == [p EXCEPT !.out = "warp", !.filter = "preset", !.direct = "", !.editing = {}]

OutboundPage(t) ==
  /\ needsRelay(t) /\ Move
  /\ page' = [page EXCEPT ![t] = initialPreset(@)]
  /\ UNCHANGED <<table, capt, req, outdated, regs>>

-----------------------------------------------------------------------------
\* A panel with some rules and an account, which is on; the pages have just loaded.
RoutesInit ==
  /\ rules = AtFirst /\ lastId = Cardinality(AtFirst)
  /\ warp = [enabled |-> TRUE, key |-> 1, addr |-> 1] /\ regs = 1
  /\ engine = Render(BuildDesired(rules, warp)) /\ owed = "none"
  /\ pollers = {} /\ live = [running |-> FALSE, cancel |-> 0]
  /\ page = [t \in Tabs |-> [list |-> ListRouteRules(rules), addr |-> 1, filter |-> "all", out |-> "", editing |-> {},
                             ending |-> FALSE, direct |-> "", via |-> ""]]
  /\ req = {} /\ outdated = FALSE /\ moves = 0

RoutesNext ==
  \/ \E t \in Tabs : \/ Refetch(t) \/ RoutePresetsCard(t) \/ RoutesPage(t) \/ Captures(t)
                     \/ WarpPanel(t) \/ UnlockPanel(t) \/ OutboundPage(t)
  \/ \E r \in req : RegisterWarp(r) \/ UpsertWarp(r)

RoutesSpec == RoutesInit /\ [][RoutesNext]_routesVars

-----------------------------------------------------------------------------
\* The engine routes by the table and the WARP row as they are stored, unless the
\* last write that concerned them was refused by it or registered an account: every
\* handler that changes the one or the other applies before it answers.
ServedUnlessOwed == owed = "none" => engine = Render(BuildDesired(rules, warp))

\* To look at the rules of a group routes nothing: they are created switched off, so
\* that every domain leaves where it left before, wherever in the list they land
\* (an account that waits for its first Apply aside).
ViewingRoutesNothing ==
  [][\A t \in Tabs : ViewRules(t) /\ owed # "register" /\ owed # "failed" =>
       \A d \in Domains : Egress(engine', d) = Egress(engine, d)]_routesVars

\* The key and the addresses of the row come from one registration, however saves,
\* registrations and deletions overlap, unless a form that was older than the row
\* was saved: no page sees the key, so the handler has to put the two together.
IdentityStaysWhole == outdated \/ warp.key = warp.addr

\* However many pages start and stop captures, at most one goroutine polls, and
\* none does when none is running.
OnePoller == pollers = IF live.running THEN {live.cancel} ELSE {}
=============================================================================
