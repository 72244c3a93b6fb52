------------------------------- MODULE Members -------------------------------
(***************************************************************************)
(* Users and their bundles. A user is an email shared by client rows on    *)
(* several inbounds; a bundle is a subscription that names one of those    *)
(* rows, its seed, and the inbounds it may serve. The user service changes *)
(* them statement by statement from lists it read earlier, while other     *)
(* pages delete an inbound, a client or a bundle, and the dialogs send     *)
(* what they cached.                                                       *)
(***************************************************************************)
EXTENDS Integers, FiniteSets, FiniteSetsExt

CONSTANTS Tabs,      \* panel pages, each with one request at a time
          Inbounds,  \* inbound ids; they are never reused
          First,     \* those that are there at the start
          Single,    \* shadowsocks and socks inbounds: one credential each
          Off,       \* inbounds that are switched off
          Emails,
          Rows,      \* the client rows at the start, each user with its bundle
          Nobody,
          MaxClients,\* bound: client rows ever made
          MaxMoves,  \* bound: what operators do
          MaxFlips,  \* bound: boxes toggled in one dialog
          MaxFaults  \* bound: statements that fail

ASSUME MembersAssumption ==
  /\ Inbounds \subseteq Nat \ {0} /\ First \subseteq Inbounds
  /\ Single \subseteq Inbounds /\ Off \subseteq Inbounds
  /\ IsFiniteSet(Rows) /\ Rows # {}
  /\ Rows \subseteq [id: Nat, ib: First, email: Emails, on: {TRUE}, who: Int]
  /\ \A c, d \in Rows :
       /\ c.id = d.id => c = d
       /\ c.email = d.email /\ c.ib = d.ib => c = d
       /\ c.email = d.email <=> c.who = d.who
       /\ c.who <= 0
  /\ Nobody \notin Emails
  /\ MaxClients \in Nat

VARIABLES
  inbounds, \* database: ids of the inbounds
  gone,     \* history: ids of the inbounds that were deleted
  clients,  \* database: client rows; "who" is a history field, whom it was made for
  subs,     \* database: bundles; an empty "allowed" means every inbound
  nextId,   \* database: the next client id
  req,      \* the request of each page, while it is served
  users,    \* what each page has cached of GET /users
  edit,     \* the edit dialog of each page
  bulk,     \* the bulk delete of one of the pages
  overlapped, \* history: a request was in flight when another began or took rows
  parted,   \* history: a bundle lost its seed to another page
  moves, faults

db   == <<inbounds, clients, subs, nextId>>
past == <<gone, overlapped, parted>>
vars == <<db, req, users, edit, bulk, past, moves, faults>>

Move  == moves < MaxMoves /\ moves' = moves + 1
Fault == faults < MaxFaults /\ faults' = faults + 1

ClientsByEmail(e) == {c \in clients : c.email = e}

Idle   == [op |-> "none", pc |-> "none", email |-> Nobody, new |-> Nobody, ids |-> {},
           touch |-> FALSE, on |-> TRUE, cur |-> {}, todo |-> {}, keep |-> {},
           rest |-> {}, made |-> {}, scope |-> {}, at |-> 0, into |-> 0, who |-> 0]
Closed == [email |-> Nobody, members |-> {}, ready |-> FALSE, on |-> TRUE]
NoBulk == [busy |-> FALSE, ids |-> {}, todo |-> {}, failed |-> 0]

\* One row per email that some listed inbound has, with the inbounds it is on.
ListUsers ==
  {[email |-> e, ibs |-> {c.ib : c \in {d \in ClientsByEmail(e) : d.ib \in inbounds}},
    on |-> \A c \in ClientsByEmail(e) : c.ib \in inbounds => c.on] :
     e \in {c.email : c \in {d \in clients : d.ib \in inbounds}}}

(***************************************************************************)
(* What a bundle's link serves: the rows of the seed's email, on inbounds  *)
(* that are on and allowed; nothing at all without an enabled seed.        *)
(***************************************************************************)
Seed(s) == {c \in clients : c.id = s.seed}
inboundAllowed(s, ib) == s.allowed = {} \/ ib \in s.allowed
ResolveBundles(s) ==
  IF s.revoked \/ \A c \in Seed(s) : ~c.on THEN {}
  ELSE {c \in clients : /\ c.on /\ c.email \in {d.email : d \in Seed(s)}
                        /\ c.ib \in inbounds \ Off /\ inboundAllowed(s, c.ib)}

(***************************************************************************)
(* The pages                                                               *)
(***************************************************************************)
\* The list is fetched on mount, on focus and after each change: at any time, but
\* what a page hears while it waits for its own request it hears again after it.
Refetch(t) ==
  /\ users[t] # ListUsers /\ req[t] = Idle
  /\ users' = [users EXCEPT ![t] = ListUsers]
  \* An open dialog fills its boxes once, when it first finds the row.
  /\ LET d   == edit[t]
         row == {u \in ListUsers : u.email = d.email}
     IN edit' = IF d.email = Nobody THEN edit
                ELSE [edit EXCEPT ![t].ready = row # {},
                                  ![t].members = IF d.ready \/ row = {} THEN d.members
                                                 ELSE (CHOOSE u \in row : TRUE).ibs]
  /\ UNCHANGED <<db, req, bulk, past, moves, faults>>

\* A dialog shows what the cache has of its user at that moment.
OpenEdit(t) ==
  /\ edit[t] = Closed /\ Move
  /\ \E u \in users[t] :
       edit' = [edit EXCEPT ![t] = [email |-> u.email, members |-> u.ibs, ready |-> TRUE, on |-> u.on]]
  /\ UNCHANGED <<db, req, users, bulk, past, faults>>

Ask(t, r) ==
  /\ req[t] = Idle
  /\ req' = [req EXCEPT ![t] = [r EXCEPT !.who = moves + 1]]
  /\ overlapped' = (overlapped \/ \E u \in Tabs : req[u] # Idle)
  /\ UNCHANGED <<db, users, bulk, gone, parted, faults>>

SubmitCreate(t) ==
  /\ Move /\ UNCHANGED edit
  \* Every box is ticked at first; with no inbound to tick the list is empty.
  /\ \E e \in Emails, ids \in SUBSET (inbounds \ Single) :
       Ask(t, [Idle EXCEPT !.op = "create", !.pc = "list", !.email = e, !.ids = ids])

SubmitEdit(t) ==
  /\ edit[t] # Closed /\ Move
  /\ \E e \in Emails, flip \in SUBSET (inbounds \ Single), on \in BOOLEAN :
       /\ flip # {} => edit[t].ready /\ Cardinality(flip) <= MaxFlips
       /\ Ask(t, [Idle EXCEPT !.op = "update", !.pc = "clients", !.email = edit[t].email,
                   !.new = e, !.touch = edit[t].ready, !.on = on,
                   !.ids = (edit[t].members \ flip) \cup (flip \ edit[t].members)])
  /\ edit' = [edit EXCEPT ![t] = Closed]

SubmitDelete(t) ==
  /\ Move /\ UNCHANGED edit
  /\ \E u \in users[t] :
       Ask(t, [Idle EXCEPT !.op = "delete", !.pc = "clients", !.email = u.email])

\* The users the cached list does not show on that inbound: some of them from
\* its dialog, all of them from the result page of the wizard.
Candidates(t, ib) == {u.email : u \in {v \in users[t] : ib \notin v.ibs}}
SubmitAdd(t) ==
  /\ Move /\ UNCHANGED edit
  /\ \E ib \in inbounds : \E picked \in SUBSET Candidates(t, ib) :
       /\ picked # {}
       /\ Ask(t, [Idle EXCEPT !.op = "add", !.pc = "inbound", !.into = ib, !.rest = picked])

(***************************************************************************)
(* The user service, one statement at a time                               *)
(***************************************************************************)
\* Where a loop that has nothing left goes on; the rest of an "add" starts afresh.
Rescoped(r) == IF r.op = "add" THEN [Idle EXCEPT !.op = "add", !.pc = "next", !.into = r.into,
                                                 !.rest = r.rest, !.who = r.who]
               ELSE Idle
SaveEnds(r) ==
  IF r.pc = "save" /\ r.keep = {}
  THEN IF r.touch THEN [r EXCEPT !.pc = "rlist", !.email = r.new] ELSE Idle ELSE r
AddsEnd(r) ==
  IF r.pc = "count" /\ r.todo = {}
  THEN [r EXCEPT !.pc = IF r.op = "create" THEN "sub" ELSE "remove"] ELSE r
RemovesEnd(r) == IF r.pc = "remove" /\ r.keep = {} THEN [r EXCEPT !.pc = "survivors"] ELSE r
ScopeEnds(r)  == IF r.pc = "scope" /\ r.scope = {} THEN Rescoped(r) ELSE r
UsersEnd(r)   == IF r.pc = "next" /\ r.rest = {} THEN Idle ELSE r
BundlesEnd(r) == IF r.pc = "dsub" /\ r.scope = {} THEN [r EXCEPT !.pc = "dclient"] ELSE r
RowsEnd(r)    == IF r.pc = "dclient" /\ r.keep = {} THEN Idle ELSE r

Onward(r) ==
  RowsEnd(BundlesEnd(UsersEnd(ScopeEnds(RemovesEnd(AddsEnd(SaveEnds(r)))))))

On(t, pc)   == req[t].pc = pc
Then(t, r)  == req' = [req EXCEPT ![t] = Onward(r)]
End(t)      == Then(t, Idle)
Kept        == UNCHANGED <<users, edit, bulk, past, moves>>
Read        == UNCHANGED <<db, faults>> /\ Kept

skipForMultiUser(ib) == ib \in Single

\* Explicit ids, else every enabled inbound; the email must be free. Reads that
\* follow one another are one step.
CreateChecks(t) ==
  /\ On(t, "list") /\ Read
  /\ LET r == req[t]
         target == {ib \in inbounds : /\ IF r.ids = {} THEN ib \notin Off ELSE ib \in r.ids
                                      /\ ~skipForMultiUser(ib)}
     IN IF ClientsByEmail(r.email) # {} \/ target = {} THEN End(t)
        ELSE Then(t, [r EXCEPT !.pc = "count", !.todo = target])

\* CreateClient: the email must be new on the inbound; counted, then inserted.
CountClient(t) ==
  /\ On(t, "count") /\ Read
  /\ LET r == req[t] IN
     \E ib \in (IF r.op = "create" THEN {Min(r.todo)} ELSE r.todo) :
       IF \E c \in ClientsByEmail(r.email) : c.ib = ib THEN End(t)
       ELSE Then(t, [r EXCEPT !.pc = "insert", !.at = ib])

\* Mutant: a row that is added is switched on.
MutNewClient(r) ==
  [id |-> nextId, ib |-> r.at, email |-> r.email, who |-> r.who, on |-> TRUE]

NewClient(r) ==
  [id |-> nextId, ib |-> r.at, email |-> r.email, who |-> r.who,
   on |-> r.op = "create" \/ r.cur = {} \/ \E c \in r.cur : c.on]
InsertClient(t) ==
  /\ On(t, "insert") /\ Kept /\ nextId <= MaxClients
  /\ LET r == req[t] IN
     /\ clients' = clients \cup {NewClient(r)}
     /\ Then(t, [r EXCEPT !.pc = "count", !.todo = @ \ {r.at}, !.at = 0,
                          !.made = @ \cup {<<nextId, r.at>>}])
  /\ nextId' = nextId + 1 /\ UNCHANGED <<inbounds, subs, faults>>

Bundle(id, ibs, token, who) ==
  [id |-> id, seed |-> id, allowed |-> ibs, revoked |-> FALSE, token |-> token, who |-> who]
CreateSub(t) ==
  /\ On(t, "sub") /\ Kept
  /\ LET made == req[t].made
     IN subs' = subs \cup {Bundle(Min({m[1] : m \in made}), {m[2] : m \in made}, req[t].who, req[t].who)}
  /\ End(t) /\ UNCHANGED <<inbounds, clients, nextId, faults>>

\* Update and Delete start from the rows of the email.
ReadClients(t) ==
  /\ On(t, "clients") /\ Read
  /\ LET r == req[t]  cur == ClientsByEmail(r.email) IN
     IF cur = {} THEN End(t)
     ELSE Then(t, [r EXCEPT !.cur = cur, !.keep = cur, !.who = (CHOOSE c \in cur : TRUE).who,
            !.pc = IF r.op = "delete" THEN "dsubs"
                   ELSE IF r.new # r.email THEN "collide" ELSE "save"])
UpdateCollides(t) ==
  /\ On(t, "collide") /\ Read
  /\ IF ClientsByEmail(req[t].new) # {} THEN End(t)
     ELSE Then(t, [req[t] EXCEPT !.pc = "save"])

\* Each row is saved whole, as it was read: a row that is gone is inserted again.
Saved(r, c) == [c EXCEPT !.email = r.new, !.on = r.on]

SaveClient(t) ==
  /\ On(t, "save") /\ Kept
  /\ LET r == req[t]
         c == CHOOSE d \in r.keep : \A e \in r.keep : d.id <= e.id
     IN /\ clients' = {d \in clients : d.id # c.id} \cup {Saved(r, c)}
        /\ Then(t, [r EXCEPT !.keep = @ \ {c}])
  /\ UNCHANGED <<inbounds, subs, nextId, faults>>

\* Mutant: the ids of the request are not looked up.
MutTargets(r, cur) == {ib \in r.ids \ {c.ib : c \in cur} : ~skipForMultiUser(ib)}

\* reconcileUserInbounds: add the missing rows, remove the others, rescope.
Targets(r, cur) == {ib \in r.ids \ {c.ib : c \in cur} : ib \in inbounds /\ ~skipForMultiUser(ib)}

ReconcileReads(t) ==
  /\ On(t, "rlist") /\ Read
  /\ LET r == req[t]  cur == ClientsByEmail(r.email)
         last == {c \in cur : \A d \in cur : d.ib = c.ib => d.id <= c.id}
     IN Then(t, [r EXCEPT !.pc = "count", !.cur = cur, !.todo = Targets(r, cur),
                          !.keep = {c \in last : c.ib \notin r.ids}])
RemoveClient(t) ==
  /\ On(t, "remove") /\ Kept
  /\ \E c \in req[t].keep : /\ clients' = {d \in clients : d.id # c.id}
                            /\ Then(t, [req[t] EXCEPT !.keep = @ \ {c}])
  /\ UNCHANGED <<inbounds, subs, nextId, faults>>

\* The bundles seeded by a row the user has or had; none if no row survives.
Survivors(t) ==
  /\ On(t, "survivors") /\ Read
  /\ LET r == req[t]  left == ClientsByEmail(r.email)
         mine == {s \in subs : s.seed \in {c.id : c \in left \cup r.cur}}
     IN Then(t, [r EXCEPT !.pc = "scope", !.keep = left, !.scope = IF left = {} THEN {} ELSE mine])

\* Mutant: the bundle is rescoped only.
MutNewSeed(r, s) == s.seed

NewSeed(r, s) == LET ids == {c.id : c \in r.keep} IN IF s.seed \in ids THEN s.seed ELSE Min(ids)

\* Mutant: the whole row is written back, as it was listed.
MutUpdateSubscriptionScope(r, s, x) ==
  [s EXCEPT !.seed = NewSeed(r, s), !.allowed = {c.ib : c \in r.keep}]

\* Two columns of the row are written, whatever else has changed in it since.
UpdateSubscriptionScope(r, s, x) ==
  [x EXCEPT !.seed = NewSeed(r, s), !.allowed = {c.ib : c \in r.keep}]

Rescope(t) ==
  /\ On(t, "scope") /\ Kept
  /\ \E s \in req[t].scope :
       /\ Then(t, [req[t] EXCEPT !.scope = @ \ {s}])
       /\ \/ /\ subs' = {IF x.id = s.id THEN UpdateSubscriptionScope(req[t], s, x) ELSE x : x \in subs}
             /\ UNCHANGED faults
          \/ Fault /\ UNCHANGED subs
  /\ UNCHANGED <<inbounds, clients, nextId>>

\* AddToInbound: one reconcile for each listed user that is not on it yet.
AddReads(t) ==
  /\ On(t, "inbound") /\ Read
  /\ IF req[t].into \notin inbounds \/ skipForMultiUser(req[t].into) THEN End(t)
     ELSE Then(t, [req[t] EXCEPT !.pc = "next"])
AddNext(t) ==
  /\ On(t, "next") /\ Read
  /\ \E e \in req[t].rest :
       LET r == [req[t] EXCEPT !.rest = @ \ {e}]  cur == ClientsByEmail(e) IN
       Then(t, IF cur = {} \/ r.into \in {c.ib : c \in cur} THEN r
               ELSE [r EXCEPT !.pc = "rlist", !.email = e, !.who = (CHOOSE c \in cur : TRUE).who,
                              !.ids = {r.into} \cup {c.ib : c \in cur}])

\* Delete: the bundles seeded by the user's rows, then the rows.
DeleteLists(t) ==
  /\ On(t, "dsubs") /\ Read
  /\ Then(t, [req[t] EXCEPT !.pc = "dsub",
        !.scope = {s \in subs : s.seed \in {c.id : c \in req[t].cur}}])
DeleteSubs(t) ==
  /\ On(t, "dsub") /\ Kept
  /\ \E s \in req[t].scope :
       /\ Then(t, [req[t] EXCEPT !.scope = @ \ {s}])
       /\ \/ subs' = {x \in subs : x.id # s.id} /\ UNCHANGED faults
          \/ Fault /\ UNCHANGED subs
  /\ UNCHANGED <<inbounds, clients, nextId>>
DeleteRows(t) ==
  /\ On(t, "dclient") /\ Kept
  /\ \E c \in req[t].keep : /\ clients' = {d \in clients : d.id # c.id}
                            /\ Then(t, [req[t] EXCEPT !.keep = @ \ {c}])
  /\ UNCHANGED <<inbounds, subs, nextId, faults>>

\* A failed statement ends the request where it stands; a restart does the same.
Fail(t) ==
  /\ req[t] # Idle /\ ~On(t, "scope") /\ ~On(t, "dsub") /\ Fault
  /\ End(t) /\ UNCHANGED db /\ Kept

Serve(t) ==
  \/ CreateChecks(t) \/ CountClient(t) \/ InsertClient(t) \/ CreateSub(t)
  \/ ReadClients(t) \/ UpdateCollides(t) \/ SaveClient(t)
  \/ ReconcileReads(t) \/ RemoveClient(t) \/ Survivors(t) \/ Rescope(t) \/ AddReads(t) \/ AddNext(t)
  \/ DeleteLists(t) \/ DeleteSubs(t) \/ DeleteRows(t) \/ Fail(t)

(***************************************************************************)
(* The other handlers: one transaction or statement each                   *)
(***************************************************************************)
Busy == \E t \in Tabs : req[t] # Idle
Elsewhere == Move /\ UNCHANGED <<req, users, edit, faults>>
Parts(rows) == /\ overlapped' = (overlapped \/ Busy)
               /\ parted' = (parted \/ \E s \in subs : s.seed \in {c.id : c \in rows})

\* Mutant: without the guard.
MutScrubInboundFromSubscriptions(ib) == {[s EXCEPT !.allowed = @ \ {ib}] : s \in subs}

\* The last entry of a list is left to dangle: an empty list would allow all.
scrubInboundFromSubscriptions(ib) ==
  {IF s.allowed \ {ib} = {} THEN s ELSE [s EXCEPT !.allowed = @ \ {ib}] : s \in subs}

DeleteInbound(ib) ==
  /\ ib \in inbounds /\ Elsewhere
  /\ inbounds' = inbounds \ {ib} /\ gone' = gone \cup {ib}
  /\ clients' = {c \in clients : c.ib # ib}
  /\ subs' = scrubInboundFromSubscriptions(ib)
  /\ Parts({c \in clients : c.ib = ib})
  /\ UNCHANGED <<nextId, bulk>>
CreateInbound(ib) ==
  /\ ib \notin inbounds \cup gone /\ Elsewhere
  /\ inbounds' = inbounds \cup {ib}
  /\ UNCHANGED <<clients, subs, nextId, bulk, past>>
DeleteClient(c) ==
  /\ c \in clients /\ Elsewhere
  /\ clients' = {d \in clients : d.id # c.id} /\ Parts({c})
  /\ UNCHANGED <<inbounds, subs, nextId, bulk, gone>>
\* The enforcer switches every row of a user off (see Quota).
Enforce(e) ==
  /\ \E c \in ClientsByEmail(e) : c.on
  /\ Elsewhere
  /\ clients' = {IF c.email = e THEN [c EXCEPT !.on = FALSE] ELSE c : c \in clients}
  /\ Parts({})
  /\ UNCHANGED <<inbounds, subs, nextId, bulk, gone>>

ChangeSub(s, next) ==
  /\ Elsewhere /\ subs' = (subs \ {s}) \cup next
  /\ UNCHANGED <<inbounds, clients, nextId, bulk, past>>
RevokeSubscription(s) == ~s.revoked /\ ChangeSub(s, {[s EXCEPT !.revoked = TRUE]})
RotateSubscription(s) == ChangeSub(s, {[s EXCEPT !.revoked = FALSE, !.token = moves + 1]})
DeleteSubscription(s) == ChangeSub(s, {})

\* Bulk delete: one run at a time in the whole page, one row after another.
RunBulk ==
  /\ ~bulk.busy /\ Move
  /\ \E ids \in SUBSET {s.id : s \in subs} :
       /\ ids # {}
       /\ bulk' = [busy |-> TRUE, ids |-> ids, todo |-> ids, failed |-> 0]
  /\ UNCHANGED <<db, req, users, edit, past, faults>>

BulkNext ==
  /\ bulk.busy
  /\ IF bulk.todo = {} THEN bulk' = [bulk EXCEPT !.busy = FALSE] /\ UNCHANGED <<subs, faults>>
     ELSE \E id \in bulk.todo :
       \/ /\ subs' = {s \in subs : s.id # id} /\ UNCHANGED faults
          /\ bulk' = [bulk EXCEPT !.todo = @ \ {id}]
       \/ /\ Fault /\ UNCHANGED subs
          /\ bulk' = [bulk EXCEPT !.todo = @ \ {id}, !.failed = @ + 1]
  /\ UNCHANGED <<inbounds, clients, nextId, req, users, edit, past, moves>>

Init ==
  /\ inbounds = First /\ gone = {} /\ clients = Rows
  /\ subs = {LET mine == {c \in Rows : c.email = e} IN Bundle(Min({c.id : c \in mine}), {c.ib : c \in mine}, 0, (CHOOSE c \in mine : TRUE).who) :
               e \in {c.email : c \in Rows}}
  /\ nextId = Max({c.id : c \in Rows}) + 1
  /\ req = [t \in Tabs |-> Idle] /\ users = [t \in Tabs |-> {}]
  /\ edit = [t \in Tabs |-> Closed] /\ bulk = NoBulk
  /\ overlapped = FALSE /\ parted = FALSE
  /\ moves = 0 /\ faults = 0

MultiUserPanel(t) == OpenEdit(t) \/ SubmitCreate(t) \/ SubmitEdit(t) \/ SubmitDelete(t)

SubscriptionsPage ==
  \/ RunBulk
  \/ \E s \in subs : RevokeSubscription(s) \/ RotateSubscription(s) \/ DeleteSubscription(s)

Next ==
  \/ \E t \in Tabs : Refetch(t) \/ MultiUserPanel(t) \/ SubmitAdd(t) \/ Serve(t)
  \/ SubscriptionsPage \/ BulkNext
  \/ \E ib \in Inbounds : DeleteInbound(ib) \/ CreateInbound(ib)
  \/ \E c \in clients : DeleteClient(c)
  \/ \E e \in Emails : Enforce(e)

Spec == Init /\ [][Next]_vars

(***************************************************************************)
(* Properties                                                              *)
(***************************************************************************)
Calm == ~Busy /\ ~overlapped /\ faults = 0

\* A bundle that was limited to some inbounds never comes to allow them all:
\* not when its last inbound is deleted, not by any edit of its user
\* (store/subscription.go: the scrub guard; reconcile returns without survivors).
NeverOpens ==
  [][\A s \in subs, x \in subs' : s.id = x.id /\ s.allowed # {} => x.allowed # {}]_vars

\* Requests that did not overlap, and from under which no page took a row,
\* leave the bundle of every user that still has a row with a seed that exists:
\* the user service re-points it when it removes the row it named.
SeedStands ==
  Calm /\ ~parted => \A s \in subs : s.who \in {c.who : c \in clients} => Seed(s) # {}

\* Without overlap a user is on an inbound once, and only on inbounds that
\* exist, although the dialogs send inbounds that were deleted since.
NoGhosts ==
  Calm => /\ \A c \in clients : c.ib \in inbounds
          /\ \A c, d \in clients : c.email = d.email /\ c.ib = d.ib => c = d

\* A link that was switched off stays off: only a new token revives a bundle,
\* whatever the user service writes to the row meanwhile.
RevokedStays ==
  [][\A s \in subs, x \in subs' : s.id = x.id /\ s.token = x.token /\ s.revoked => x.revoked]_vars

\* A user that is switched off stays off on inbounds added later (the comment in
\* reconcileUserInbounds): while no request overlaps, no row is made switched on
\* for a user all of whose rows are off.
StaysOff ==
  [][\A c \in clients' : /\ c.id \notin {d.id : d \in clients} /\ ~overlapped
                         /\ \E d \in clients : d.who = c.who
                         /\ \A d \in clients : d.who = c.who => ~d.on
                         => ~c.on]_vars
=============================================================================
