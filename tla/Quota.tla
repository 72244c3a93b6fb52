-------------------------------- MODULE Quota --------------------------------
(***************************************************************************)
(* One user's account and everything that counts its bytes or switches it  *)
(* off: trafficpoller, the quota enforcer and its scheduler, the user      *)
(* service (usersvc) behind the panel and the bot, and the Apply that      *)
(* carries each decision to the engines.                                   *)
(*                                                                         *)
(* The user has one client row per inbound; the model has one inbound per  *)
(* engine, so an inbound, its engine and that engine's traffic counter are *)
(* one source.  All bytes are credited to the row with the lowest id.      *)
(* Every goroutine reads rows, keeps copies and writes back in separate    *)
(* database statements; a statement is a step.                             *)
(***************************************************************************)
EXTENDS Integers, FiniteSets, FiniteSetsExt

CONSTANTS Admins,     \* request handlers of the panel and the bot
          Requests,   \* the updates the operator asks for (see Request)
          Limit,      \* quota_bytes of every row of the user
          MaxBytes,   \* bound: bytes the engines carry
          MaxIds,     \* bound: client rows ever created
          MaxOps,     \* bound: requests
          MaxFaults   \* bound: failures and panel restarts

Sources == {"singbox", "xray"}
Threads == Admins \cup {"runner", "boot"}

\* on: what p.Enabled asks for; reset: p.ResetUsage; at: p.InboundIDs when
\* move says that they are part of the request.
Request == [on: {"keep", "on", "off"}, reset: BOOLEAN, move: BOOLEAN,
            at: SUBSET Sources]

ASSUME QuotaAssumption ==
  /\ {"runner", "boot"} \cap Admins = {}
  /\ Requests \subseteq Request
  /\ Limit \in Nat \ {0}
  /\ MaxBytes \in Nat /\ MaxIds \in Nat \ {0, 1}
  /\ MaxOps \in Nat /\ MaxFaults \in Nat

Ids == 1..MaxIds

VARIABLES
  rows,      \* database: the user's client rows, by id
  nextId,    \* database: the id the next row gets
  served,    \* engines: where the user's credentials are accepted
  count,     \* engines: the user's counter, zero after each restart
  moved,     \* history: bytes carried for the user
  unseen,    \* history: bytes credited that no enforcement has looked at
  poll,      \* poller: "idle", the source to sample, "credit" or "signal"
  base,      \* poller: last-seen counter of each source, 0 for none
  delta,     \* poller: what this tick will credit
  target,    \* poller: the row it will credit it to
  trigger,   \* the one-slot trigger channel is full
  pc,        \* where each thread is
  copy,      \* the rows it has read
  todo,      \* the ids it has still to write
  adds,      \* the sources it has still to add a row at
  req,       \* the request it serves
  snap,      \* the sources it is applying
  ops, faults

account == <<rows, nextId>>
engine  == <<served, count, moved>>
poller  == <<poll, base, delta, target>>
signals == <<trigger, unseen>>
threads == <<pc, copy, todo, adds, req, snap>>
bounds  == <<ops, faults>>
vars    == <<account, engine, poller, signals, threads, bounds>>

NoRequest == [on |-> "keep", reset |-> FALSE, move |-> FALSE, at |-> {}]

Fault   == faults < MaxFaults /\ faults' = faults + 1
NewOp   == ops < MaxOps /\ ops' = ops + 1
NoFault == UNCHANGED bounds

(***************************************************************************)
(* The rows                                                                *)
(***************************************************************************)
Used(rs) == MapThenSumSet(LAMBDA id : rs[id].used, DOMAIN rs)
At(rs)   == {rs[id].at : id \in DOMAIN rs}
On(rs)   == {id \in DOMAIN rs : rs[id].on}

\* EvaluateByUser: the quota holds for the sum over the user's rows.
OverLimit(rs) == Used(rs) >= Limit

With(id, r) == [i \in DOMAIN rows \cup {id} |-> IF i = id THEN r ELSE rows[i]]
Without(id) == [i \in DOMAIN rows \ {id} |-> rows[i]]

(***************************************************************************)
(* The engines                                                             *)
(***************************************************************************)
Carry(s) ==
  /\ s \in served /\ moved < MaxBytes
  /\ count' = [count EXCEPT ![s] = @ + 1] /\ moved' = moved + 1
  /\ UNCHANGED <<account, served, poller, signals, threads, bounds>>

(***************************************************************************)
(* The poller                                                              *)
(***************************************************************************)
Tick ==
  /\ poll = "idle" /\ poll' = "singbox"
  /\ UNCHANGED <<account, engine, base, delta, target, signals, threads, bounds>>

\* A counter below its baseline belongs to an engine that restarted.
Growth(s) == IF count[s] >= base[s] THEN count[s] - base[s] ELSE count[s]

\* Without bytes there is nothing to signal.
CreditEnds == poll' = (IF delta = 0 THEN "idle" ELSE "signal") /\ delta' = 0

\* A source that does not answer is skipped, its baseline kept.
Sample(s) ==
  /\ poll = s
  /\ poll' = IF s = "singbox" THEN "xray" ELSE "credit"
  /\ \/ /\ delta' = delta + Growth(s)
        /\ base' = [base EXCEPT ![s] = count[s]]
        /\ NoFault
     \/ UNCHANGED <<delta, base, ops>> /\ Fault
  /\ UNCHANGED <<account, engine, target, signals, threads>>

\* AddUserTraffic: find the row with the lowest id; a user without rows, like
\* a failed statement, loses the bytes, for the baseline has moved.
FindRow ==
  /\ poll = "credit"
  /\ \/ /\ delta > 0 /\ DOMAIN rows # {}
        /\ target' = Min(DOMAIN rows) /\ poll' = "write"
        /\ UNCHANGED delta /\ NoFault
     \/ /\ delta = 0 \/ DOMAIN rows = {}
        /\ CreditEnds /\ UNCHANGED target /\ NoFault
     \/ /\ delta > 0
        /\ CreditEnds /\ UNCHANGED <<target, ops>> /\ Fault
  /\ UNCHANGED <<account, engine, base, signals, threads>>

\* AddClientTraffic: one UPDATE of that row, if it is still there.
CreditRow ==
  /\ poll = "write"
  /\ CreditEnds /\ target' = 0
  /\ \/ /\ target \in DOMAIN rows
        /\ rows' = [rows EXCEPT ![target].used = @ + delta]
        /\ unseen' = TRUE /\ NoFault
     \/ /\ target \notin DOMAIN rows
        /\ UNCHANGED <<rows, unseen>> /\ NoFault
     \/ UNCHANGED <<rows, unseen, ops>> /\ Fault
  /\ UNCHANGED <<nextId, engine, base, trigger, threads>>

\* Mutation: an unbuffered channel; nobody receives while the runner works.
MutSignal == trigger' = (trigger \/ pc["runner"] = "idle")

\* The send that never blocks, into a channel with one slot.
Signal == trigger' = TRUE

OnCredited ==
  /\ poll = "signal"
  /\ poll' = "idle" /\ Signal
  /\ UNCHANGED <<account, engine, base, delta, target, unseen, threads, bounds>>

(***************************************************************************)
(* Enforcement                                                             *)
(***************************************************************************)
Goto(t, next) == pc' = [pc EXCEPT ![t] = next]

\* The request ends here, what it had read and planned with it.
Leave(t) ==
  /\ Goto(t, "idle")
  /\ copy' = [copy EXCEPT ![t] = <<>>] /\ req' = [req EXCEPT ![t] = NoRequest]
  /\ todo' = [todo EXCEPT ![t] = {}] /\ adds' = [adds EXCEPT ![t] = {}]
  /\ snap' = [snap EXCEPT ![t] = {}]

\* The ticker, which the runner itself receives between two runs.
Backstop ==
  /\ pc["runner"] = "idle" /\ ~trigger /\ Signal
  /\ UNCHANGED <<account, engine, poller, unseen, threads, bounds>>

\* The single consumer takes the slot.
TakeTrigger ==
  /\ pc["runner"] = "idle" /\ trigger
  /\ trigger' = FALSE /\ Goto("runner", "list")
  /\ UNCHANGED <<account, engine, poller, unseen, copy, todo, adds, req,
                 snap, bounds>>

\* POST /quota/enforce runs the same code in the request's goroutine.
QuotaEnforce(t) ==
  /\ Goto(t, "list")
  /\ UNCHANGED <<account, engine, poller, signals, copy, todo, adds, req,
                 snap, faults>>

\* The traffic page's only button, dead while its request is served.
StatsPage(t) == pc[t] = "idle" /\ NewOp /\ QuotaEnforce(t)

\* Mutation: a user with a disabled row counts as disabled.
MutDecisions(rs) ==
  IF OverLimit(rs) /\ On(rs) = DOMAIN rs THEN On(rs) ELSE {}

\* EvaluateByUser: all enabled rows of a user who is over.
Decisions(rs) == IF OverLimit(rs) THEN On(rs) ELSE {}

ListClients(t) ==
  /\ pc[t] = "list"
  /\ unseen' = IF t = "runner" THEN FALSE ELSE unseen
  /\ \/ /\ todo' = [todo EXCEPT ![t] = Decisions(rows)]
        /\ Goto(t, IF Decisions(rows) = {} THEN "idle" ELSE "disable")
        /\ NoFault
     \/ Goto(t, "idle") /\ UNCHANGED <<todo, ops>> /\ Fault
  /\ UNCHANGED <<account, engine, poller, trigger, copy, adds, req, snap>>

\* SetClientEnabled writes one column; a failure leaves EnforceAll at once,
\* before its Apply.
DisableClient(t, id) ==
  /\ pc[t] = "disable" /\ id \in todo[t]
  /\ \/ /\ rows' = IF id \in DOMAIN rows
                   THEN [rows EXCEPT ![id].on = FALSE] ELSE rows
        /\ todo' = [todo EXCEPT ![t] = @ \ {id}]
        /\ Goto(t, IF todo[t] = {id} THEN "build" ELSE "disable")
        /\ UNCHANGED <<copy, adds, req, snap>> /\ NoFault
     \/ Leave(t) /\ UNCHANGED <<rows, ops>> /\ Fault
  /\ UNCHANGED <<nextId, engine, poller, signals>>

(***************************************************************************)
(* The user service                                                        *)
(***************************************************************************)
\* Update reads the rows ...
UpdateUser(t, r) ==
  /\ pc[t] = "idle" /\ NewOp
  /\ DOMAIN rows # {}
  /\ copy' = [copy EXCEPT ![t] = rows] /\ todo' = [todo EXCEPT ![t] = DOMAIN rows]
  /\ req' = [req EXCEPT ![t] = r]
  /\ Goto(t, "save")
  /\ UNCHANGED <<account, engine, poller, signals, adds, snap, faults>>

\* ... and in their order writes each back whole, which gorm's Save does by
\* inserting the row if it is gone.
Patched(row, r) ==
  [row EXCEPT !.on = IF r.on = "keep" THEN @ ELSE r.on = "on"]

Written(t, id) == /\ todo' = [todo EXCEPT ![t] = @ \ {id}]
                  /\ Goto(t, IF todo[t] # {id} THEN "save"
                             ELSE IF req[t].move THEN "members" ELSE "build")

SaveClient(t, id) ==
  /\ pc[t] = "save" /\ todo[t] # {} /\ id = Min(todo[t])
  /\ \/ /\ rows' = With(id, Patched(copy[t][id], req[t]))
        /\ IF req[t].reset THEN Goto(t, "reset") /\ UNCHANGED todo
                           ELSE Written(t, id)
        /\ UNCHANGED <<copy, adds, req, snap>> /\ NoFault
     \/ Leave(t) /\ UNCHANGED <<rows, ops>> /\ Fault
  /\ UNCHANGED <<nextId, engine, poller, signals>>

\* ResetClientTraffic, whose failure is ignored.
ResetTraffic(t, id) ==
  /\ pc[t] = "reset" /\ id = Min(todo[t])
  /\ \/ /\ rows' = IF id \in DOMAIN rows
                   THEN [rows EXCEPT ![id].used = 0] ELSE rows
        /\ NoFault
     \/ UNCHANGED <<rows, ops>> /\ Fault
  /\ Written(t, id)
  /\ UNCHANGED <<nextId, engine, poller, signals, copy, adds, req, snap>>

\* reconcileUserInbounds: what the user is on, against what was asked for.
Members(t) ==
  /\ pc[t] = "members"
  /\ copy' = [copy EXCEPT ![t] = rows]
  /\ adds' = [adds EXCEPT ![t] = req[t].at \ At(rows)]
  /\ todo' = [todo EXCEPT ![t] = {id \in DOMAIN rows : rows[id].at \notin req[t].at}]
  /\ Goto(t, "reconcile")
  /\ UNCHANGED <<account, engine, poller, signals, req, snap, bounds>>

\* A user that is off stays off on what is added; one with no row is new.
NewRow(t, s) ==
  [at |-> s, used |-> 0,
   on |-> DOMAIN copy[t] = {} \/ On(copy[t]) # {}]

\* CreateClient refuses a second row of the user on the same inbound; that or
\* a failure ends the request.
AddClient(t, s) ==
  /\ pc[t] = "reconcile" /\ s \in adds[t]
  /\ \/ /\ s \notin At(rows) /\ nextId <= MaxIds
        /\ rows' = With(nextId, NewRow(t, s)) /\ nextId' = nextId + 1
        /\ adds' = [adds EXCEPT ![t] = @ \ {s}]
        /\ UNCHANGED <<pc, copy, todo, req, snap>> /\ NoFault
     \/ s \in At(rows) /\ Leave(t) /\ UNCHANGED <<rows, nextId>> /\ NoFault
     \/ Leave(t) /\ UNCHANGED <<rows, nextId, ops>> /\ Fault
  /\ UNCHANGED <<engine, poller, signals>>

\* After the additions the rows of the inbounds taken away, or in Delete all
\* rows of the user; their bytes go with them.
RemoveClient(t, id) ==
  /\ pc[t] \in {"reconcile", "delete"} /\ adds[t] = {} /\ id \in todo[t]
  /\ \/ /\ rows' = Without(id)
        /\ todo' = [todo EXCEPT ![t] = @ \ {id}]
        /\ UNCHANGED <<pc, copy, adds, req, snap>> /\ NoFault
     \/ Leave(t) /\ UNCHANGED <<rows, ops>> /\ Fault
  /\ UNCHANGED <<nextId, engine, poller, signals>>

DeleteUser(t) ==
  /\ pc[t] = "idle" /\ NewOp
  /\ DOMAIN rows # {}
  /\ todo' = [todo EXCEPT ![t] = DOMAIN rows]
  /\ Goto(t, "delete")
  /\ UNCHANGED <<account, engine, poller, signals, copy, adds, req, snap,
                 faults>>

\* Create refuses an identifier in use and puts a row on every inbound.
CreateUser(t) ==
  /\ pc[t] = "idle" /\ NewOp
  /\ DOMAIN rows = {}
  /\ copy' = [copy EXCEPT ![t] = rows] /\ adds' = [adds EXCEPT ![t] = Sources]
  /\ Goto(t, "reconcile")
  /\ UNCHANGED <<account, engine, poller, signals, todo, req, snap, faults>>

(***************************************************************************)
(* Apply, and the life of the panel                                        *)
(***************************************************************************)
Build(t) ==
  /\ pc[t] \in {"build", "reconcile", "delete"}
  /\ adds[t] = {} /\ todo[t] = {}
  /\ snap' = [snap EXCEPT ![t] = {rows[id].at : id \in On(rows)}]
  /\ Goto(t, "push")
  /\ UNCHANGED <<account, engine, poller, signals, copy, todo, adds, req,
                 bounds>>

\* The engines in S restart with what was built, and their counters at zero.
Restarted(S, new) ==
  /\ served' = (served \ S) \cup (new \cap S)
  /\ count' = [s \in Sources |-> IF s \in S THEN 0 ELSE count[s]]
  /\ UNCHANGED moved

\* Both engines take it, or none, or sing-box does and xray refuses.
Push(t) ==
  /\ pc[t] = "push" /\ Leave(t)
  /\ \/ Restarted(Sources, snap[t]) /\ NoFault
     \/ (\E S \in {{}, {"singbox"}} : Restarted(S, snap[t])) /\ Fault /\ UNCHANGED ops
  /\ UNCHANGED <<account, poller, signals>>

\* Mutation: the engines outlive the panel.
MutEnginesDie == UNCHANGED engine

EnginesDie == Restarted(Sources, {})

\* The panel dies, and the engines with it; main signals a first enforcement
\* and applies what the database holds.
Restart ==
  /\ Fault /\ EnginesDie
  /\ poll' = "idle" /\ base' = [s \in Sources |-> 0] /\ delta' = 0 /\ target' = 0
  /\ trigger' = TRUE /\ unseen' = FALSE
  /\ pc' = [t \in Threads |-> IF t = "boot" THEN "build" ELSE "idle"]
  /\ copy' = [t \in Threads |-> <<>>] /\ req' = [t \in Threads |-> NoRequest]
  /\ todo' = [t \in Threads |-> {}] /\ adds' = [t \in Threads |-> {}]
  /\ snap' = [t \in Threads |-> {}]
  /\ UNCHANGED <<account, ops>>

\* The panel has just been started on a database that holds no such user, or
\* a new one.
Init ==
  /\ rows \in {<<>>, <<[at |-> "singbox", on |-> TRUE, used |-> 0],
                      [at |-> "xray", on |-> TRUE, used |-> 0]>>}
  /\ nextId = Cardinality(DOMAIN rows) + 1
  /\ served = {} /\ count = [s \in Sources |-> 0] /\ moved = 0
  /\ poll = "idle" /\ base = [s \in Sources |-> 0] /\ delta = 0 /\ target = 0
  /\ trigger = TRUE /\ unseen = FALSE
  /\ pc = [t \in Threads |-> IF t = "boot" THEN "build" ELSE "idle"]
  /\ copy = [t \in Threads |-> <<>>] /\ req = [t \in Threads |-> NoRequest]
  /\ todo = [t \in Threads |-> {}] /\ adds = [t \in Threads |-> {}]
  /\ snap = [t \in Threads |-> {}]
  /\ ops = 0 /\ faults = 0

Poll == Tick \/ (\E s \in Sources : Sample(s))
        \/ FindRow \/ CreditRow \/ OnCredited

Enforce(t) == ListClients(t) \/ \E id \in Ids : DisableClient(t, id)

Serve(t) ==
  \/ \E id \in Ids : SaveClient(t, id) \/ ResetTraffic(t, id)
                     \/ RemoveClient(t, id)
  \/ Members(t)
  \/ \E s \in Sources : AddClient(t, s)

Ask(t) ==
  \/ StatsPage(t) \/ DeleteUser(t) \/ CreateUser(t)
  \/ \E r \in Requests : UpdateUser(t, r)

Apply(t) == Build(t) \/ Push(t)

Work(t) == Enforce(t) \/ Apply(t) \/ (t \in Admins /\ Serve(t))

Next ==
  \/ \E s \in Sources : Carry(s)
  \/ Poll \/ Backstop \/ TakeTrigger
  \/ \E t \in Admins : Ask(t)
  \/ \E t \in Threads : Work(t)
  \/ Restart

\* The two background loops are never blocked for good: tickers fire, the
\* database answers, and an Apply waits only for other Applies to end.
Fairness ==
  /\ WF_vars(Poll) /\ WF_vars(Backstop) /\ WF_vars(TakeTrigger)
  /\ \A t \in Threads : WF_vars(Work(t))

Spec     == Init /\ [][Next]_vars
FairSpec == Spec /\ Fairness

(***************************************************************************)
(* Properties                                                              *)
(***************************************************************************)
\* The user is never charged for a byte nobody carried: whatever restarts
\* between two samples, and whoever writes stale copies of rows back, the
\* rows together hold at most what the engines moved.
NeverOvercharged == Used(rows) + delta <= moved

\* The trigger loses no crossing: after bytes are credited and signalled an
\* enforcement run that has not read the rows yet is there or on its way, even
\* when the signal comes in the middle of a run or into a full slot.
CrossingIsSeen ==
  unseen /\ poll = "idle" => trigger \/ pc["runner"] = "list"

\* A user over the limit does not stay enabled: the runner, the operator or a
\* deletion ends it.
OverIsDisabled == OverLimit(rows) /\ On(rows) # {} ~> ~OverLimit(rows) \/ On(rows) = {}
=============================================================================
