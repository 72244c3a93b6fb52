-------------------------------- MODULE Audit --------------------------------
(***************************************************************************)
(* The record of operations: the switch the panel keeps in memory and in   *)
(* the settings, the handlers and the bot that look at it before they      *)
(* write, the clear, and the page with its cached answers.                 *)
(*                                                                         *)
(* The operations themselves are "panel" (any handler that calls auditLog) *)
(* and "telegram" (the bot's).  Rows carry the number of clears before     *)
(* them.  A page's three queries go by the name of what they read.         *)
(***************************************************************************)
EXTENDS Naturals

CONSTANTS Pages,     \* browser tabs that show the record
          MaxMoves,  \* bound: what operators do
          MaxFaults  \* bound: failed statements and crashes

Actors == {"panel", "telegram"}
Views  == {"all"} \cup Actors          \* the actor filter
Keys   == Views \cup {"actors", "config"}

VARIABLES
  enabled,  \* memory: h.auditEnabled
  setting,  \* settings: audit_enabled
  log,      \* database: the rows
  nextId,   \* database: the id of the next one
  op,       \* the operation each actor has in hand
  filter,   \* the view each page has chosen
  cache,    \* the answers each page keeps, NoAnswer at first
  ask,      \* the queries in flight
  put,      \* the toggle each page sent
  clr,      \* the clear each page sent
  cleared,  \* history: the rows a page's clear left behind are older than this
  clears,   \* history: number of clears
  lastPut,  \* history: the page whose toggle was stored last, or "none"
  marks,    \* history: what happened, "wiped", "lost", "raced", "unsaved"
  moves, faults

server == <<enabled, setting, log, nextId, clears>>
client == <<filter, cache, ask>>
vars   == <<server, op, client, put, clr, cleared, lastPut, marks, moves, faults>>

Move  == moves < MaxMoves /\ moves' = moves + 1
Fault == faults < MaxFaults /\ faults' = faults + 1

NoOp  == [st |-> "none", was |-> FALSE]
NoAnswer == [some |-> FALSE, rows |-> {}, actors |-> {}, on |-> TRUE]
Quiet == [st |-> "idle", got |-> NoAnswer]
Sent  == [st |-> "sent", got |-> NoAnswer]
NoPut == [st |-> "idle", on |-> TRUE]

Row(kind, actor) == [id |-> nextId, kind |-> kind, actor |-> actor, age |-> clears]
ActorsOf(rows)   == {r.actor : r \in rows}

\* AuditList, AuditActors and GetAuditConfig.
ListOf(k) == IF k \in Views THEN {r \in log : k \in {"all", r.actor}} ELSE {}
Reply(k)  == [some |-> TRUE, rows |-> ListOf(k),
              actors |-> IF k = "actors" THEN ActorsOf(log) ELSE {},
              on |-> k = "config" => enabled]

Rec    == [id : Nat, kind : {"op", "on", "off"}, actor : Actors, age : Nat]
Answer == [some : BOOLEAN, rows : SUBSET Rec, actors : SUBSET Actors, on : BOOLEAN]

TypeOK ==
  /\ enabled \in BOOLEAN /\ setting \in BOOLEAN
  /\ log \subseteq Rec /\ nextId \in Nat /\ clears \in Nat
  /\ op \in [Actors -> [st : {"none", "did", "write"}, was : BOOLEAN]]
  /\ filter \in [Pages -> Views]
  /\ cache \in [Pages -> [Keys -> Answer]]
  /\ ask \in [Pages -> [Keys -> [st : {"idle", "sent", "done"}, got : Answer]]]
  /\ put \in [Pages -> [st : {"idle", "sent", "store", "save", "ok", "err"}, on : BOOLEAN]]
  /\ clr \in [Pages -> {"idle", "sent", "ok", "err"}]
  /\ cleared \in [Pages -> Nat] /\ lastPut \in Pages \cup {"none"}
  /\ marks \subseteq {"wiped", "lost", "raced", "unsaved"}

\* Every page has just had its first answers.
Init ==
  /\ enabled \in BOOLEAN /\ setting = enabled
  /\ clears = 0 /\ nextId = 2
  /\ log = IF enabled THEN {} ELSE {[id |-> 1, kind |-> "off", actor |-> "panel", age |-> 0]}
  /\ op = [a \in Actors |-> NoOp]
  /\ filter = [p \in Pages |-> "all"]
  /\ cache = [p \in Pages |-> [k \in Keys |->
                IF k \in Actors THEN NoAnswer ELSE Reply(k)]]
  /\ ask = [p \in Pages |-> [k \in Keys |-> Quiet]]
  /\ put = [p \in Pages |-> NoPut]
  /\ clr = [p \in Pages |-> "idle"] /\ cleared = [p \in Pages |-> 0]
  /\ lastPut = "none" /\ marks = {} /\ moves = 0 /\ faults = 0

(***************************************************************************)
(* The query client                                                        *)
(***************************************************************************)
\* A component that needs a key waits for the fetch in flight, if any.
Mounted(p, k) == IF ask[p][k].st = "idle" THEN Sent ELSE ask[p][k]
\* refetch and invalidateQueries start over, unless nothing is cached yet.
Fresh(p, k) == IF cache[p][k].some THEN Sent ELSE Mounted(p, k)

Serve(p, k) ==
  /\ ask[p][k].st = "sent"
  /\ ask' = [ask EXCEPT ![p][k] = [st |-> "done", got |-> Reply(k)]]
  /\ UNCHANGED <<server, op, filter, cache, put, clr, cleared, lastPut, marks, moves, faults>>

Deliver(p, k) ==
  /\ ask[p][k].st = "done"
  /\ cache' = [cache EXCEPT ![p][k] = ask[p][k].got]
  /\ ask' = [ask EXCEPT ![p][k] = Quiet]
  /\ UNCHANGED <<server, op, filter, put, clr, cleared, lastPut, marks, moves, faults>>

(***************************************************************************)
(* The page                                                                *)
(***************************************************************************)
\* What its table, its switch and its filter show.
Rows(p)    == cache[p][filter[p]].rows
Checked(p) == cache[p]["config"].on
Offers(p)  == {"all"} \cup cache[p]["actors"].actors

Choose(p, v) ==
  /\ v \in Offers(p) \ {filter[p]} /\ Move
  /\ filter' = [filter EXCEPT ![p] = v]
  /\ ask' = [ask EXCEPT ![p][v] = Mounted(p, v)]
  /\ cleared' = [cleared EXCEPT ![p] = 0]
  /\ UNCHANGED <<server, op, cache, put, clr, lastPut, marks, faults>>

\* The refresh button is dead while a fetch is under way.
Refresh(p) ==
  /\ ask[p][filter[p]].st = "idle" /\ Move
  /\ ask' = [ask EXCEPT ![p][filter[p]] = Sent]
  /\ UNCHANGED <<server, op, filter, cache, put, clr, cleared, lastPut, marks, faults>>

Toggle(p) ==
  /\ put[p].st = "idle" /\ cache[p]["config"].some /\ Move
  /\ put' = [put EXCEPT ![p] = [st |-> "sent", on |-> ~Checked(p)]]
  /\ marks' = IF \E q \in Pages : put[q].st \notin {"idle", "ok", "err"}
              THEN marks \cup {"raced"} ELSE marks
  /\ UNCHANGED <<server, op, client, clr, cleared, lastPut, faults>>

Toggled(p) ==
  /\ put[p].st \in {"ok", "err"}
  /\ put' = [put EXCEPT ![p] = NoPut]
  /\ ask' = IF put[p].st = "ok"
            THEN [ask EXCEPT ![p]["config"] = Fresh(p, "config"),
                             ![p][filter[p]] = Fresh(p, filter[p])]
            ELSE ask
  /\ lastPut' = IF put[p].st = "err" /\ lastPut = p THEN "none" ELSE lastPut
  /\ UNCHANGED <<server, op, filter, cache, clr, cleared, marks, moves, faults>>

ConfirmClear(p) ==
  /\ clr[p] = "idle" /\ Move
  /\ clr' = [clr EXCEPT ![p] = "sent"]
  /\ UNCHANGED <<server, op, client, put, cleared, lastPut, marks, faults>>

Cleared(p) ==
  /\ clr[p] \in {"ok", "err"}
  /\ clr' = [clr EXCEPT ![p] = "idle"]
  /\ IF clr[p] = "ok"
     THEN /\ ask' = [ask EXCEPT ![p][filter[p]] = Fresh(p, filter[p]),
                                ![p]["actors"]  = Fresh(p, "actors")]
          /\ cleared' = IF cache[p][filter[p]].some
                        THEN [cleared EXCEPT ![p] = clears] ELSE cleared
     ELSE UNCHANGED <<ask, cleared>>
  /\ UNCHANGED <<server, op, filter, cache, put, lastPut, marks, moves, faults>>

(***************************************************************************)
(* The service                                                             *)
(***************************************************************************)
\* writeAudit swallows its error.
Write(row) == \/ /\ log' = log \cup {row} /\ nextId' = nextId + 1
                 /\ UNCHANGED <<marks, faults>>
              \/ Fault /\ marks' = marks \cup {"lost"} /\ UNCHANGED <<log, nextId>>

PutStep(p, st) == put' = [put EXCEPT ![p].st = st]

\* The three statements of PutAuditConfig.
Record(p) ==
  /\ put[p].st = "sent" /\ PutStep(p, "store")
  /\ Write(Row(IF put[p].on THEN "on" ELSE "off", "panel"))
  /\ UNCHANGED <<enabled, setting, clears, op, client, clr, cleared, lastPut, moves>>

\* An operation in hand has now seen the switches at on.
Seen(on) == op' = [a \in Actors |-> [op[a] EXCEPT
                    !.was = @ \/ (op[a].st = "did" /\ on[a])]]
Switches(mem, set) == [a \in Actors |-> IF a = "panel" THEN mem ELSE set]

Store(p) ==
  /\ put[p].st = "store" /\ PutStep(p, "save")
  /\ enabled' = put[p].on /\ lastPut' = p
  /\ Seen(Switches(put[p].on, setting))
  /\ UNCHANGED <<setting, log, nextId, clears, client, clr, cleared, marks, moves, faults>>

Save(p) ==
  /\ put[p].st = "save"
  /\ \/ /\ PutStep(p, "ok") /\ setting' = put[p].on
        /\ Seen(Switches(enabled, put[p].on))
        /\ UNCHANGED <<marks, faults>>
     \/ /\ PutStep(p, "err") /\ Fault /\ marks' = marks \cup {"unsaved"}
        /\ UNCHANGED <<setting, op>>
  /\ UNCHANGED <<enabled, log, nextId, clears, client, clr, cleared, lastPut, moves>>

ClearAudit(p) ==
  /\ clr[p] = "sent" /\ clr' = [clr EXCEPT ![p] = "ok"]
  /\ log' = {} /\ clears' = clears + 1 /\ marks' = marks \cup {"wiped"}
  /\ UNCHANGED <<enabled, setting, nextId, op, client, put, cleared, lastPut, moves, faults>>

\* The switch an actor looks at: auditEnabled, or what the bot reads.
Switch(a) == IF a = "panel" THEN enabled ELSE setting

\* A handler or the bot has made its change and goes on to record it.
Did(a) ==
  /\ op[a].st = "none" /\ Move
  /\ op' = [op EXCEPT ![a] = [st |-> "did", was |-> Switch(a)]]
  /\ UNCHANGED <<server, client, put, clr, cleared, lastPut, marks, faults>>

\* auditLog and the bot's audit: the test,
Test(a) ==
  /\ op[a].st = "did"
  /\ op' = [op EXCEPT ![a] = IF Switch(a) THEN [@ EXCEPT !.st = "write"] ELSE NoOp]
  /\ UNCHANGED <<server, client, put, clr, cleared, lastPut, marks, moves, faults>>

\* and the row.
WriteAudit(a) ==
  /\ op[a].st = "write" /\ op' = [op EXCEPT ![a] = NoOp]
  /\ Write(Row("op", a))
  /\ UNCHANGED <<enabled, setting, clears, client, put, clr, cleared, lastPut, moves>>

\* The service dies and NewHandler reads the setting; queries are sent again,
\* mutations fail.
Restart ==
  /\ Fault
  /\ enabled' = setting /\ lastPut' = "none"
  /\ op' = [a \in Actors |-> NoOp]
  /\ put' = [p \in Pages |-> IF put[p].st \in {"idle", "ok"} THEN put[p]
                             ELSE [put[p] EXCEPT !.st = "err"]]
  /\ clr' = [p \in Pages |-> IF clr[p] = "sent" THEN "err" ELSE clr[p]]
  /\ UNCHANGED <<setting, log, nextId, clears, client, cleared, marks, moves>>

Puts(p)  == Record(p) \/ Store(p) \/ Save(p) \/ Toggled(p)
Next ==
  \/ Restart
  \/ \E a \in Actors : Did(a) \/ Test(a) \/ WriteAudit(a)
  \/ \E p \in Pages :
       \/ Puts(p) \/ Toggle(p) \/ Refresh(p)
       \/ ConfirmClear(p) \/ ClearAudit(p) \/ Cleared(p)
       \/ \E v \in Views : Choose(p, v)
       \/ \E k \in Keys : Serve(p, k) \/ Deliver(p, k)

Spec == Init /\ [][Next]_vars

(***************************************************************************)
(* Properties                                                              *)
(***************************************************************************)
\* A switched-off record says so: whoever finds it off finds the row of the
\* toggle, unless somebody cleared the rows or the row could not be written.
SilenceIsOnRecord ==
  ~enabled \/ ~setting =>
    \/ \E r \in log : r.kind = "off"
    \/ marks \cap {"wiped", "lost"} # {}

\* An operation that began, and ended, while its switch was off leaves no row.
NothingBackfilled == \A a \in Actors : op[a].st = "write" => op[a].was

\* The panel's switch and the bot's are the same once no toggle is under way,
\* unless two overlapped or one could not be saved.
Settled == \A p \in Pages : put[p].st \in {"idle", "ok", "err"}
SwitchesAgree ==
  Settled /\ marks \cap {"raced", "unsaved"} = {} => enabled = setting

\* The page that set the switch last shows it as it is when its queries rest.
OwnToggleShows ==
  \A p \in Pages :
    lastPut = p /\ put[p].st = "idle" /\ ask[p]["config"].st = "idle" => Checked(p) = enabled

\* A page that cleared the rows it was showing shows none of them again, though
\* a fetch was under way when it did.
ClearedStaysCleared ==
  \A p \in Pages : clr[p] = "idle" /\ ask[p][filter[p]].st = "idle"
    => \A r \in Rows(p) : r.age >= cleared[p]

\* observability_handlers.go: "a disable is captured as the final entry".
DisableIsFinal ==
  Settled /\ ~enabled =>
    \A r \in log : (\A x \in log : x.id <= r.id) => r.kind = "off"

\* write.go: "honoring the panel's audit toggle", once no toggle is under way.
BotHonorsToggle == Settled => Switch("telegram") = enabled
=============================================================================
