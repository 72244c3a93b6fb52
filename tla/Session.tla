------------------------------- MODULE Session -------------------------------
(***************************************************************************)
(* The operator's session: the browser tabs that share one stored token,   *)
(* the client that attaches it and drops it, the guard in front of every   *)
(* page, the forms of the account, and the handlers behind them, each of   *)
(* which reads the administrator's row, decides, and saves the whole row.  *)
(*                                                                         *)
(* A tab shows the login page, the forced password page or a page of the   *)
(* panel ("home", whichever it is).  It has at most one request in flight  *)
(* of each kind: the /me query, the version poll, a form and a login.      *)
(***************************************************************************)
EXTENDS Integers, Sequences

CONSTANTS Tabs,       \* browser tabs of one profile
          Names, Pws, \* user names and passwords
          Codes,      \* recovery codes of one batch
          FirstAdmin, \* the row installed, and found in the backup
          Forms,      \* the forms the operator may send (see Form)
          MaxMoves,   \* bound: what the operator does
          MaxFaults   \* bound: failed requests and statements, expired tokens

Pages == {"login", "password", "home"}
Slots == {"me", "poll", "form", "login"}

\* A code of the authenticator is the number of the secret it was made from.
Secrets == 0..(MaxMoves + 1)
\* The one of the session found at the start, and one for each login; 0 is none.
Tokens == 0..(MaxMoves + 1)
Form    == [op: {"password", "rename", "setup", "enable", "disable", "regen", "restore"},
            pw: Pws, name: Names, new: Pws]
Admin   == [name: Names, pw: Pws, must: BOOLEAN, totp: BOOLEAN,
            pending: Secrets, secret: Secrets, codes: SUBSET Codes]

ASSUME SessionAssumption ==
  /\ FirstAdmin \in Admin /\ ~FirstAdmin.totp
  /\ FirstAdmin.pending = 0 /\ FirstAdmin.secret = 0
  /\ Forms \subseteq Form
  /\ Codes \cap Int = {}
  /\ MaxMoves \in Nat /\ MaxFaults \in Nat

VARIABLES
  admin,   \* database: the administrator's row
  made,    \* secrets generated so far
  key,     \* the signing secret in force: 0, or 1 once a backup is restored
  staged,  \* a restore waits for the restart
  toks,    \* every token issued: its name, its key, not yet expired
  token,   \* localStorage: the stored token, 0 for none
  tab,     \* what each tab shows and remembers
  ask,     \* the requests in flight, by tab and kind
  proved,  \* history: secrets the operator has shown a code of
  moves, faults

server == <<admin, made, key, staged, toks, proved>>
vars   == <<server, token, tab, ask, moves, faults>>

Idle  == [st |-> "idle"]
NoMe  == [known |-> FALSE, must |-> FALSE, totp |-> FALSE]
MeOf(row) == [known |-> TRUE, must |-> row.must, totp |-> row.totp]
Blank(p)  == [page |-> p, me |-> NoMe, needCode |-> FALSE, shown |-> 0,
              waits |-> FALSE, leaving |-> "no"]

Move  == moves < MaxMoves /\ moves' = moves + 1
Fault == faults < MaxFaults /\ faults' = faults + 1

(***************************************************************************)
(* The client: what a request carries, what the guard lets through         *)
(***************************************************************************)
Sent(op, form, code) ==
  [st |-> "sent", op |-> op, tok |-> token, form |-> form, code |-> code,
   status |-> 0, row |-> FirstAdmin, got |-> 0, heard |-> TRUE]
NoForm == CHOOSE f \in Form : TRUE
Me     == Sent("me", NoForm, 0)

\* A page that mounts asks for /me unless it is being asked for already.
Mounted(t) == IF ask[t]["me"] = Idle THEN Me ELSE ask[t]["me"]

Guard(tk, me, page) ==
  IF tk = 0 THEN "login"
  ELSE IF me.known /\ me.must /\ page # "password" THEN "password" ELSE page

\* The document is replaced: its memory is gone and nobody hears its requests.
Unheard(r) == IF r.st = "idle" \/ r.op \in {"me", "poll"} \/ r.st = "done"
              THEN Idle ELSE [r EXCEPT !.heard = FALSE]
Dropped(t) == [s \in Slots |-> Unheard(ask[t][s])]

LoadLogin(t) == /\ tab' = [tab EXCEPT ![t] = Blank("login")]
                /\ ask' = [ask EXCEPT ![t] = Dropped(t)]

(***************************************************************************)
(* What the operator does                                                  *)
(***************************************************************************)
\* Open or reload the panel; Layout does it itself for a new bundle.
Load(t, page) ==
  /\ Move
  /\ LET p == Guard(token, NoMe, page) IN
       /\ tab' = [tab EXCEPT ![t] = Blank(p)]
       /\ ask' = [ask EXCEPT ![t] = [Dropped(t) EXCEPT !["me"] = IF p = "login" THEN Idle ELSE Me]]
  /\ UNCHANGED <<server, token, faults>>

\* Follow a link of the side bar: the cached answer decides, then the new one.
Go(t) ==
  /\ tab[t].page = "home" /\ Move
  /\ LET p == Guard(token, tab[t].me, "home") IN
       /\ tab' = [tab EXCEPT ![t].page = p, ![t].shown = 0]
       /\ ask' = [ask EXCEPT ![t]["me"] = IF p = "login" THEN @ ELSE Mounted(t)]
  /\ UNCHANGED <<server, token, faults>>

\* logout leaves the document and its cache alone.
Logout(t) ==
  /\ tab[t].page = "home" /\ Move
  /\ token' = 0
  /\ tab' = [tab EXCEPT ![t].page = "login", ![t].shown = 0, ![t].needCode = FALSE]
  /\ UNCHANGED <<server, ask, faults>>

SubmitLogin(t, name, pw, code) ==
  /\ tab[t].page = "login" /\ ask[t]["login"] = Idle /\ Move
  /\ tab[t].needCode <=> code # 0
  /\ ask' = [ask EXCEPT ![t]["login"] =
               Sent("login", [NoForm EXCEPT !.name = name, !.pw = pw], code)]
  /\ UNCHANGED <<server, token, tab, faults>>

\* The forced page offers the password form only; the account page offers the
\* second factor according to the cached /me.
Offered(t, op) ==
  CASE tab[t].page = "password" -> op = "password"
    [] tab[t].page = "home"     -> CASE op = "setup"  -> ~tab[t].me.totp /\ tab[t].shown = 0
                                     [] op = "enable" -> ~tab[t].me.totp /\ tab[t].shown # 0
                                     [] op = "disable" -> tab[t].me.totp
                                     [] OTHER -> op # "regen"
    [] OTHER -> FALSE

SubmitForm(t, f) ==
  /\ ask[t]["form"] = Idle /\ Offered(t, f.op) /\ tab[t].leaving = "no" /\ Move
  /\ f.op = "restore" => key = 0 /\ ~staged
  /\ ask' = [ask EXCEPT ![t]["form"] = Sent(f.op, f, tab[t].shown)]
  /\ UNCHANGED <<server, token, tab, faults>>

(***************************************************************************)
(* The service                                                             *)
(***************************************************************************)
Accepted(i) == i # 0 /\ toks[i].key = key /\ toks[i].live
Known(i)    == Accepted(i) /\ toks[i].name = admin.name

\* An answer says how it went and, where the client uses it, a row or a token.
Told(r, status, row, got) ==
  [r EXCEPT !.st = "done", !.status = status, !.row = row, !.got = got,
            !.tok = 0, !.form = NoForm, !.code = 0]
Answer(t, s, status) == ask' = [ask EXCEPT ![t][s] = Told(@, status, FirstAdmin, 0)]
Keep(t, s, row)      == ask' = [ask EXCEPT ![t][s].st = "save", ![t][s].row = row]

ServeMe(t) ==
  /\ ask[t]["me"].st = "sent"
  /\ ask' = [ask EXCEPT ![t]["me"] =
               IF Known(@.tok) THEN Told(@, 200, admin, 0) ELSE Told(@, 401, FirstAdmin, 0)]
  /\ UNCHANGED <<server, token, tab, moves, faults>>

\* Each handler: what it refuses, and the row it would save.
ChangePassword(f) == IF f.pw # admin.pw THEN <<401, admin>>
                     ELSE <<200, [admin EXCEPT !.pw = f.new, !.must = FALSE]>>
UpdateUsername(f) == IF f.pw # admin.pw THEN <<401, admin>>
                     ELSE <<200, [admin EXCEPT !.name = f.name]>>
TwoFASetup        == IF admin.totp THEN <<409, admin>>
                     ELSE <<200, [admin EXCEPT !.pending = made + 1]>>
TwoFAEnable(code) == IF admin.pending = 0 \/ admin.pending # code THEN <<400, admin>>
                     ELSE <<200, [admin EXCEPT !.secret = admin.pending, !.pending = 0,
                                               !.totp = TRUE, !.codes = Codes]>>
TwoFADisable(f)   == IF f.pw # admin.pw THEN <<401, admin>>
                     ELSE <<200, [admin EXCEPT !.totp = FALSE, !.secret = 0,
                                               !.pending = 0, !.codes = {}]>>
TwoFARegen(f)     == IF ~admin.totp THEN <<400, admin>>
                     ELSE IF f.pw # admin.pw THEN <<401, admin>>
                     ELSE <<200, [admin EXCEPT !.codes = Codes]>>

Decide(r) ==
  IF ~Known(r.tok) THEN <<401, admin>>
  ELSE CASE r.op = "password" -> ChangePassword(r.form)
         [] r.op = "rename"   -> UpdateUsername(r.form)
         [] r.op = "setup"    -> TwoFASetup
         [] r.op = "enable"   -> TwoFAEnable(r.code)
         [] r.op = "disable"  -> TwoFADisable(r.form)
         [] r.op = "regen"    -> TwoFARegen(r.form)

\* A handler reads the row and decides; SystemRestore reads no row at all.
ServeForm(t) ==
  LET r == ask[t]["form"] IN
  /\ r.st = "sent"
  /\ IF r.op = "restore"
     THEN /\ Answer(t, "form", IF Accepted(r.tok) THEN 200 ELSE 401)
          /\ staged' = Accepted(r.tok)
          /\ UNCHANGED made
     ELSE LET d == Decide(r) IN
          /\ IF d[1] = 200 /\ ~(r.op = "rename" /\ d[2] = admin)
             THEN Keep(t, "form", d[2]) ELSE Answer(t, "form", d[1])
          /\ made' = IF r.op = "setup" /\ d[1] = 200 THEN made + 1 ELSE made
          /\ UNCHANGED staged
  /\ UNCHANGED <<admin, key, toks, proved, token, tab, moves, faults>>

Issued(name) == Append(toks, [name |-> name, key |-> key, live |-> TRUE])
ServeLogin(t) ==
  LET r == ask[t]["login"]
      live == r.code # 0 /\ r.code = admin.secret
  IN
  /\ r.st = "sent"
  /\ IF r.form.name # admin.name \/ r.form.pw # admin.pw
     THEN Answer(t, "login", 401) /\ UNCHANGED toks
     ELSE IF admin.totp /\ r.code = 0
     THEN Answer(t, "login", 200) /\ UNCHANGED toks
     ELSE IF admin.totp /\ ~live /\ r.code \in admin.codes
     THEN Keep(t, "login", [admin EXCEPT !.codes = @ \ {r.code}]) /\ UNCHANGED toks
     ELSE IF admin.totp /\ ~live
     THEN Answer(t, "login", 401) /\ UNCHANGED toks
     ELSE /\ toks' = Issued(admin.name)
          /\ ask' = [ask EXCEPT ![t]["login"] = Told(@, 200, FirstAdmin, Len(toks) + 1)]
  /\ UNCHANGED <<admin, made, key, staged, proved, token, tab, moves, faults>>

\* Mutant: the secret confirmed is the one pending when the row is written.
MutUpdateAdmin(row) ==
  admin' = IF row.totp /\ ~admin.totp THEN [row EXCEPT !.secret = admin.pending] ELSE row

\* UpdateAdmin writes every column of the row that was read.
UpdateAdmin(row) == admin' = row

SaveForm(t) ==
  LET r == ask[t]["form"] IN
  /\ r.st = "save"
  /\ UpdateAdmin(r.row)
  /\ proved' = IF r.op = "enable" THEN proved \cup {r.code} ELSE proved
  /\ ask' = [ask EXCEPT ![t]["form"] = Told(@, 200, IF r.op = "setup" THEN r.row ELSE FirstAdmin, 0)]
  /\ UNCHANGED <<made, key, staged, toks, token, tab, moves, faults>>

SaveFails(t) ==
  /\ ask[t]["form"].st = "save" /\ Fault
  /\ Answer(t, "form", 500)
  /\ UNCHANGED <<server, token, tab, moves>>

\* A failed write of the recovery codes is only logged: the login goes on.
SaveLogin(t) ==
  LET r == ask[t]["login"] IN
  /\ r.st = "save"
  /\ \/ UpdateAdmin(r.row) /\ UNCHANGED faults
     \/ Fault /\ UNCHANGED admin
  /\ toks' = Issued(r.row.name)
  /\ ask' = [ask EXCEPT ![t]["login"] = Told(@, 200, FirstAdmin, Len(toks) + 1)]
  /\ UNCHANGED <<made, key, staged, proved, token, tab, moves>>

\* The process leaves and comes back with the staged database; what it was
\* serving is answered by nobody.
Boot ==
  /\ staged
  /\ staged' = FALSE /\ key' = 1 /\ admin' = FirstAdmin
  /\ ask' = [t \in Tabs |-> [s \in Slots |->
               IF ask[t][s].st \in {"sent", "save"}
               THEN Told(ask[t][s], 0, FirstAdmin, 0) ELSE ask[t][s]]]
  /\ UNCHANGED <<made, toks, proved, token, tab, moves, faults>>

Expire(i) ==
  /\ toks[i].live /\ Fault
  /\ toks' = [toks EXCEPT ![i].live = FALSE]
  /\ UNCHANGED <<admin, made, key, staged, proved, token, tab, ask, moves>>

\* The request never gets there, or its answer never comes back.
Lost(t) ==
  /\ ask[t]["me"].st = "sent" /\ Fault
  /\ Answer(t, "me", 0)
  /\ UNCHANGED <<server, token, tab, moves>>

(***************************************************************************)
(* The answers                                                             *)
(***************************************************************************)
Heard(t, s) == ask[t][s].st = "done" /\ ask[t][s].heard

\* Nobody is there any more to hear an answer to the document before this one.
Forget(t, s) ==
  /\ ask[t][s].st = "done" /\ ~ask[t][s].heard
  /\ ask' = [ask EXCEPT ![t][s] = Idle]
  /\ UNCHANGED <<server, token, tab, moves, faults>>

\* Mutant: the token is dropped and the page left as it is.
MutUnauthorized(t, s) ==
  /\ Heard(t, s) /\ ask[t][s].status = 401
  /\ token' = 0
  /\ ask' = [ask EXCEPT ![t][s] = Idle]
  /\ UNCHANGED <<server, tab, moves, faults>>

\* Any 401 drops the stored token, whichever token it was about, and opens
\* the login page unless the tab is there already.
Unauthorized(t, s) ==
  /\ Heard(t, s) /\ ask[t][s].status = 401
  /\ token' = 0
  /\ IF tab[t].page = "login"
     THEN ask' = [ask EXCEPT ![t][s] = Idle] /\ UNCHANGED tab
     ELSE LoadLogin(t)
  /\ UNCHANGED <<server, moves, faults>>

\* /me settles: the guard looks again, and a password form that waited for it
\* goes to the start page whether or not the answer was good.
HearMe(t) ==
  LET r  == ask[t]["me"]
      me == IF r.status = 200 THEN MeOf(r.row) ELSE tab[t].me
      to == IF tab[t].waits THEN "home" ELSE tab[t].page
      p  == IF tab[t].page = "login" THEN "login" ELSE Guard(token, me, to)
  IN
  /\ Heard(t, "me") /\ r.status # 401
  /\ tab' = [tab EXCEPT ![t].me = me, ![t].page = p, ![t].waits = FALSE]
  /\ ask' = [ask EXCEPT ![t]["me"] = Idle]
  /\ UNCHANGED <<server, token, moves, faults>>

HearPoll(t) ==
  /\ Heard(t, "poll") /\ ask[t]["poll"].status # 401
  /\ ask' = [ask EXCEPT ![t]["poll"] = Idle]
  /\ UNCHANGED <<server, token, tab, moves, faults>>

\* invalidateQueries(["me"]) abandons a fetch under way and starts another.
Refetched(t) == [ask[t] EXCEPT !["form"] = Idle, !["me"] = Me]

HearPassword(t) ==
  LET r == ask[t]["form"] IN
  /\ Heard(t, "form") /\ r.op = "password" /\ r.status = 200
  /\ IF tab[t].page = "password"
     THEN /\ ask' = [ask EXCEPT ![t] = Refetched(t)]
          /\ tab' = [tab EXCEPT ![t].waits = TRUE]
     ELSE ask' = [ask EXCEPT ![t]["form"] = Idle] /\ UNCHANGED tab
  /\ UNCHANGED <<server, token, moves, faults>>

HearRename(t) ==
  /\ Heard(t, "form") /\ ask[t]["form"].op = "rename" /\ ask[t]["form"].status = 200
  /\ token' = 0
  /\ tab' = [tab EXCEPT ![t].leaving = "rename"]
  /\ ask' = [ask EXCEPT ![t]["form"] = Idle]
  /\ UNCHANGED <<server, moves, faults>>

HearTwoFA(t) ==
  LET r == ask[t]["form"] IN
  /\ Heard(t, "form") /\ r.op \in {"setup", "enable", "disable", "regen"} /\ r.status = 200
  /\ tab' = [tab EXCEPT ![t].shown = IF r.op = "setup" THEN r.row.pending ELSE 0]
  /\ ask' = [ask EXCEPT ![t] = IF r.op \in {"enable", "disable"} THEN Refetched(t)
                               ELSE [@ EXCEPT !["form"] = Idle]]
  /\ UNCHANGED <<server, token, moves, faults>>

HearRestore(t) ==
  /\ Heard(t, "form") /\ ask[t]["form"].op = "restore" /\ ask[t]["form"].status = 200
  /\ tab' = [tab EXCEPT ![t].leaving = "restore"]
  /\ ask' = [ask EXCEPT ![t]["form"] = Idle]
  /\ UNCHANGED <<server, token, moves, faults>>

\* Refused for another reason than the token: the form shows the message.
HearRefusal(t) ==
  /\ Heard(t, "form") /\ ask[t]["form"].status \notin {200, 401}
  /\ ask' = [ask EXCEPT ![t]["form"] = Idle]
  /\ UNCHANGED <<server, token, tab, moves, faults>>

HearLogin(t) ==
  LET r == ask[t]["login"] IN
  /\ Heard(t, "login") /\ r.status # 401
  /\ IF r.got # 0
     THEN LET p == Guard(r.got, tab[t].me, "home") IN
          /\ token' = r.got
          /\ tab' = [tab EXCEPT ![t].page = p, ![t].needCode = FALSE]
          /\ ask' = [ask EXCEPT ![t]["login"] = Idle,
                                ![t]["me"] = IF ask[t]["me"] = Idle THEN [Me EXCEPT !.tok = r.got] ELSE @]
     ELSE /\ tab' = [tab EXCEPT ![t].needCode = (r.status = 200 \/ @)]
          /\ ask' = [ask EXCEPT ![t]["login"] = Idle]
          /\ UNCHANGED token
  /\ UNCHANGED <<server, moves, faults>>

\* The timers: 1.2 s after a rename, 4 s after a restore, 60 s between polls,
\* and the refetch when the window gets the focus.
Leave(t) ==
  /\ tab[t].leaving # "no"
  /\ token' = IF tab[t].leaving = "restore" THEN 0 ELSE token
  /\ LoadLogin(t)
  /\ UNCHANGED <<server, moves, faults>>

\* GET /version only passes the token check: its answer is known at once.
Poll(t) ==
  /\ tab[t].page = "home" /\ ask[t]["poll"] = Idle
  /\ ask' = [ask EXCEPT ![t]["poll"] =
               Told(Sent("poll", NoForm, 0), IF Accepted(token) THEN 200 ELSE 401, FirstAdmin, 0)]
  /\ UNCHANGED <<server, token, tab, moves, faults>>

Focus(t) ==
  /\ tab[t].page # "login" /\ ask[t]["me"] = Idle /\ Move
  /\ ask' = [ask EXCEPT ![t]["me"] = Me]
  /\ UNCHANGED <<server, token, tab, faults>>

-----------------------------------------------------------------------------
\* Fresh from the installer or in use for a while; signed out, or signed in with
\* every tab where the guard has put it; the second factor off, off with one tab
\* showing the secret of a set-up that it has begun, or on.
Init ==
  \E must \in BOOLEAN, in, on \in BOOLEAN, begun \in {{}} \cup {{t} : t \in Tabs} :
    /\ begun # {} => in /\ ~must /\ ~on
    /\ on => ~must
    /\ made = IF on \/ begun # {} THEN 1 ELSE 0
    /\ admin = [FirstAdmin EXCEPT !.must = must, !.totp = on,
                   !.pending = IF on THEN 0 ELSE made, !.secret = IF on THEN 1 ELSE 0,
                   !.codes = IF on THEN Codes ELSE {}]
    /\ key = 0 /\ staged = FALSE
    /\ toks = <<[name |-> FirstAdmin.name, key |-> 0, live |-> TRUE]>>
    /\ token = IF in THEN 1 ELSE 0
    /\ LET me == IF in THEN MeOf(admin) ELSE NoMe IN
         tab = [t \in Tabs |-> [Blank(Guard(token, me, "home")) EXCEPT
                                 !.me = me, !.shown = IF t \in begun THEN 1 ELSE 0]]
    /\ ask = [t \in Tabs |-> [s \in Slots |-> Idle]]
    /\ proved = (IF on THEN {1} ELSE {})
    /\ moves = 0 /\ faults = 0

Operator(t) ==
  \/ \E p \in {"home", "password"} : Load(t, p)
  \/ Go(t) \/ Logout(t) \/ Focus(t)
  \/ \E n \in Names, w \in Pws, c \in (0..made) \cup Codes : SubmitLogin(t, n, w, c)
  \/ \E f \in Forms : SubmitForm(t, f)

Service(t) == ServeMe(t) \/ ServeForm(t) \/ ServeLogin(t)
              \/ SaveForm(t) \/ SaveLogin(t)

Answers(t) ==
  \/ \E s \in Slots : Forget(t, s) \/ Unauthorized(t, s)
  \/ HearMe(t) \/ HearPoll(t) \/ HearPassword(t) \/ HearRename(t) \/ HearTwoFA(t)
  \/ HearRestore(t) \/ HearRefusal(t) \/ HearLogin(t)

Next == \/ \E t \in Tabs : \/ Operator(t) \/ Service(t) \/ Answers(t)
                           \/ SaveFails(t) \/ Lost(t) \/ Leave(t) \/ Poll(t)
        \/ Boot
        \/ \E i \in DOMAIN toks : Expire(i)

\* A page polls while it is open and hears what it is answered; nothing else
\* is owed, not even an answer to a form.
Fairness == \A t \in Tabs : WF_vars(Poll(t)) /\ WF_vars(Answers(t))

Spec     == Init /\ [][Next]_vars
FairSpec == Spec /\ Fairness

(***************************************************************************)
(* Properties                                                              *)
(***************************************************************************)
\* The second factor a login asks for is one the operator has shown a code of,
\* however set-ups, confirmations and switch-offs of two tabs overlap: the code
\* is compared with the row that is saved, not with the row found by then
\* (TwoFAEnable, UpdateAdmin).
EnrolledWasProved == admin.totp => admin.secret \in proved

\* A panel page whose token the service no longer takes, or whose token is
\* gone, does not stay up, though nobody touches the tab: the version poll meets
\* the refusal and the client opens the login page (Layout, client.ts).
DeadTabLeaves ==
  \A t \in Tabs : (tab[t].page = "home" /\ ~Accepted(token))
                     ~> (tab[t].page # "home" \/ Accepted(token))
=============================================================================
