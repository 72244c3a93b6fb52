---------------------------- MODULE SessionProofs ----------------------------
(***************************************************************************)
(* Proofs about three parts of the panel that keep a switch or a row that  *)
(* several readers hold copies of.                                         *)
(*                                                                         *)
(* Session, for any tabs, names, forms and bounds: the types, and that the *)
(* second factor in force has been proved.  Audit (A), for any pages and   *)
(* any bounds: the types, and the five safety properties, each from an     *)
(* invariant of its own that is inductive given the types.  Neighbors (N), *)
(* for any addresses, sites, tabs and bounds: the types, that the          *)
(* published default is the stored one, and that it fits the address the   *)
(* host has.  Session's assumption on its constants is the only one.       *)
(***************************************************************************)
EXTENDS Session, TLAPS

CONSTANTS Viewers, Addrs, Sites

VARIABLES enabled, setting, log, nextId, hand, filter, cache, lookups, put, clr, cleared,
          clears, lastPut, marks, acts, errs

VARIABLES mach, listen, cap, stored, proc, old, preferred, scanning, scan, view,
          queries, broken, steps, mishaps

A == INSTANCE Audit WITH Pages <- Viewers, op <- hand, ask <- lookups, moves <- acts, faults <- errs
N == INSTANCE Neighbors WITH Pages <- Viewers, ask <- queries, moves <- steps, faults <- mishaps

(***************************************************************************)
(* Session: the types                                                      *)
(***************************************************************************)
Rows   == [name: Names, pw: Pws, must: BOOLEAN, totp: BOOLEAN, pending: Nat, secret: Nat, codes: SUBSET Codes]
Issues == [name: Names, key: {0, 1}, live: BOOLEAN]
Mes    == [known: BOOLEAN, must: BOOLEAN, totp: BOOLEAN]
Shows  == [page: Pages, me: Mes, needCode: BOOLEAN, shown: Nat, waits: BOOLEAN,
           leaving: {"no", "rename", "restore"}]
FormOps  == {"password", "rename", "setup", "enable", "disable", "regen", "restore"}
Typed    == Nat \cup Codes
Requests == [st: {"sent", "save", "done"}, op: FormOps \cup {"me", "poll", "login"}, tok: Nat, form: Form,
             code: Typed, status: Nat, row: Rows, got: Nat, heard: BOOLEAN]
Waiting  == [Slots -> Requests \cup {Idle}]

ServiceOK == /\ admin \in Rows /\ made \in Nat /\ key \in {0, 1} /\ staged \in BOOLEAN
             /\ toks \in Seq(Issues) /\ proved \subseteq Typed

BrowserOK == /\ token \in Nat /\ tab \in [Tabs -> Shows] /\ ask \in [Tabs -> Waiting]
             /\ \A t \in Tabs : ask[t]["form"] # Idle => ask[t]["form"].op \in FormOps

BoundsOK  == moves \in 0..MaxMoves /\ faults \in 0..MaxFaults

SessionTypeOK == ServiceOK /\ BrowserOK /\ BoundsOK

LEMMA FirstFits == FirstAdmin \in Rows /\ ~FirstAdmin.totp /\ FirstAdmin.name \in Names
<1>1. FirstAdmin \in Admin /\ ~FirstAdmin.totp
  BY SessionAssumption DEF SessionAssumption
<1>2. MaxMoves \in Nat
  BY SessionAssumption DEF SessionAssumption
<1>3. Secrets \subseteq Nat
  BY <1>2 DEF Secrets
<1>4. QED
  BY <1>1, <1>3 DEF Admin, Rows

LEMMA NoFormFits == NoForm \in Form
<1>1. PICK n \in Names, w \in Pws : TRUE
  BY FirstFits DEF Rows
<1>2. [op |-> "setup", pw |-> w, name |-> n, new |-> w] \in Form
  BY DEF Form
<1>3. QED
  BY <1>2 DEF NoForm

LEMMA IdleIsNone == Idle \notin Requests
BY DEF Idle, Requests

LEMMA RequestFits ==
  ASSUME token \in Nat, NEW op \in FormOps \cup {"me", "poll", "login"}, NEW form \in Form, NEW code \in Typed
  PROVE  Sent(op, form, code) \in Requests
BY FirstFits DEF Sent, Requests

LEMMA MeFits == ASSUME token \in Nat PROVE Me \in Requests
<1>1. 0 \in Typed
  BY DEF Typed
<1>2. QED
  BY <1>1, RequestFits, NoFormFits DEF Me

LEMMA ToldFits ==
  ASSUME NEW r \in Requests, NEW status \in Nat, NEW row \in Rows, NEW got \in Nat
  PROVE  Told(r, status, row, got) \in Requests /\ Told(r, status, row, got).op = r.op
<1>1. 0 \in Typed
  BY DEF Typed
<1>2. QED
  BY <1>1, NoFormFits DEF Told, Requests

Saving(r, row) == [r EXCEPT !.st = "save", !.row = row]

LEMMA SavingFits ==
  ASSUME NEW r \in Requests, NEW row \in Rows
  PROVE  Saving(r, row) \in Requests /\ Saving(r, row).op = r.op
BY DEF Saving, Requests

\* One slot of a tab takes another request, or none.
LEMMA SlotFits ==
  ASSUME BrowserOK, NEW t \in Tabs, NEW s \in Slots, NEW r \in Requests \cup {Idle},
         s = "form" /\ r # Idle => r.op \in FormOps,
         ask' = [ask EXCEPT ![t][s] = r]
  PROVE  /\ ask' \in [Tabs -> Waiting]
         /\ \A u \in Tabs : ask'[u]["form"] # Idle => ask'[u]["form"].op \in FormOps
<1>1. [ask[t] EXCEPT ![s] = r] \in Waiting
  BY DEF BrowserOK, Waiting
<1>2. "form" \in Slots
  BY DEF Slots
<1>3. QED
  BY <1>1, <1>2 DEF BrowserOK, Waiting

\* All slots of a tab do.
LEMMA RowFits ==
  ASSUME BrowserOK, NEW t \in Tabs, NEW w \in Waiting, w["form"] # Idle => w["form"].op \in FormOps,
         ask' = [ask EXCEPT ![t] = w]
  PROVE  /\ ask' \in [Tabs -> Waiting]
         /\ \A u \in Tabs : ask'[u]["form"] # Idle => ask'[u]["form"].op \in FormOps
BY DEF BrowserOK

LEMMA DroppedFits ==
  ASSUME BrowserOK, NEW t \in Tabs
  PROVE  Dropped(t) \in Waiting /\ (Dropped(t)["form"] # Idle => Dropped(t)["form"].op \in FormOps)
<1>1. \A r \in Requests : Unheard(r) \in Requests \cup {Idle} /\ (Unheard(r) # Idle => Unheard(r).op = r.op)
  BY DEF Unheard, Requests
<1>2. Unheard(Idle) = Idle
  BY DEF Unheard, Idle
<1>3. \A s \in Slots : ask[t][s] \in Requests \cup {Idle}
  BY DEF BrowserOK, Waiting
<1>4. "form" \in Slots
  BY DEF Slots
<1>5. QED
  BY <1>1, <1>2, <1>3, <1>4 DEF BrowserOK, Dropped, Waiting

LEMMA PageFits ==
  ASSUME NEW tk, NEW me, NEW page \in Pages
  PROVE  Guard(tk, me, page) \in Pages /\ Blank(page) \in Shows
BY DEF Guard, Pages, Blank, NoMe, Mes, Shows

LEMMA LoginPageFits ==
  ASSUME BrowserOK, NEW t \in Tabs, LoadLogin(t)
  PROVE  /\ tab' \in [Tabs -> Shows] /\ ask' \in [Tabs -> Waiting]
         /\ \A u \in Tabs : ask'[u]["form"] # Idle => ask'[u]["form"].op \in FormOps
<1>1. "login" \in Pages
  BY DEF Pages
<1>2. tab' \in [Tabs -> Shows]
  BY <1>1, PageFits DEF LoadLogin, BrowserOK
<1>3. QED
  BY <1>2, DroppedFits, RowFits DEF LoadLogin

LEMMA MovesFit == ASSUME BoundsOK, Move PROVE moves' \in 0..MaxMoves
<1>1. MaxMoves \in Nat
  BY SessionAssumption DEF SessionAssumption
<1>2. QED
  BY <1>1 DEF BoundsOK, Move

LEMMA FaultsFit == ASSUME BoundsOK, Fault PROVE faults' \in 0..MaxFaults
<1>1. MaxFaults \in Nat
  BY SessionAssumption DEF SessionAssumption
<1>2. QED
  BY <1>1 DEF BoundsOK, Fault

\* The codes and secrets that the pages and the service hand each other.
LEMMA DecideFits ==
  ASSUME ServiceOK, NEW r \in Requests, r.op \in FormOps \ {"restore"}
  PROVE  Decide(r)[1] \in Nat /\ Decide(r)[2] \in Rows
<1>0. admin \in Rows /\ made \in Nat
  BY DEF ServiceOK
<1>2. r.form.new \in Pws /\ r.form.name \in Names
  BY DEF Requests, Form
<1>w. [admin EXCEPT !.pw = r.form.new, !.must = FALSE] \in Rows
  BY <1>0, <1>2 DEF Rows
<1>u. [admin EXCEPT !.name = r.form.name] \in Rows
  BY <1>0, <1>2 DEF Rows
<1>r. [admin EXCEPT !.codes = Codes] \in Rows
  BY <1>0 DEF Rows
<1>m. [admin EXCEPT !.pending = made + 1] \in Rows
  BY <1>0 DEF Rows
<1>e. [admin EXCEPT !.secret = admin.pending, !.pending = 0, !.totp = TRUE, !.codes = Codes] \in Rows
  BY <1>0 DEF Rows
<1>d. [admin EXCEPT !.totp = FALSE, !.secret = 0, !.pending = 0, !.codes = {}] \in Rows
  BY <1>0 DEF Rows
<1>3. CASE ~Known(r.tok)
  BY <1>0, <1>3 DEF Decide
<1>4. CASE Known(r.tok)
  <2>1. CASE r.op = "password"
    BY <1>0, <1>w, <1>4, <2>1 DEF Decide, ChangePassword
  <2>2. CASE r.op = "rename"
    BY <1>0, <1>u, <1>4, <2>2 DEF Decide, UpdateUsername
  <2>3. CASE r.op = "setup"
    BY <1>0, <1>m, <1>4, <2>3 DEF Decide, TwoFASetup
  <2>4. CASE r.op = "enable"
    BY <1>0, <1>e, <1>4, <2>4 DEF Decide, TwoFAEnable
  <2>5. CASE r.op = "disable"
    BY <1>0, <1>d, <1>4, <2>5 DEF Decide, TwoFADisable
  <2>6. CASE r.op = "regen"
    BY <1>0, <1>r, <1>4, <2>6 DEF Decide, TwoFARegen
  <2>7. QED
    BY <2>1, <2>2, <2>3, <2>4, <2>5, <2>6 DEF FormOps
<1>5. QED
  BY <1>3, <1>4

LEMMA IssuedFits ==
  ASSUME ServiceOK, NEW name \in Names
  PROVE  Issued(name) \in Seq(Issues) /\ Len(toks) + 1 \in Nat
BY DEF ServiceOK, Issued, Issues

\* What the operator does keeps the types.
LEMMA OperatorFits ==
  ASSUME SessionTypeOK, NEW t \in Tabs, Operator(t)
  PROVE  SessionTypeOK'
<1> USE MovesFit DEF SessionTypeOK
<1>0. token \in Nat /\ tab[t] \in Shows
  BY DEF BrowserOK
<1>p. {"me", "poll", "form", "login"} \subseteq Slots /\ {"home", "password", "login"} \subseteq Pages
  BY DEF Slots, Pages
<1>s. UNCHANGED server => ServiceOK'
  BY DEF server, ServiceOK
<1>1. ASSUME NEW page \in {"home", "password"}, Load(t, page) PROVE SessionTypeOK'
  <2> DEFINE p == Guard(token, NoMe, page)
             w == [Dropped(t) EXCEPT !["me"] = IF p = "login" THEN Idle ELSE Me]
  <2>1. tab' = [tab EXCEPT ![t] = Blank(p)] /\ ask' = [ask EXCEPT ![t] = w]
    BY <1>1 DEF Load
  <2>2. w \in Waiting /\ w["form"] = Dropped(t)["form"]
    BY <1>0, <1>p, DroppedFits, MeFits DEF Waiting
  <2>3. Blank(p) \in Shows
    BY <1>p, PageFits
  <2> HIDE DEF w, p
  <2>4. BrowserOK'
    BY <1>1, <2>1, <2>2, <2>3, DroppedFits, RowFits DEF Load, BrowserOK
  <2>5. QED
    BY <1>s, <1>1, <2>4 DEF Load, BoundsOK
<1>2. CASE Go(t)
  <2> DEFINE p == Guard(token, tab[t].me, "home")
             r == IF p = "login" THEN ask[t]["me"] ELSE Mounted(t)
  <2>1. tab' = [tab EXCEPT ![t] = [tab[t] EXCEPT !.page = p, !.shown = 0]] /\ ask' = [ask EXCEPT ![t]["me"] = r]
    BY <1>2 DEF Go, BrowserOK
  <2>2. r \in Requests \cup {Idle}
    BY <1>0, <1>p, MeFits DEF Mounted, BrowserOK, Waiting
  <2>3. p \in Pages
    BY <1>p, PageFits
  <2> HIDE DEF r, p
  <2>4. [tab[t] EXCEPT !.page = p, !.shown = 0] \in Shows
    BY <1>0, <2>3 DEF Shows
  <2>5. BrowserOK'
    <3>1. /\ ask' \in [Tabs -> Waiting]
          /\ \A u \in Tabs : ask'[u]["form"] # Idle => ask'[u]["form"].op \in FormOps
      BY <1>p, <2>1, <2>2, SlotFits
    <3>2. tab' \in [Tabs -> Shows]
      BY <2>1, <2>4 DEF BrowserOK
    <3>3. QED
      BY <1>2, <3>1, <3>2 DEF Go, BrowserOK
  <2>6. QED
    BY <1>s, <1>2, <2>5 DEF Go, BoundsOK
<1>3. CASE Logout(t)
  <2>1. [tab[t] EXCEPT !.page = "login", !.shown = 0, !.needCode = FALSE] \in Shows
    BY <1>0, <1>p DEF Shows
  <2>2. tab' \in [Tabs -> Shows]
    BY <1>3, <2>1 DEF Logout, BrowserOK
  <2>3. QED
    BY <1>s, <1>3, <2>2 DEF Logout, BrowserOK, BoundsOK
<1>4. CASE Focus(t)
  <2>1. ask' = [ask EXCEPT ![t]["me"] = Me] /\ UNCHANGED <<token, tab>>
    BY <1>4 DEF Focus
  <2>2. BrowserOK'
    BY <1>0, <1>p, <2>1, MeFits, SlotFits DEF BrowserOK
  <2>3. QED
    BY <1>s, <1>4, <2>2 DEF Focus, BoundsOK
<1>5. ASSUME NEW n \in Names, NEW w \in Pws, NEW c \in (0..made) \cup Codes, SubmitLogin(t, n, w, c)
      PROVE  SessionTypeOK'
  <2> DEFINE f == [NoForm EXCEPT !.name = n, !.pw = w]
  <2>1. f \in Form
    BY NoFormFits DEF Form
  <2>2. c \in Typed
    BY DEF Typed, ServiceOK
  <2>3. Sent("login", f, c) \in Requests
    BY <1>0, <2>1, <2>2, RequestFits
  <2>4. ask' = [ask EXCEPT ![t]["login"] = Sent("login", f, c)] /\ UNCHANGED <<token, tab>>
    BY <1>5 DEF SubmitLogin
  <2> HIDE DEF f
  <2>5. BrowserOK'
    BY <1>p, <2>3, <2>4, SlotFits DEF BrowserOK
  <2>6. QED
    BY <1>s, <1>5, <2>5 DEF SubmitLogin, BoundsOK
<1>6. ASSUME NEW f \in Forms, SubmitForm(t, f) PROVE SessionTypeOK'
  <2>1. f \in Form /\ f.op \in FormOps
    BY SessionAssumption DEF SessionAssumption, Form, FormOps
  <2>2. tab[t].shown \in Typed
    BY <1>0 DEF Shows, Typed
  <2>3. Sent(f.op, f, tab[t].shown) \in Requests /\ Sent(f.op, f, tab[t].shown).op = f.op
    BY <1>0, <2>1, <2>2, RequestFits DEF Sent
  <2>4. ask' = [ask EXCEPT ![t]["form"] = Sent(f.op, f, tab[t].shown)] /\ UNCHANGED <<token, tab>>
    BY <1>6 DEF SubmitForm
  <2>5. BrowserOK'
    BY <1>p, <2>1, <2>3, <2>4, SlotFits DEF BrowserOK
  <2>6. QED
    BY <1>s, <1>6, <2>5 DEF SubmitForm, BoundsOK
<1>7. QED
  BY <1>1, <1>2, <1>3, <1>4, <1>5, <1>6 DEF Operator

\* So does what the service does.
LEMMA ServiceFits ==
  ASSUME SessionTypeOK, NEW t \in Tabs, Service(t) \/ SaveFails(t) \/ Lost(t) \/ Poll(t)
  PROVE  SessionTypeOK'
<1> USE FirstFits, FaultsFit DEF SessionTypeOK
<1>0. token \in Nat /\ \A s \in Slots : ask[t][s].st # "idle" => ask[t][s] \in Requests
  BY DEF BrowserOK, Waiting, Idle
<1>p. {"me", "poll", "form", "login"} \subseteq Slots
  BY DEF Slots
<1>f. ask[t]["form"].st # "idle" => ask[t]["form"].op \in FormOps
  BY DEF BrowserOK, Idle
<1>s. UNCHANGED server => ServiceOK'
  BY DEF server, ServiceOK
<1>n. 0 \in Nat /\ 200 \in Nat /\ 401 \in Nat /\ 500 \in Nat /\ admin \in Rows
  BY DEF ServiceOK
<1>a. ASSUME NEW s \in Slots, NEW r, ask[t][s].st # "idle", r \in Requests, r.op = ask[t][s].op,
             ask' = [ask EXCEPT ![t][s] = r], UNCHANGED <<token, tab>>
      PROVE  BrowserOK'
  BY <1>0, <1>f, <1>a, SlotFits DEF BrowserOK
<1>q. ASSUME NEW s \in Slots, s # "form", NEW r \in Requests, ask' = [ask EXCEPT ![t][s] = r], UNCHANGED <<token, tab>>
      PROVE  BrowserOK'
  BY <1>q, SlotFits DEF BrowserOK
<1>b. ASSUME NEW s \in Slots, NEW status \in Nat, ask[t][s].st # "idle", Answer(t, s, status), UNCHANGED <<token, tab>>
      PROVE  BrowserOK'
  <2>1. Told(ask[t][s], status, FirstAdmin, 0) \in Requests /\ Told(ask[t][s], status, FirstAdmin, 0).op = ask[t][s].op
    BY <1>0, <1>b, ToldFits
  <2>2. ask' = [ask EXCEPT ![t][s] = Told(ask[t][s], status, FirstAdmin, 0)]
    BY <1>b DEF Answer, BrowserOK, Waiting
  <2>3. QED
    BY <1>a, <1>b, <2>1, <2>2
<1>c. ASSUME NEW s \in Slots, NEW row \in Rows, ask[t][s].st # "idle", Keep(t, s, row), UNCHANGED <<token, tab>>
      PROVE  BrowserOK'
  <2> DEFINE r == Saving(ask[t][s], row)
  <2>1. r \in Requests /\ r.op = ask[t][s].op
    BY <1>0, <1>c, SavingFits
  <2>2. ask' = [ask EXCEPT ![t][s] = r]
    BY <1>c DEF Keep, Saving, BrowserOK, Waiting
  <2> HIDE DEF r
  <2>3. QED
    BY <1>a, <1>c, <2>1, <2>2
<1>1. CASE ServeMe(t)
  <2> DEFINE m == ask[t]["me"]
  <2>0. m.st # "idle" /\ m \in Requests
    BY <1>0, <1>1, <1>p DEF ServeMe
  <2>1. \/ ask' = [ask EXCEPT ![t]["me"] = Told(m, 200, admin, 0)]
        \/ ask' = [ask EXCEPT ![t]["me"] = Told(m, 401, FirstAdmin, 0)]
    BY <1>1, <1>p DEF ServeMe, BrowserOK, Waiting
  <2>2. /\ Told(m, 200, admin, 0) \in Requests /\ Told(m, 200, admin, 0).op = m.op
        /\ Told(m, 401, FirstAdmin, 0) \in Requests /\ Told(m, 401, FirstAdmin, 0).op = m.op
    <3>1. \A q \in Requests : /\ Told(q, 200, admin, 0) \in Requests /\ Told(q, 200, admin, 0).op = q.op
                              /\ Told(q, 401, FirstAdmin, 0) \in Requests /\ Told(q, 401, FirstAdmin, 0).op = q.op
      BY <1>n, ToldFits
    <3>2. QED
      BY <2>0, <3>1
  <2>3. BrowserOK'
    BY <1>a, <1>1, <1>p, <2>0, <2>1, <2>2 DEF ServeMe
  <2>4. QED
    BY <1>s, <1>1, <2>3 DEF ServeMe, BoundsOK
<1>2. CASE ServeForm(t)
  <2> DEFINE r == ask[t]["form"]
  <2>0. r.st # "idle" /\ r \in Requests /\ r.op \in FormOps
    BY <1>0, <1>2, <1>f, <1>p DEF ServeForm
  <2>1. CASE r.op = "restore"
    <3>1. BrowserOK'
      BY <1>2, <1>b, <1>n, <1>p, <2>0, <2>1 DEF ServeForm
    <3>2. UNCHANGED <<admin, made, key, toks, proved>> /\ staged' = Accepted(r.tok)
      BY <1>2, <2>1 DEF ServeForm
    <3>3. staged' \in BOOLEAN
      BY <3>2, Zenon DEF Accepted
    <3>4. ServiceOK'
      BY <3>2, <3>3 DEF ServiceOK
    <3>5. QED
      BY <1>2, <3>1, <3>4 DEF ServeForm, BoundsOK
  <2>2. CASE r.op # "restore"
    <3>1. Decide(r)[1] \in Nat /\ Decide(r)[2] \in Rows
      BY <2>0, <2>2, DecideFits DEF FormOps
    <3>2. BrowserOK'
      BY <1>2, <1>b, <1>c, <1>p, <2>0, <2>2, <3>1 DEF ServeForm
    <3>3. UNCHANGED <<admin, key, toks, proved, staged>> /\ made' \in {made, made + 1}
      BY <1>2, <2>2 DEF ServeForm
    <3>4. ServiceOK'
      BY <3>3 DEF ServiceOK
    <3>5. QED
      BY <1>2, <3>2, <3>4 DEF ServeForm, BoundsOK
  <2>3. QED
    BY <2>1, <2>2
<1>3. CASE ServeLogin(t)
  <2> DEFINE r == ask[t]["login"]
  <2>0. r.st # "idle" /\ r \in Requests
    BY <1>0, <1>3, <1>p DEF ServeLogin
  <2>1. [admin EXCEPT !.codes = @ \ {r.code}] \in Rows /\ admin.name \in Names
    BY <1>n DEF Rows
  <2>2. Told(r, 200, FirstAdmin, Len(toks) + 1) \in Requests /\ Told(r, 200, FirstAdmin, Len(toks) + 1).op = r.op
    <3>1. \A q \in Requests, g \in Nat : Told(q, 200, FirstAdmin, g) \in Requests /\ Told(q, 200, FirstAdmin, g).op = q.op
      BY ToldFits
    <3>2. Len(toks) + 1 \in Nat
      BY DEF ServiceOK
    <3>3. QED
      BY <2>0, <3>1, <3>2
  <2>3. \/ Answer(t, "login", 401) /\ UNCHANGED toks
        \/ Answer(t, "login", 200) /\ UNCHANGED toks
        \/ Keep(t, "login", [admin EXCEPT !.codes = @ \ {r.code}]) /\ UNCHANGED toks
        \/ toks' = Issued(admin.name) /\ ask' = [ask EXCEPT ![t]["login"] = Told(r, 200, FirstAdmin, Len(toks) + 1)]
    BY <1>3, <1>p DEF ServeLogin, BrowserOK, Waiting
  <2>4. UNCHANGED <<admin, made, key, staged, proved, token, tab, moves, faults>>
    BY <1>3 DEF ServeLogin
  <2>5. BrowserOK'
    <3> HIDE DEF r
    <3>1. CASE Answer(t, "login", 401) \/ Answer(t, "login", 200)
      BY <1>b, <1>n, <1>p, <2>0, <2>4, <3>1 DEF r
    <3>2. CASE Keep(t, "login", [admin EXCEPT !.codes = @ \ {r.code}])
      BY <1>c, <1>p, <2>0, <2>1, <2>4, <3>2 DEF r
    <3>3. CASE ask' = [ask EXCEPT ![t]["login"] = Told(r, 200, FirstAdmin, Len(toks) + 1)]
      BY <1>a, <1>p, <2>0, <2>2, <2>4, <3>3 DEF r
    <3>4. QED
      BY <2>3, <3>1, <3>2, <3>3
  <2>6. ServiceOK'
    BY <2>1, <2>3, <2>4, IssuedFits DEF ServiceOK
  <2>7. QED
    BY <2>4, <2>5, <2>6 DEF BoundsOK
<1>4. CASE SaveForm(t)
  <2> DEFINE r == ask[t]["form"]
             row == IF r.op = "setup" THEN r.row ELSE FirstAdmin
  <2>0. r.st # "idle" /\ r \in Requests
    BY <1>0, <1>4, <1>p DEF SaveForm
  <2>1. r.row \in Rows /\ r.code \in Typed
    BY <2>0 DEF Requests
  <2>2. Told(r, 200, row, 0) \in Requests /\ Told(r, 200, row, 0).op = r.op
    <3>1. \A q \in Requests, w \in Rows : Told(q, 200, w, 0) \in Requests /\ Told(q, 200, w, 0).op = q.op
      BY ToldFits
    <3>2. row \in Rows
      BY <2>1
    <3>3. QED
      BY <2>0, <3>1, <3>2
  <2>3. ask' = [ask EXCEPT ![t]["form"] = Told(r, 200, row, 0)] /\ UNCHANGED <<token, tab>>
    BY <1>4, <1>p DEF SaveForm, BrowserOK, Waiting
  <2>4. BrowserOK'
    BY <1>a, <1>p, <2>0, <2>2, <2>3
  <2>5. admin' = r.row /\ proved' \in {proved, proved \cup {r.code}} /\ UNCHANGED <<made, key, staged, toks>>
    BY <1>4 DEF SaveForm, UpdateAdmin
  <2>6. ServiceOK'
    BY <2>1, <2>5 DEF ServiceOK
  <2>7. QED
    BY <1>4, <2>4, <2>6 DEF SaveForm, BoundsOK
<1>5. CASE SaveLogin(t)
  <2> DEFINE r == ask[t]["login"]
  <2>0. r.st # "idle" /\ r \in Requests
    BY <1>0, <1>5, <1>p DEF SaveLogin
  <2>1. r.row \in Rows /\ r.row.name \in Names
    BY <2>0 DEF Requests, Rows
  <2>2. Told(r, 200, FirstAdmin, Len(toks) + 1) \in Requests /\ Told(r, 200, FirstAdmin, Len(toks) + 1).op = r.op
    <3>1. \A q \in Requests, g \in Nat : Told(q, 200, FirstAdmin, g) \in Requests /\ Told(q, 200, FirstAdmin, g).op = q.op
      BY ToldFits
    <3>2. Len(toks) + 1 \in Nat
      BY DEF ServiceOK
    <3>3. QED
      BY <2>0, <3>1, <3>2
  <2>3. ask' = [ask EXCEPT ![t]["login"] = Told(r, 200, FirstAdmin, Len(toks) + 1)] /\ UNCHANGED <<token, tab>>
    BY <1>5, <1>p DEF SaveLogin, BrowserOK, Waiting
  <2>4. BrowserOK'
    BY <1>a, <1>p, <2>0, <2>2, <2>3
  <2>5. admin' \in {admin, r.row} /\ toks' = Issued(r.row.name) /\ UNCHANGED <<made, key, staged, proved>>
    BY <1>5 DEF SaveLogin, UpdateAdmin
  <2>6. ServiceOK'
    BY <1>n, <2>1, <2>5, IssuedFits DEF ServiceOK
  <2>7. QED
    BY <1>5, <2>4, <2>6 DEF SaveLogin, BoundsOK
<1>6. CASE SaveFails(t)
  <2>1. BrowserOK'
    BY <1>6, <1>b, <1>n, <1>p DEF SaveFails
  <2>2. QED
    BY <1>6, <1>s, <2>1 DEF SaveFails, BoundsOK
<1>7. CASE Lost(t)
  <2>1. BrowserOK'
    BY <1>7, <1>b, <1>n, <1>p DEF Lost
  <2>2. QED
    BY <1>7, <1>s, <2>1 DEF Lost, BoundsOK
<1>8. CASE Poll(t)
  <2>1. Sent("poll", NoForm, 0) \in Requests
    BY <1>0, <1>n, RequestFits, NoFormFits DEF Typed
  <2>2. PICK status \in {200, 401} : ask' = [ask EXCEPT ![t]["poll"] = Told(Sent("poll", NoForm, 0), status, FirstAdmin, 0)]
    BY <1>8 DEF Poll
  <2>3. Told(Sent("poll", NoForm, 0), status, FirstAdmin, 0) \in Requests
    BY <1>n, <2>1, ToldFits
  <2>4. BrowserOK'
    <3> DEFINE q == Told(Sent("poll", NoForm, 0), status, FirstAdmin, 0)
    <3>1. ask' = [ask EXCEPT ![t]["poll"] = q] /\ q \in Requests
      BY <2>2, <2>3
    <3>2. UNCHANGED <<token, tab>>
      BY <1>8 DEF Poll
    <3> HIDE DEF q
    <3>3. QED
      BY <1>p, <1>q, <3>1, <3>2
  <2>5. QED
    BY <1>8, <1>s, <2>4 DEF Poll, BoundsOK
<1>9. QED
  BY <1>1, <1>2, <1>3, <1>4, <1>5, <1>6, <1>7, <1>8 DEF Service

\* And so does what the pages do with the answers.
LEMMA AnswersFit ==
  ASSUME SessionTypeOK, NEW t \in Tabs, Answers(t) \/ Leave(t)
  PROVE  SessionTypeOK'
<1> USE DEF SessionTypeOK
<1>0. token \in Nat /\ tab[t] \in Shows /\ \A s \in Slots : ask[t][s].st # "idle" => ask[t][s] \in Requests
  BY DEF BrowserOK, Waiting, Idle
<1>p. {"me", "poll", "form", "login"} \subseteq Slots /\ {"home", "password", "login"} = Pages
  BY DEF Slots, Pages
<1>s. UNCHANGED server => ServiceOK'
  BY DEF server, ServiceOK
<1>i. ASSUME NEW s \in Slots, ask' = [ask EXCEPT ![t][s] = Idle]
      PROVE  /\ ask' \in [Tabs -> Waiting]
             /\ \A u \in Tabs : ask'[u]["form"] # Idle => ask'[u]["form"].op \in FormOps
  BY <1>i, SlotFits
<1>m. Me \in Requests
  BY <1>0, MeFits
<1>r. Refetched(t) \in Waiting /\ Refetched(t)["form"] = Idle /\ [ask[t] EXCEPT !["form"] = Idle] \in Waiting
  BY <1>m, <1>p DEF Refetched, BrowserOK, Waiting
<1>1. ASSUME NEW s \in Slots, Forget(t, s) PROVE SessionTypeOK'
  <2>1. BrowserOK'
    BY <1>1, <1>i DEF Forget, BrowserOK
  <2>2. QED
    BY <1>1, <1>s, <2>1 DEF Forget, BoundsOK
<1>2. ASSUME NEW s \in Slots, Unauthorized(t, s) PROVE SessionTypeOK'
  <2>1. token' = 0 /\ (LoadLogin(t) \/ (ask' = [ask EXCEPT ![t][s] = Idle] /\ UNCHANGED tab))
    <3>1. CASE tab[t].page = "login"
      BY <1>2, <3>1 DEF Unauthorized
    <3>2. CASE tab[t].page # "login"
      <4>1. token' = 0 /\ LoadLogin(t)
        BY <1>2, <3>2, Zenon DEF Unauthorized
      <4>2. QED
        BY <4>1, Zenon
    <3>3. QED
      BY <3>1, <3>2
  <2>2. BrowserOK'
    BY <1>i, <2>1, LoginPageFits DEF BrowserOK
  <2>3. QED
    BY <1>2, <1>s, <2>2 DEF Unauthorized, BoundsOK
<1>3. CASE HearMe(t)
  <2> DEFINE r  == ask[t]["me"]
             me == IF r.status = 200 THEN MeOf(r.row) ELSE tab[t].me
             to == IF tab[t].waits THEN "home" ELSE tab[t].page
             p  == IF tab[t].page = "login" THEN "login" ELSE Guard(token, me, to)
  <2>1. r \in Requests
    BY <1>0, <1>3, <1>p DEF HearMe, Heard
  <2>2. me \in Mes
    BY <1>0, <2>1 DEF MeOf, Mes, Shows, Requests, Rows
  <2>3. to \in Pages
    BY <1>0, <1>p DEF Shows
  <2>4. p \in Pages
    BY <1>p, <2>3, PageFits
  <2>5. tab' = [tab EXCEPT ![t] = [tab[t] EXCEPT !.me = me, !.page = p, !.waits = FALSE]] /\ ask' = [ask EXCEPT ![t]["me"] = Idle]
    <3>1. /\ tab' = [tab EXCEPT ![t].me = me, ![t].page = p, ![t].waits = FALSE]
          /\ ask' = [ask EXCEPT ![t]["me"] = Idle] /\ UNCHANGED <<server, token, moves, faults>>
      BY <1>3, Zenon DEF HearMe
    <3> HIDE DEF p, me
    <3>2. QED
      BY <3>1 DEF BrowserOK
  <2> HIDE DEF p, me
  <2>6. [tab[t] EXCEPT !.me = me, !.page = p, !.waits = FALSE] \in Shows
    BY <1>0, <2>2, <2>4 DEF Shows
  <2>7. BrowserOK'
    <3>1. UNCHANGED token
      BY <1>3 DEF HearMe
    <3>2. tab' \in [Tabs -> Shows]
      BY <2>5, <2>6 DEF BrowserOK
    <3>3. QED
      BY <1>i, <1>p, <2>5, <3>1, <3>2 DEF BrowserOK
  <2>8. QED
    BY <1>3, <1>s, <2>7 DEF HearMe, BoundsOK
<1>4. CASE HearPoll(t)
  <2>1. BrowserOK'
    BY <1>4, <1>i, <1>p DEF HearPoll, BrowserOK
  <2>2. QED
    BY <1>4, <1>s, <2>1 DEF HearPoll, BoundsOK
<1>5. CASE HearPassword(t)
  <2>1. [tab[t] EXCEPT !.waits = TRUE] \in Shows
    BY <1>0 DEF Shows
  <2>2. \/ ask' = [ask EXCEPT ![t] = Refetched(t)] /\ tab' = [tab EXCEPT ![t] = [tab[t] EXCEPT !.waits = TRUE]]
        \/ ask' = [ask EXCEPT ![t]["form"] = Idle] /\ UNCHANGED tab
    BY <1>5 DEF HearPassword, BrowserOK
  <2>3. ask' = [ask EXCEPT ![t] = Refetched(t)] =>
          /\ ask' \in [Tabs -> Waiting]
          /\ \A u \in Tabs : ask'[u]["form"] # Idle => ask'[u]["form"].op \in FormOps
    BY <1>r DEF BrowserOK
  <2>4. tab' \in [Tabs -> Shows]
    BY <2>1, <2>2 DEF BrowserOK
  <2>5. BrowserOK'
    BY <1>5, <1>i, <1>p, <2>2, <2>3, <2>4 DEF HearPassword, BrowserOK
  <2>6. QED
    BY <1>5, <1>s, <2>5 DEF HearPassword, BoundsOK
<1>6. CASE HearRename(t)
  <2>1. [tab[t] EXCEPT !.leaving = "rename"] \in Shows
    BY <1>0 DEF Shows
  <2>2. tab' \in [Tabs -> Shows] /\ token' = 0
    BY <1>6, <2>1 DEF HearRename, BrowserOK
  <2>3. BrowserOK'
    <3>1. ask' = [ask EXCEPT ![t]["form"] = Idle]
      BY <1>6 DEF HearRename
    <3>2. 0 \in Nat
      OBVIOUS
    <3>3. QED
      BY <1>i, <1>p, <2>2, <3>1, <3>2 DEF BrowserOK
  <2>4. QED
    BY <1>6, <1>s, <2>3 DEF HearRename, BoundsOK
<1>7. CASE HearTwoFA(t)
  <2> DEFINE r == ask[t]["form"]
             n == IF r.op = "setup" THEN r.row.pending ELSE 0
  <2>1. r \in Requests
    BY <1>0, <1>7, <1>p DEF HearTwoFA, Heard
  <2>2. n \in Nat
    BY <2>1 DEF Requests, Rows
  <2>3. tab' = [tab EXCEPT ![t] = [tab[t] EXCEPT !.shown = n]]
    BY <1>7 DEF HearTwoFA, BrowserOK
  <2> HIDE DEF n
  <2>4. [tab[t] EXCEPT !.shown = n] \in Shows
    BY <1>0, <2>2 DEF Shows
  <2>5. tab' \in [Tabs -> Shows]
    BY <2>3, <2>4 DEF BrowserOK
  <2>6. ask' = [ask EXCEPT ![t] = Refetched(t)] \/ ask' = [ask EXCEPT ![t] = [ask[t] EXCEPT !["form"] = Idle]]
    BY <1>7 DEF HearTwoFA, BrowserOK
  <2>7. [ask[t] EXCEPT !["form"] = Idle]["form"] = Idle
    BY <1>p DEF BrowserOK, Waiting
  <2>8. /\ ask' \in [Tabs -> Waiting]
        /\ \A u \in Tabs : ask'[u]["form"] # Idle => ask'[u]["form"].op \in FormOps
    BY <1>r, <2>6, <2>7 DEF BrowserOK
  <2>9. BrowserOK'
    BY <1>7, <2>5, <2>8 DEF HearTwoFA, BrowserOK
  <2>10. QED
    BY <1>7, <1>s, <2>9 DEF HearTwoFA, BoundsOK
<1>8. CASE HearRestore(t)
  <2>1. [tab[t] EXCEPT !.leaving = "restore"] \in Shows
    BY <1>0 DEF Shows
  <2>2. tab' \in [Tabs -> Shows]
    BY <1>8, <2>1 DEF HearRestore, BrowserOK
  <2>3. BrowserOK'
    BY <1>8, <1>i, <1>p, <2>2 DEF HearRestore, BrowserOK
  <2>4. QED
    BY <1>8, <1>s, <2>3 DEF HearRestore, BoundsOK
<1>9. CASE HearRefusal(t)
  <2>1. BrowserOK'
    BY <1>9, <1>i, <1>p DEF HearRefusal, BrowserOK
  <2>2. QED
    BY <1>9, <1>s, <2>1 DEF HearRefusal, BoundsOK
<1>10. CASE HearLogin(t)
  <2> DEFINE r == ask[t]["login"]
             p == Guard(r.got, tab[t].me, "home")
             m == IF ask[t]["me"] = Idle THEN [Me EXCEPT !.tok = r.got] ELSE ask[t]["me"]
  <2>1. r \in Requests
    BY <1>0, <1>10, <1>p DEF HearLogin, Heard
  <2>2. r.got \in Nat /\ ask[t]["me"] \in Requests \cup {Idle}
    BY <1>p, <2>1 DEF Requests, BrowserOK, Waiting
  <2>3. m \in Requests \cup {Idle}
    BY <1>m, <2>2 DEF Requests
  <2>4. p \in Pages
    BY <1>p, PageFits
  <2>5. CASE r.got # 0
    <3>1. /\ token' = r.got /\ UNCHANGED server
          /\ tab' = [tab EXCEPT ![t] = [tab[t] EXCEPT !.page = p, !.needCode = FALSE]]
          /\ ask' = [ask EXCEPT ![t] = [ask[t] EXCEPT !["login"] = Idle, !["me"] = m]]
      <4>1. /\ token' = r.got /\ UNCHANGED server
            /\ tab' = [tab EXCEPT ![t].page = p, ![t].needCode = FALSE]
            /\ ask' = [ask EXCEPT ![t]["login"] = Idle, ![t]["me"] = IF ask[t]["me"] = Idle THEN [Me EXCEPT !.tok = r.got] ELSE @]
        BY <1>10, <2>5 DEF HearLogin
      <4>2. [ask EXCEPT ![t]["login"] = Idle, ![t]["me"] = IF ask[t]["me"] = Idle THEN [Me EXCEPT !.tok = r.got] ELSE @]
              = [ask EXCEPT ![t] = [ask[t] EXCEPT !["login"] = Idle, !["me"] = m]]
        BY DEF BrowserOK, Waiting, Slots
      <4> HIDE DEF p, m, r
      <4>3. [tab EXCEPT ![t].page = p, ![t].needCode = FALSE] = [tab EXCEPT ![t] = [tab[t] EXCEPT !.page = p, !.needCode = FALSE]]
        BY DEF BrowserOK
      <4>4. QED
        BY <4>1, <4>2, <4>3
    <3> HIDE DEF p, m, r
    <3>2. [tab[t] EXCEPT !.page = p, !.needCode = FALSE] \in Shows
      BY <1>0, <2>4 DEF Shows
    <3>3. /\ [ask[t] EXCEPT !["login"] = Idle, !["me"] = m] \in Waiting
          /\ [ask[t] EXCEPT !["login"] = Idle, !["me"] = m]["form"] = ask[t]["form"]
      BY <1>p, <2>3 DEF BrowserOK, Waiting
    <3>4. BrowserOK'
      BY <2>2, <3>1, <3>2, <3>3 DEF BrowserOK
    <3>5. QED
      BY <1>10, <1>s, <3>4 DEF HearLogin, BoundsOK
  <2>6. CASE r.got = 0
    <3>1. /\ ask' = [ask EXCEPT ![t]["login"] = Idle] /\ UNCHANGED <<server, token>>
          /\ \E b \in BOOLEAN : tab' = [tab EXCEPT ![t] = [tab[t] EXCEPT !.needCode = b]]
      BY <1>0, <1>10, <2>6 DEF HearLogin, BrowserOK, Shows
    <3>2. \A b \in BOOLEAN : [tab[t] EXCEPT !.needCode = b] \in Shows
      BY <1>0 DEF Shows
    <3>3. tab' \in [Tabs -> Shows]
      BY <3>1, <3>2 DEF BrowserOK
    <3>4. BrowserOK'
      BY <1>i, <1>p, <3>1, <3>3 DEF BrowserOK
    <3>5. QED
      BY <1>10, <1>s, <3>4 DEF HearLogin, BoundsOK
  <2>7. QED
    BY <2>5, <2>6
<1>11. CASE Leave(t)
  <2>1. token' \in Nat
    BY <1>0, <1>11 DEF Leave
  <2>2. BrowserOK'
    BY <1>11, <2>1, LoginPageFits DEF Leave, BrowserOK
  <2>3. QED
    BY <1>11, <1>s, <2>2 DEF Leave, BoundsOK
<1>12. QED
  BY <1>1, <1>2, <1>3, <1>4, <1>5, <1>6, <1>7, <1>8, <1>9, <1>10, <1>11 DEF Answers

\* A restart and an expiry do.
LEMMA OutsideFits ==
  ASSUME SessionTypeOK, Boot \/ \E i \in DOMAIN toks : Expire(i)
  PROVE  SessionTypeOK'
<1> USE DEF SessionTypeOK
<1>1. CASE Boot
  <2>1. \A u \in Tabs, s \in Slots : ask[u][s].st \in {"sent", "save"} => ask[u][s] \in Requests
    BY DEF BrowserOK, Waiting, Idle
  <2>2. \A r \in Requests : Told(r, 0, FirstAdmin, 0) \in Requests /\ Told(r, 0, FirstAdmin, 0).op = r.op
    BY FirstFits, ToldFits
  <2>3. ask' = [u \in Tabs |-> [s \in Slots |-> IF ask[u][s].st \in {"sent", "save"}
                                               THEN Told(ask[u][s], 0, FirstAdmin, 0) ELSE ask[u][s]]]
    BY <1>1 DEF Boot
  <2>4. \A u \in Tabs, s \in Slots : ask'[u][s] \in Requests \cup {Idle}
    BY <2>1, <2>2, <2>3 DEF BrowserOK, Waiting
  <2>5. ask' \in [Tabs -> Waiting]
    BY <2>3, <2>4 DEF Waiting
  <2>6. \A u \in Tabs : ask'[u]["form"] # Idle => ask'[u]["form"].op \in FormOps
    <3>1. "form" \in Slots
      BY DEF Slots
    <3>2. Idle.st = "idle"
      BY DEF Idle
    <3>3. QED
      BY <2>1, <2>2, <2>3, <3>1, <3>2 DEF BrowserOK
  <2>7. BrowserOK'
    BY <1>1, <2>5, <2>6 DEF Boot, BrowserOK
  <2>8. ServiceOK'
    <3>1. staged' \in BOOLEAN
      BY <1>1, Zenon DEF Boot
    <3>2. admin' = FirstAdmin /\ key' = 1 /\ UNCHANGED <<made, toks, proved>>
      BY <1>1 DEF Boot
    <3>3. QED
      BY <3>1, <3>2, FirstFits DEF ServiceOK
  <2>9. QED
    BY <1>1, <2>7, <2>8 DEF Boot, BoundsOK
<1>2. ASSUME NEW i \in DOMAIN toks, Expire(i) PROVE SessionTypeOK'
  <2>1. toks \in Seq(Issues)
    BY DEF ServiceOK
  <2>2. toks[i] \in Issues
    BY <2>1
  <2>3. [toks[i] EXCEPT !.live = FALSE] \in Issues
    BY <2>2 DEF Issues
  <2>4. toks' = [toks EXCEPT ![i] = [toks[i] EXCEPT !.live = FALSE]]
    BY <1>2 DEF Expire
  <2>5. toks' \in Seq(Issues)
    BY <2>1, <2>3, <2>4
  <2>6. ServiceOK'
    BY <1>2, <2>5 DEF Expire, ServiceOK
  <2>7. QED
    BY <1>2, <2>6, FaultsFit DEF Expire, BrowserOK, BoundsOK
<1>3. QED
  BY <1>1, <1>2

LEMMA SessionStepTypes == SessionTypeOK /\ [Next]_vars => SessionTypeOK'
<1>1. ASSUME SessionTypeOK, UNCHANGED vars PROVE SessionTypeOK'
  BY <1>1 DEF vars, server, SessionTypeOK, ServiceOK, BrowserOK, BoundsOK
<1>2. QED
  BY <1>1, OperatorFits, ServiceFits, AnswersFit, OutsideFits DEF Next

(***************************************************************************)
(* Session: no second factor that nobody has proved                        *)
(***************************************************************************)
\* A handler that has decided and not yet saved has, in the row that it will
\* save, a secret that is proved, or that this very request proves.
Proves(r) == IF r.op = "enable" THEN proved \cup {r.code} ELSE proved

EnrolInv ==
  /\ EnrolledWasProved
  /\ \A t \in Tabs : LET r == ask[t]["form"] IN r.st = "save" /\ r.row.totp => r.row.secret \in Proves(r)
  /\ \A t \in Tabs : LET r == ask[t]["login"] IN r.st = "save" /\ r.row.totp => r.row.secret \in proved

\* Whoever neither decides nor saves leaves the rows on their way alone.
Aside ==
  /\ UNCHANGED <<admin, proved>>
  /\ \A u \in Tabs, s \in {"form", "login"} :
       ask'[u][s].st = "save" =>
         /\ ask[u][s].st = "save" /\ ask'[u][s].row = ask[u][s].row
         /\ ask'[u][s].op = ask[u][s].op /\ ask'[u][s].code = ask[u][s].code

LEMMA AsideKeeps == ASSUME EnrolInv, Aside PROVE EnrolInv'
<1>1. EnrolledWasProved'
  BY DEF EnrolInv, EnrolledWasProved, Aside
<1>2. ASSUME NEW t \in Tabs, ask'[t]["form"].st = "save", ask'[t]["form"].row.totp
      PROVE  ask'[t]["form"].row.secret \in Proves(ask[t]["form"])'
  BY <1>2 DEF EnrolInv, Proves, Aside
<1>3. ASSUME NEW t \in Tabs, ask'[t]["login"].st = "save", ask'[t]["login"].row.totp
      PROVE  ask'[t]["login"].row.secret \in proved'
  BY <1>3 DEF EnrolInv, Aside
<1>4. QED
  BY <1>1, <1>2, <1>3 DEF EnrolInv

\* A slot that takes a request that has not been decided, or none.
LEMMA FreshIsAside ==
  ASSUME BrowserOK, UNCHANGED <<admin, proved>>, NEW t \in Tabs, NEW s \in Slots, NEW r,
         s \in {"me", "poll"} \/ r.st # "save", ask' = [ask EXCEPT ![t][s] = r]
  PROVE  Aside
<1>1. \A u \in Tabs, v \in Slots : ask'[u][v] = ask[u][v] \/ (v = s /\ ask'[u][v] = r)
  BY DEF BrowserOK, Waiting
<1>2. {"form", "login"} \subseteq Slots
  BY DEF Slots
<1>3. QED
  BY <1>1, <1>2 DEF Aside

LEMMA FreshRequests ==
  /\ Idle.st # "save" /\ Me.st # "save"
  /\ \A op, form, code : Sent(op, form, code).st # "save"
  /\ \A r \in Requests : \A status, row, got : Told(r, status, row, got).st # "save"
<1>1. Idle.st # "save" /\ Me.st # "save"
  BY DEF Idle, Me, Sent
<1>2. \A op, form, code : Sent(op, form, code).st # "save"
  BY DEF Sent
<1>3. ASSUME NEW r \in Requests, NEW status, NEW row, NEW got PROVE Told(r, status, row, got).st # "save"
  BY DEF Told, Requests
<1>4. QED
  BY <1>1, <1>2, <1>3

\* A tab whose requests are unheard from now on, or asked anew.
LEMMA DroppedIsAside ==
  ASSUME BrowserOK, NEW t \in Tabs, NEW w,
         \A s \in {"form", "login"} : w[s] \in {Dropped(t)[s], ask[t][s], Idle},
         UNCHANGED <<admin, proved>>, ask' = [ask EXCEPT ![t] = w]
  PROVE  Aside
<1>1. {"form", "login"} \subseteq Slots
  BY DEF Slots
<1>2. ASSUME NEW r \in Requests \cup {Idle}, Unheard(r).st = "save"
      PROVE  r.st = "save" /\ Unheard(r).row = r.row /\ Unheard(r).op = r.op /\ Unheard(r).code = r.code
  BY <1>2 DEF Unheard, Requests, Idle
<1>3. \A s \in {"form", "login"} : Dropped(t)[s] = Unheard(ask[t][s]) /\ ask[t][s] \in Requests \cup {Idle}
  BY <1>1 DEF Dropped, BrowserOK, Waiting
<1>4. \A u \in Tabs : ask'[u] = IF u = t THEN w ELSE ask[u]
  BY DEF BrowserOK
<1>5. \A s \in {"form", "login"} : ask'[t][s] \in {Unheard(ask[t][s]), ask[t][s], Idle}
  BY <1>3, <1>4
<1>6. QED
  BY <1>2, <1>3, <1>4, <1>5, FreshRequests DEF Aside

LEMMA OperatorAside ==
  ASSUME SessionTypeOK, NEW t \in Tabs, Operator(t)
  PROVE  Aside
<1> USE DEF SessionTypeOK, server
<1>p. {"me", "poll", "form", "login"} \subseteq Slots
  BY DEF Slots
<1>1. ASSUME NEW page \in {"home", "password"}, Load(t, page) PROVE Aside
  <2> DEFINE p == Guard(token, NoMe, page)
             w == [Dropped(t) EXCEPT !["me"] = IF p = "login" THEN Idle ELSE Me]
  <2>1. ask' = [ask EXCEPT ![t] = w] /\ UNCHANGED <<admin, proved>>
    BY <1>1 DEF Load
  <2>2. \A s \in {"form", "login"} : w[s] = Dropped(t)[s]
    BY DEF Dropped
  <2> HIDE DEF w
  <2>3. QED
    BY <2>1, <2>2, DroppedIsAside
<1>2. CASE Go(t)
  <2> DEFINE r == IF Guard(token, tab[t].me, "home") = "login" THEN ask[t]["me"] ELSE Mounted(t)
  <2>1. ask' = [ask EXCEPT ![t]["me"] = r] /\ UNCHANGED <<admin, proved>>
    BY <1>2 DEF Go, BrowserOK, Waiting
  <2> HIDE DEF r
  <2>2. QED
    BY <1>p, <2>1, FreshIsAside
<1>3. CASE Logout(t)
  BY <1>3 DEF Logout, Aside
<1>4. CASE Focus(t)
  BY <1>4, <1>p, FreshIsAside DEF Focus
<1>5. ASSUME NEW n \in Names, NEW w \in Pws, NEW c \in (0..made) \cup Codes, SubmitLogin(t, n, w, c)
      PROVE  Aside
  BY <1>5, <1>p, FreshIsAside, FreshRequests DEF SubmitLogin
<1>6. ASSUME NEW f \in Forms, SubmitForm(t, f) PROVE Aside
  BY <1>6, <1>p, FreshIsAside, FreshRequests DEF SubmitForm
<1>7. QED
  BY <1>1, <1>2, <1>3, <1>4, <1>5, <1>6 DEF Operator

LEMMA AnswersAside ==
  ASSUME SessionTypeOK, NEW t \in Tabs, Answers(t) \/ Leave(t) \/ SaveFails(t) \/ Lost(t) \/ Poll(t) \/ ServeMe(t)
  PROVE  Aside
<1> USE FreshRequests DEF SessionTypeOK, server
<1>p. {"me", "poll", "form", "login"} \subseteq Slots
  BY DEF Slots
<1>r. \A s \in Slots : ask[t][s].st # "idle" => ask[t][s] \in Requests
  BY DEF BrowserOK, Waiting, Idle
<1>i. ASSUME NEW s \in Slots, ask' = [ask EXCEPT ![t][s] = Idle], UNCHANGED <<admin, proved>> PROVE Aside
  BY <1>i, FreshIsAside
<1>a. ASSUME NEW s \in Slots, NEW status, ask[t][s].st # "idle", Answer(t, s, status), UNCHANGED <<admin, proved>>
      PROVE  Aside
  <2> DEFINE r == Told(ask[t][s], status, FirstAdmin, 0)
  <2>1. ask' = [ask EXCEPT ![t][s] = r]
    BY <1>a DEF Answer, BrowserOK, Waiting
  <2>2. r.st # "save"
    BY <1>a, <1>r
  <2> HIDE DEF r
  <2>3. QED
    BY <1>a, <2>1, <2>2, FreshIsAside
<1>l. ASSUME LoadLogin(t), UNCHANGED <<admin, proved>> PROVE Aside
  BY <1>l, DroppedIsAside DEF LoadLogin
<1>f. ASSUME NEW w, \A s \in {"form", "login"} : w[s] \in {ask[t][s], Idle},
             UNCHANGED <<admin, proved>>, ask' = [ask EXCEPT ![t] = w]
      PROVE  Aside
  BY <1>f, DroppedIsAside
<1>g. \A s \in {"form", "login"} : Refetched(t)[s] \in {ask[t][s], Idle} /\ [ask[t] EXCEPT !["form"] = Idle][s] \in {ask[t][s], Idle}
  BY <1>p DEF Refetched, BrowserOK, Waiting
<1>1. ASSUME NEW s \in Slots, Forget(t, s) \/ Unauthorized(t, s) PROVE Aside
  <2>1. UNCHANGED <<admin, proved>> /\ (LoadLogin(t) \/ ask' = [ask EXCEPT ![t][s] = Idle])
    BY <1>1, Zenon DEF Forget, Unauthorized
  <2>2. QED
    BY <1>i, <1>l, <2>1
<1>2. CASE HearMe(t) \/ HearPoll(t) \/ HearRename(t) \/ HearRestore(t) \/ HearRefusal(t)
  <2>1. PICK s \in {"me", "poll", "form"} : ask' = [ask EXCEPT ![t][s] = Idle] /\ UNCHANGED <<admin, proved>>
    BY <1>2, Zenon DEF HearMe, HearPoll, HearRename, HearRestore, HearRefusal
  <2>2. QED
    BY <1>i, <1>p, <2>1
<1>3. CASE HearPassword(t)
  <2>1. UNCHANGED <<admin, proved>> /\ (ask' = [ask EXCEPT ![t] = Refetched(t)] \/ ask' = [ask EXCEPT ![t]["form"] = Idle])
    BY <1>3, Zenon DEF HearPassword
  <2>2. QED
    BY <1>f, <1>g, <1>i, <1>p, <2>1
<1>4. CASE HearTwoFA(t)
  <2>1. UNCHANGED <<admin, proved>> /\ (ask' = [ask EXCEPT ![t] = Refetched(t)] \/ ask' = [ask EXCEPT ![t] = [ask[t] EXCEPT !["form"] = Idle]])
    BY <1>4 DEF HearTwoFA, BrowserOK
  <2>2. QED
    BY <1>f, <1>g, <2>1
<1>5. CASE HearLogin(t)
  <2> DEFINE m == IF ask[t]["me"] = Idle THEN [Me EXCEPT !.tok = ask[t]["login"].got] ELSE ask[t]["me"]
  <2>1. UNCHANGED <<admin, proved>>
    BY <1>5 DEF HearLogin
  <2>2. \/ ask' = [ask EXCEPT ![t]["login"] = Idle]
        \/ ask' = [ask EXCEPT ![t] = [ask[t] EXCEPT !["login"] = Idle, !["me"] = m]]
    BY <1>5 DEF HearLogin, BrowserOK, Waiting, Slots
  <2> HIDE DEF m
  <2>3. \A s \in {"form", "login"} : [ask[t] EXCEPT !["login"] = Idle, !["me"] = m][s] \in {ask[t][s], Idle}
    BY <1>p DEF BrowserOK, Waiting
  <2>4. QED
    BY <1>f, <1>i, <1>p, <2>1, <2>2, <2>3
<1>6. CASE Leave(t)
  BY <1>6, <1>l DEF Leave
<1>7. CASE SaveFails(t) \/ Lost(t)
  BY <1>7, <1>a, <1>p DEF SaveFails, Lost
<1>8. CASE Poll(t)
  <2>1. PICK r : ask' = [ask EXCEPT ![t]["poll"] = r] /\ UNCHANGED <<admin, proved>>
    BY <1>8 DEF Poll
  <2>2. QED
    BY <1>p, <2>1, FreshIsAside
<1>9. CASE ServeMe(t)
  <2>1. PICK r : ask' = [ask EXCEPT ![t]["me"] = r] /\ UNCHANGED <<admin, proved>>
    BY <1>9 DEF ServeMe, BrowserOK, Waiting
  <2>2. QED
    BY <1>p, <2>1, FreshIsAside
<1>10. QED
  BY <1>1, <1>2, <1>3, <1>4, <1>5, <1>6, <1>7, <1>8, <1>9 DEF Answers

\* What a handler decides to save it saves with a proved secret.
LEMMA DecidedIsProved ==
  ASSUME ServiceOK, EnrolInv, NEW r \in Requests, r.op \in FormOps \ {"restore"}, Decide(r)[2].totp
  PROVE  Decide(r)[2].secret \in Proves(r)
<1>0. admin \in Rows /\ (admin.totp => admin.secret \in proved)
  BY DEF ServiceOK, EnrolInv, EnrolledWasProved
<1>k. admin.totp => admin.secret \in Proves(r)
  BY <1>0 DEF Proves
<1>1. CASE ~Known(r.tok)
  BY <1>k, <1>1 DEF Decide
<1>2. CASE Known(r.tok)
  <2>1. CASE r.op = "password"
    BY <1>0, <1>k, <1>2, <2>1 DEF Decide, ChangePassword, Rows
  <2>2. CASE r.op = "rename"
    BY <1>0, <1>k, <1>2, <2>2 DEF Decide, UpdateUsername, Rows
  <2>3. CASE r.op = "setup"
    BY <1>0, <1>k, <1>2, <2>3 DEF Decide, TwoFASetup, Rows
  <2>4. CASE r.op = "enable"
    <3>1. Decide(r) = TwoFAEnable(r.code)
      BY <1>2, <2>4 DEF Decide
    <3>2. CASE admin.pending = 0 \/ admin.pending # r.code
      BY <1>k, <3>1, <3>2 DEF TwoFAEnable
    <3>3. CASE ~(admin.pending = 0 \/ admin.pending # r.code)
      <4> DEFINE new == [admin EXCEPT !.secret = admin.pending, !.pending = 0, !.totp = TRUE, !.codes = Codes]
      <4>0. new.secret = admin.pending
        BY <1>0 DEF Rows
      <4>3. Decide(r) = <<200, new>>
        BY <3>1, <3>3 DEF TwoFAEnable
      <4> HIDE DEF new
      <4>1. Decide(r)[2].secret = r.code
        BY <3>3, <4>0, <4>3
      <4>2. QED
        BY <2>4, <4>1 DEF Proves
    <3>4. QED
      BY <3>2, <3>3
  <2>5. CASE r.op = "disable"
    BY <1>0, <1>k, <1>2, <2>5 DEF Decide, TwoFADisable, Rows
  <2>6. CASE r.op = "regen"
    BY <1>0, <1>k, <1>2, <2>6 DEF Decide, TwoFARegen, Rows
  <2>7. QED
    BY <2>1, <2>2, <2>3, <2>4, <2>5, <2>6 DEF FormOps
<1>3. QED
  BY <1>1, <1>2

\* The secret that a slot's row asks for is one that is proved by the end.
Grounded(r, known) == r.st = "save" /\ r.row.totp => r.row.secret \in known

\* One slot changes, nothing proved is forgotten, and both the row and what the
\* slot is about to save are grounded in what is proved.
LEMMA SlotKeeps ==
  ASSUME BrowserOK, EnrolInv, NEW t \in Tabs, NEW s \in {"form", "login"}, NEW r,
         ask' = [ask EXCEPT ![t][s] = r], proved \subseteq proved',
         admin'.totp => admin'.secret \in proved',
         s = "form" => Grounded(r, IF r.op = "enable" THEN proved' \cup {r.code} ELSE proved'),
         s = "login" => Grounded(r, proved')
  PROVE  EnrolInv'
<1>1. {"form", "login"} \subseteq Slots
  BY DEF Slots
<1>2. \A u \in Tabs, v \in {"form", "login"} : ask'[u][v] = IF u = t /\ v = s THEN r ELSE ask[u][v]
  BY <1>1 DEF BrowserOK, Waiting
<1>3. ASSUME NEW u \in Tabs, ask'[u]["form"].st = "save", ask'[u]["form"].row.totp
      PROVE  ask'[u]["form"].row.secret \in (Proves(ask[u]["form"]))'
  <2>1. CASE u = t /\ s = "form"
    BY <1>2, <1>3, <2>1 DEF Grounded, Proves
  <2>2. CASE ~(u = t /\ s = "form")
    <3>1. ask'[u]["form"] = ask[u]["form"]
      BY <1>2, <2>2
    <3>2. ask[u]["form"].row.secret \in Proves(ask[u]["form"])
      BY <1>3, <3>1 DEF EnrolInv
    <3>3. QED
      BY <3>1, <3>2 DEF Proves
  <2>3. QED
    BY <2>1, <2>2
<1>4. ASSUME NEW u \in Tabs, ask'[u]["login"].st = "save", ask'[u]["login"].row.totp
      PROVE  ask'[u]["login"].row.secret \in proved'
  <2>1. CASE u = t /\ s = "login"
    BY <1>2, <1>4, <2>1 DEF Grounded
  <2>2. CASE ~(u = t /\ s = "login")
    <3>1. ask'[u]["login"] = ask[u]["login"]
      BY <1>2, <2>2
    <3>2. ask[u]["login"].row.secret \in proved
      BY <1>4, <3>1 DEF EnrolInv
    <3>3. QED
      BY <3>1, <3>2
  <2>3. QED
    BY <2>1, <2>2
<1>5. QED
  BY <1>3, <1>4 DEF EnrolInv, EnrolledWasProved

LEMMA ServiceKeeps ==
  ASSUME SessionTypeOK, EnrolInv, NEW t \in Tabs, Service(t)
  PROVE  EnrolInv'
<1> USE DEF SessionTypeOK
<1>f. {"form", "login"} \subseteq Slots
  BY DEF Slots
<1>r. \A s \in Slots : ask[t][s].st \in {"sent", "save"} => ask[t][s] \in Requests
  BY DEF BrowserOK, Waiting, Idle
<1>o. ask[t]["form"].st \in {"sent", "save"} => ask[t]["form"].op \in FormOps
  BY DEF BrowserOK, Idle
<1>e. admin.totp => admin.secret \in proved
  BY DEF EnrolInv, EnrolledWasProved
<1>a. ASSUME NEW s \in {"form", "login"}, NEW r, r.st # "save", ask' = [ask EXCEPT ![t][s] = r],
             UNCHANGED <<admin, proved>>
      PROVE  EnrolInv'
  BY <1>a, <1>f, FreshIsAside, AsideKeeps
<1>t. ASSUME NEW s \in {"form", "login"}, NEW status, NEW row, NEW got, ask[t][s] \in Requests,
             ask' = [ask EXCEPT ![t][s] = Told(@, status, row, got)]
      PROVE  /\ ask' = [ask EXCEPT ![t][s] = Told(ask[t][s], status, row, got)]
             /\ Told(ask[t][s], status, row, got).st # "save"
  BY <1>f, <1>t, FreshRequests DEF BrowserOK, Waiting
<1>k. ASSUME NEW s \in {"form", "login"}, NEW row, Keep(t, s, row)
      PROVE  ask' = [ask EXCEPT ![t][s] = Saving(ask[t][s], row)]
  BY <1>f, <1>k DEF Keep, Saving, BrowserOK, Waiting
<1>1. CASE ServeMe(t)
  BY <1>1, AnswersAside, AsideKeeps
<1>2. CASE ServeForm(t)
  <2> DEFINE r == ask[t]["form"]
             d == Decide(r)
  <2>1. r \in Requests /\ r.op \in FormOps
    BY <1>2, <1>f, <1>o, <1>r DEF ServeForm
  <2>2. UNCHANGED <<admin, proved>>
    BY <1>2 DEF ServeForm
  <2>3. ASSUME NEW status, Answer(t, "form", status) PROVE EnrolInv'
    BY <1>a, <1>t, <2>1, <2>2, <2>3 DEF Answer
  <2>4. CASE r.op = "restore"
    BY <1>2, <2>3, <2>4 DEF ServeForm
  <2>5. CASE r.op # "restore"
    <3> DEFINE new == Saving(r, d[2])
    <3>1. (\E status : Answer(t, "form", status)) \/ Keep(t, "form", d[2])
      BY <1>2, <2>5, Zenon DEF ServeForm
    <3>2. ASSUME Keep(t, "form", d[2]) PROVE EnrolInv'
      <4>1. ask' = [ask EXCEPT ![t]["form"] = new]
        BY <1>k, <3>2
      <4>2. new.st = "save" /\ new.row = d[2] /\ new.op = r.op /\ new.code = r.code
        BY <2>1 DEF Saving, Requests
      <4>3. d[2].totp => d[2].secret \in Proves(r)
        BY <2>1, <2>5, DecidedIsProved
      <4>4. Grounded(new, IF new.op = "enable" THEN proved' \cup {new.code} ELSE proved')
        BY <2>2, <4>2, <4>3 DEF Grounded, Proves
      <4> HIDE DEF new, d, r
      <4>5. QED
        BY <1>e, <2>2, <4>1, <4>4, SlotKeeps
    <3>3. QED
      BY <2>3, <3>1, <3>2
  <2>6. QED
    BY <2>4, <2>5
<1>3. CASE ServeLogin(t)
  <2> DEFINE r == ask[t]["login"]
             row == [admin EXCEPT !.codes = @ \ {r.code}]
             new == Saving(r, row)
  <2>1. r \in Requests
    BY <1>3, <1>f, <1>r DEF ServeLogin
  <2>2. UNCHANGED <<admin, proved>>
    BY <1>3 DEF ServeLogin
  <2>3. \/ \E status, w, got : ask' = [ask EXCEPT ![t]["login"] = Told(@, status, w, got)]
        \/ Keep(t, "login", row)
    BY <1>3 DEF ServeLogin, Answer
  <2>4. ASSUME Keep(t, "login", row) PROVE EnrolInv'
    <3>1. ask' = [ask EXCEPT ![t]["login"] = new]
      BY <1>k, <2>4
    <3>2. new.st = "save" /\ new.row = row
      BY <2>1 DEF Saving, Requests
    <3>3. row.totp = admin.totp /\ row.secret = admin.secret
      BY DEF ServiceOK, Rows
    <3>4. Grounded(new, proved')
      BY <1>e, <2>2, <3>2, <3>3 DEF Grounded
    <3> HIDE DEF new, row, r
    <3>5. QED
      BY <1>e, <2>2, <3>1, <3>4, SlotKeeps
  <2>5. ASSUME NEW status, NEW w, NEW got, ask' = [ask EXCEPT ![t]["login"] = Told(@, status, w, got)]
        PROVE  EnrolInv'
    BY <1>a, <1>t, <2>1, <2>2, <2>5
  <2>6. QED
    BY <2>3, <2>4, <2>5
<1>4. CASE SaveForm(t)
  <2> DEFINE r == ask[t]["form"]
             shown == IF r.op = "setup" THEN r.row ELSE FirstAdmin
             ok == 200
             none == 0
             new == Told(r, ok, shown, none)
  <2>1. r \in Requests /\ r.st = "save"
    BY <1>4, <1>f, <1>r DEF SaveForm
  <2>2. admin' = r.row /\ proved' = IF r.op = "enable" THEN proved \cup {r.code} ELSE proved
    BY <1>4 DEF SaveForm, UpdateAdmin
  <2>8. ask' = [ask EXCEPT ![t]["form"] = Told(@, ok, shown, none)]
    BY <1>4 DEF SaveForm
  <2>3. ask' = [ask EXCEPT ![t]["form"] = new] /\ new.st # "save"
    <3> HIDE DEF shown, ok, none
    <3>1. ask' = [ask EXCEPT ![t]["form"] = Told(r, ok, shown, none)]
      BY <1>f, <2>8 DEF BrowserOK, Waiting
    <3>2. Told(r, ok, shown, none).st # "save"
      BY <2>1, FreshRequests
    <3>3. QED
      BY <3>1, <3>2
  <2>4. admin'.totp => admin'.secret \in proved'
    BY <2>1, <2>2 DEF EnrolInv, Proves
  <2>5. Grounded(new, IF new.op = "enable" THEN proved' \cup {new.code} ELSE proved')
    BY <2>3 DEF Grounded
  <2>6. proved \subseteq proved'
    BY <2>2
  <2> HIDE DEF new
  <2>7. QED
    BY <2>3, <2>4, <2>5, <2>6, SlotKeeps
<1>5. CASE SaveLogin(t)
  <2> DEFINE r == ask[t]["login"]
             next == Len(toks) + 1
             ok == 200
             new == Told(r, ok, FirstAdmin, next)
  <2>1. r \in Requests /\ r.st = "save"
    BY <1>5, <1>f, <1>r DEF SaveLogin
  <2>2. (admin' = r.row \/ admin' = admin) /\ proved' = proved
    BY <1>5 DEF SaveLogin, UpdateAdmin
  <2>8. ask' = [ask EXCEPT ![t]["login"] = Told(@, ok, FirstAdmin, next)]
    BY <1>5 DEF SaveLogin
  <2>3. ask' = [ask EXCEPT ![t]["login"] = new] /\ new.st # "save"
    <3> HIDE DEF next, ok
    <3>1. ask' = [ask EXCEPT ![t]["login"] = Told(r, ok, FirstAdmin, next)]
      BY <1>f, <2>8 DEF BrowserOK, Waiting
    <3>2. Told(r, ok, FirstAdmin, next).st # "save"
      BY <2>1, FreshRequests
    <3>3. QED
      BY <3>1, <3>2
  <2>4. admin'.totp => admin'.secret \in proved'
    BY <1>e, <2>1, <2>2 DEF EnrolInv
  <2>5. Grounded(new, proved')
    BY <2>3 DEF Grounded
  <2> HIDE DEF new
  <2>7. QED
    BY <2>2, <2>3, <2>4, <2>5, SlotKeeps
<1>6. QED
  BY <1>1, <1>2, <1>3, <1>4, <1>5 DEF Service

LEMMA OutsideKeeps ==
  ASSUME SessionTypeOK, EnrolInv, Boot \/ \E i \in DOMAIN toks : Expire(i)
  PROVE  EnrolInv'
<1>1. CASE Boot
  <2>1. \A u \in Tabs, s \in {"form", "login"} : ask'[u][s].st # "save"
    <3>1. \A u \in Tabs, s \in Slots : ask[u][s] \in Requests \cup {Idle}
      BY DEF SessionTypeOK, BrowserOK, Waiting
    <3>2. {"form", "login"} \subseteq Slots
      BY DEF Slots
    <3>3. \A r \in Requests \cup {Idle} : r.st \in {"sent", "save"} => r \in Requests
      BY DEF Idle
    <3>4. \A u \in Tabs, s \in Slots : ask'[u][s] = IF ask[u][s].st \in {"sent", "save"}
                                                   THEN Told(ask[u][s], 0, FirstAdmin, 0) ELSE ask[u][s]
      BY <1>1 DEF Boot
    <3>5. QED
      BY <3>1, <3>2, <3>3, <3>4, FreshRequests
  <2>2. admin' = FirstAdmin
    BY <1>1 DEF Boot
  <2>3. QED
    BY <2>1, <2>2, FirstFits DEF EnrolInv, EnrolledWasProved
<1>2. ASSUME NEW i \in DOMAIN toks, Expire(i) PROVE EnrolInv'
  <2>1. UNCHANGED <<admin, proved, ask>>
    BY <1>2 DEF Expire
  <2>2. QED
    BY <2>1, AsideKeeps DEF Aside
<1>3. QED
  BY <1>1, <1>2

\* Every step that the specification allows keeps the rows on their way proved.
LEMMA EnrolStep == SessionTypeOK /\ EnrolInv /\ [Next]_vars => EnrolInv'
<1>1. ASSUME SessionTypeOK, EnrolInv, UNCHANGED vars PROVE EnrolInv'
  BY <1>1, AsideKeeps DEF vars, server, Aside
<1>2. ASSUME SessionTypeOK, EnrolInv, NEW t \in Tabs,
             Operator(t) \/ Answers(t) \/ SaveFails(t) \/ Lost(t) \/ Leave(t) \/ Poll(t)
      PROVE  EnrolInv'
  BY <1>2, AnswersAside, AsideKeeps, OperatorAside
<1>3. QED
  BY <1>1, <1>2, OutsideKeeps, ServiceKeeps DEF Next

LEMMA FilledFits ==
  ASSUME NEW w \in Shows, NEW me \in Mes, NEW n \in Nat
  PROVE  [w EXCEPT !.me = me, !.shown = n] \in Shows
BY DEF Shows

LEMMA SessionStarts == Init => SessionTypeOK /\ EnrolInv
<1> SUFFICES ASSUME Init PROVE SessionTypeOK /\ EnrolInv
  OBVIOUS
<1>1. PICK must \in BOOLEAN, in \in BOOLEAN, on \in BOOLEAN, begun \in {{}} \cup {{t} : t \in Tabs} :
    /\ begun # {} => in /\ ~must /\ ~on
    /\ on => ~must
    /\ made = IF on \/ begun # {} THEN 1 ELSE 0
    /\ admin = [FirstAdmin EXCEPT !.must = must, !.totp = on,
                   !.pending = IF on THEN 0 ELSE made, !.secret = IF on THEN 1 ELSE 0,
                   !.codes = IF on THEN Codes ELSE {}]
    /\ key = 0 /\ staged = FALSE
    /\ toks = <<[name |-> FirstAdmin.name, key |-> 0, live |-> TRUE]>>
    /\ token = IF in THEN 1 ELSE 0
    /\ LET me == IF in THEN MeOf(admin) ELSE NoMe IN
         tab = [t \in Tabs |-> [Blank(Guard(token, me, "home")) EXCEPT
                                 !.me = me, !.shown = IF t \in begun THEN 1 ELSE 0]]
    /\ ask = [t \in Tabs |-> [s \in Slots |-> Idle]]
    /\ proved = (IF on THEN {1} ELSE {})
    /\ moves = 0 /\ faults = 0
  BY Zenon DEF Init
<1>a. made \in {0, 1} /\ key = 0 /\ token \in {0, 1} /\ proved \subseteq {1}
  BY <1>1
<1>b. toks = <<[name |-> FirstAdmin.name, key |-> 0, live |-> TRUE]>>
  BY <1>1
<1>c. staged = FALSE
  BY <1>1
<1>d. moves = 0 /\ faults = 0
  BY <1>1
<1>e. on => proved = {1}
  BY <1>1
<1>2. admin \in Rows /\ admin.totp = on /\ admin.secret = IF on THEN 1 ELSE 0
  BY <1>1, FirstFits DEF Rows
<1>3. toks \in Seq(Issues)
  <2>1. [name |-> FirstAdmin.name, key |-> 0, live |-> TRUE] \in Issues
    BY FirstFits DEF Issues
  <2>2. QED
    BY <1>b, <2>1
<1>4. staged \in BOOLEAN
  BY <1>c
<1>5. ServiceOK
  <2>1. made \in Nat /\ key \in {0, 1} /\ proved \subseteq Typed
    BY <1>a DEF Typed
  <2>2. QED
    BY <1>2, <1>3, <1>4, <2>1 DEF ServiceOK
<1>6. tab \in [Tabs -> Shows]
  <2> DEFINE me == IF in THEN MeOf(admin) ELSE NoMe
             p  == Guard(token, me, "home")
  <2>1. me \in Mes
    BY <1>2 DEF MeOf, NoMe, Mes, Rows
  <2>2. Blank(p) \in Shows
    BY PageFits DEF Pages
  <2> HIDE DEF me, p
  <2>3. \A n \in {0, 1} : [Blank(p) EXCEPT !.me = me, !.shown = n] \in Shows
    BY <2>1, <2>2, FilledFits
  <2>4. tab = [t \in Tabs |-> [Blank(p) EXCEPT !.me = me, !.shown = IF t \in begun THEN 1 ELSE 0]]
    BY <1>1 DEF me, p
  <2>5. QED
    BY <2>3, <2>4
<1>7. BrowserOK
  <2>1. token \in Nat
    BY <1>a
  <2>2. ask \in [Tabs -> Waiting]
    BY <1>1 DEF Waiting
  <2>3. \A t \in Tabs : ask[t]["form"] = Idle
    BY <1>1 DEF Slots
  <2>4. QED
    BY <1>6, <2>1, <2>2, <2>3 DEF BrowserOK
<1>8. BoundsOK
  BY <1>d, SessionAssumption DEF SessionAssumption, BoundsOK
<1>9. EnrolInv
  <2>1. EnrolledWasProved
    BY <1>2, <1>e DEF EnrolledWasProved
  <2>2. \A t \in Tabs, s \in {"form", "login"} : ask[t][s].st # "save"
    BY <1>1 DEF Slots, Idle
  <2>3. QED
    BY <2>1, <2>2 DEF EnrolInv
<1>10. QED
  BY <1>5, <1>7, <1>8, <1>9 DEF SessionTypeOK

\* The row, the tokens, the tabs and the requests are of their types in every
\* state: a request that a tab has abandoned, or that a restart has dropped,
\* never leaves a slot without a shape.
THEOREM SessionTypes == Spec => []SessionTypeOK
<1>1. QED
  BY SessionStarts, SessionStepTypes, PTL DEF Spec

\* The second factor in force is one that the operator has shown a code of,
\* for any number of tabs, forms and secrets and however their handlers overlap
\* (TwoFASetup, TwoFAEnable, TwoFADisable, UpdateAdmin).
THEOREM EnrolmentIsProved == Spec => []EnrolledWasProved
<1>1. EnrolInv => EnrolledWasProved
  BY DEF EnrolInv
<1>2. QED
  BY <1>1, SessionStarts, SessionStepTypes, EnrolStep, PTL DEF Spec

(***************************************************************************)
(* Audit                                                                   *)
(***************************************************************************)
\* The service's type is kept by every step.
THEOREM AuditTypes == A!Spec => []A!TypeOK
<1>1. A!Init => A!TypeOK
  BY DEF A!Init, A!TypeOK, A!Reply, A!ListOf, A!ActorsOf, A!NoAnswer, A!Quiet, A!NoOp, A!NoPut, A!Rec, A!Answer,
         A!Actors, A!Views, A!Keys
<1>2. A!TypeOK /\ [A!Next]_(A!vars) => A!TypeOK'
  <2> SUFFICES ASSUME A!TypeOK, [A!Next]_(A!vars) PROVE A!TypeOK'
    OBVIOUS
  <2> USE DEF A!TypeOK, A!server, A!client
  <2>w. ASSUME NEW k \in {"op", "on", "off"}, NEW a \in A!Actors
        PROVE  A!Row(k, a) \in A!Rec
    BY DEF A!Row, A!Rec
  <2>x. ASSUME NEW k \in {"op", "on", "off"}, NEW a \in A!Actors, A!Write(A!Row(k, a))
        PROVE  /\ log' \subseteq A!Rec /\ nextId' \in Nat
               /\ marks' \subseteq {"wiped", "lost", "raced", "unsaved"}
    <3>1. CASE log' = log \cup {A!Row(k, a)} /\ nextId' = nextId + 1 /\ marks' = marks
      BY <2>w, <3>1
    <3>2. CASE marks' = marks \cup {"lost"} /\ log' = log /\ nextId' = nextId
      BY <3>2
    <3>3. QED
      BY <2>x, <3>1, <3>2 DEF A!Write
  <2>o. ASSUME NEW on, \A a \in A!Actors : on[a] \in BOOLEAN, A!Seen(on)
        PROVE  hand' \in [A!Actors -> [st : {"none", "did", "write"}, was : BOOLEAN]]
    <3>1. ASSUME NEW a \in A!Actors
          PROVE  [hand[a] EXCEPT !.was = @ \/ (hand[a].st = "did" /\ on[a])]
                     \in [st : {"none", "did", "write"}, was : BOOLEAN]
      <4>1. hand[a] \in [st : {"none", "did", "write"}, was : BOOLEAN]
        OBVIOUS
      <4>2. (hand[a].was \/ (hand[a].st = "did" /\ on[a])) \in BOOLEAN
        BY <2>o
      <4>3. QED
        BY <4>1, <4>2
    <3>2. QED
      BY <3>1, <2>o DEF A!Seen
  <2>r. ASSUME NEW k \in A!Keys PROVE A!Reply(k) \in A!Answer
    BY DEF A!Reply, A!ListOf, A!ActorsOf, A!Answer, A!Rec
  <2>s. A!Sent \in [st : {"idle", "sent", "done"}, got : A!Answer]
    BY DEF A!Sent, A!NoAnswer, A!Answer
  <2>f. ASSUME NEW p \in Viewers, NEW k \in A!Keys
        PROVE  /\ A!Mounted(p, k) \in [st : {"idle", "sent", "done"}, got : A!Answer]
               /\ A!Fresh(p, k) \in [st : {"idle", "sent", "done"}, got : A!Answer]
    BY <2>s DEF A!Mounted, A!Fresh
  <2>p. ASSUME NEW p \in Viewers, NEW st \in {"save", "ok", "err"}, A!PutStep(p, st)
        PROVE  put' \in [Viewers -> [st : {"idle", "sent", "store", "save", "ok", "err"},
                                     on : BOOLEAN]]
    BY <2>p DEF A!PutStep
  <2>v. A!Views \subseteq A!Keys /\ "config" \in A!Keys /\ "actors" \in A!Keys /\ "panel" \in A!Actors
    BY DEF A!Views, A!Keys, A!Actors
  <2>1. CASE A!Restart
    BY <2>1 DEF A!Restart, A!NoOp
  <2>2. ASSUME NEW a \in A!Actors, A!Did(a) PROVE A!TypeOK'
    BY <2>2 DEF A!Did, A!Switch
  <2>3. ASSUME NEW a \in A!Actors, A!Test(a) PROVE A!TypeOK'
    <3>1. [hand[a] EXCEPT !.st = "write"] \in [st : {"none", "did", "write"}, was : BOOLEAN]
      <4>1. hand[a] \in [st : {"none", "did", "write"}, was : BOOLEAN]
        OBVIOUS
      <4>2. QED
        BY <4>1
    <3>2. A!NoOp \in [st : {"none", "did", "write"}, was : BOOLEAN]
      BY DEF A!NoOp
    <3>3. hand' \in [A!Actors -> [st : {"none", "did", "write"}, was : BOOLEAN]]
      BY <2>3, <3>1, <3>2 DEF A!Test
    <3>4. QED
      BY <2>3, <3>3 DEF A!Test
  <2>4. ASSUME NEW a \in A!Actors, A!WriteAudit(a) PROVE A!TypeOK'
    <3>1. A!Write(A!Row("op", a)) => log' \subseteq A!Rec /\ nextId' \in Nat
                                     /\ marks' \subseteq {"wiped", "lost", "raced", "unsaved"}
      BY <2>x
    <3>2. hand' \in [A!Actors -> [st : {"none", "did", "write"}, was : BOOLEAN]]
      BY <2>4 DEF A!WriteAudit, A!NoOp
    <3>3. QED
      BY <2>4, <3>1, <3>2 DEF A!WriteAudit
  <2>5. ASSUME NEW p \in Viewers, A!Record(p) PROVE A!TypeOK'
    <3>1. PICK k \in {"op", "on", "off"} : A!Write(A!Row(k, "panel"))
      BY <2>5 DEF A!Record
    <3>2. log' \subseteq A!Rec /\ nextId' \in Nat
          /\ marks' \subseteq {"wiped", "lost", "raced", "unsaved"}
      BY <2>x, <3>1, <2>v
    <3>3. put' \in [Viewers -> [st : {"idle", "sent", "store", "save", "ok", "err"}, on : BOOLEAN]]
      BY <2>5 DEF A!Record, A!PutStep
    <3>4. QED
      BY <2>5, <3>2, <3>3 DEF A!Record
  <2>6. ASSUME NEW p \in Viewers, A!Store(p) PROVE A!TypeOK'
    <3>1. \A a \in A!Actors : A!Switches(put[p].on, setting)[a] \in BOOLEAN
      BY DEF A!Switches
    <3>2. hand' \in [A!Actors -> [st : {"none", "did", "write"}, was : BOOLEAN]]
      BY <2>6, <3>1, <2>o DEF A!Store
    <3>3. QED
      <4>1. put' \in [Viewers -> [st : {"idle", "sent", "store", "save", "ok", "err"},
                                    on : BOOLEAN]]
        BY <2>6, <2>p DEF A!Store
      <4>2. enabled' \in BOOLEAN /\ lastPut' \in Viewers \cup {"none"}
        BY <2>6 DEF A!Store
      <4>3. QED
        BY <2>6, <3>2, <4>1, <4>2 DEF A!Store
  <2>7. ASSUME NEW p \in Viewers, A!Save(p) PROVE A!TypeOK'
    <3>1. \A a \in A!Actors : A!Switches(enabled, put[p].on)[a] \in BOOLEAN
      BY DEF A!Switches
    <3>2. hand' \in [A!Actors -> [st : {"none", "did", "write"}, was : BOOLEAN]]
      BY <2>7, <3>1, <2>o DEF A!Save
    <3>3. put' \in [Viewers -> [st : {"idle", "sent", "store", "save", "ok", "err"},
                                  on : BOOLEAN]]
      BY <2>7, <2>p DEF A!Save
    <3>4. setting' \in BOOLEAN /\ marks' \subseteq {"wiped", "lost", "raced", "unsaved"}
      BY <2>7 DEF A!Save
    <3>5. QED
      BY <2>7, <3>2, <3>3, <3>4 DEF A!Save
  <2>8. ASSUME NEW p \in Viewers, A!Toggled(p) PROVE A!TypeOK'
    BY <2>8, <2>f, <2>v DEF A!Toggled, A!NoPut
  <2>9. ASSUME NEW p \in Viewers, A!Toggle(p) PROVE A!TypeOK'
    BY <2>9 DEF A!Toggle, A!Checked, A!Keys, A!Answer
  <2>10. ASSUME NEW p \in Viewers, A!Refresh(p) PROVE A!TypeOK'
    BY <2>10, <2>s, <2>v DEF A!Refresh
  <2>11. ASSUME NEW p \in Viewers, A!ConfirmClear(p) PROVE A!TypeOK'
    BY <2>11 DEF A!ConfirmClear
  <2>12. ASSUME NEW p \in Viewers, A!ClearAudit(p) PROVE A!TypeOK'
    BY <2>12 DEF A!ClearAudit
  <2>13. ASSUME NEW p \in Viewers, A!Cleared(p) PROVE A!TypeOK'
    <3>1. CASE clr[p] = "ok"
      <4>1. /\ A!Fresh(p, filter[p]) \in [st : {"idle", "sent", "done"}, got : A!Answer]
            /\ A!Fresh(p, "actors") \in [st : {"idle", "sent", "done"}, got : A!Answer]
        BY <2>f, <2>v
      <4>2. lookups' \in [Viewers -> [A!Keys -> [st : {"idle", "sent", "done"}, got : A!Answer]]]
        <5> DEFINE T == [st : {"idle", "sent", "done"}, got : A!Answer]
                   mid == [lookups EXCEPT ![p][filter[p]] = A!Fresh(p, filter[p])]
        <5>1. mid \in [Viewers -> [A!Keys -> T]]
          BY <4>1, <2>v
        <5>2. lookups' = [mid EXCEPT ![p]["actors"] = A!Fresh(p, "actors")]
          BY <2>13, <3>1 DEF A!Cleared
        <5> HIDE DEF mid, T
        <5>3. QED
          BY <5>1, <5>2, <4>1, <2>v DEF T
      <4>3. cleared' \in [Viewers -> Nat] /\ clr' \in [Viewers -> {"idle", "sent", "ok", "err"}]
        BY <2>13, <3>1 DEF A!Cleared
      <4>4. QED
        BY <2>13, <4>2, <4>3 DEF A!Cleared
    <3>2. CASE clr[p] # "ok"
      BY <2>13, <3>2 DEF A!Cleared
    <3>3. QED
      BY <3>1, <3>2
  <2>14. ASSUME NEW p \in Viewers, NEW v \in A!Views, A!Choose(p, v) PROVE A!TypeOK'
    BY <2>14, <2>f, <2>v DEF A!Choose
  <2>15. ASSUME NEW p \in Viewers, NEW k \in A!Keys, A!Serve(p, k) PROVE A!TypeOK'
    BY <2>15, <2>r DEF A!Serve
  <2>16. ASSUME NEW p \in Viewers, NEW k \in A!Keys, A!Deliver(p, k) PROVE A!TypeOK'
    BY <2>16 DEF A!Deliver, A!Quiet, A!NoAnswer, A!Answer
  <2>17. CASE UNCHANGED A!vars
    BY <2>17 DEF A!vars
  <2>18. QED
    BY <2>1, <2>2, <2>3, <2>4, <2>5, <2>6, <2>7, <2>8, <2>9, <2>10, <2>11, <2>12, <2>13,
       <2>14, <2>15, <2>16, <2>17 DEF A!Next, A!Puts
<1>3. QED
  BY <1>1, <1>2, PTL DEF A!Spec

(***************************************************************************)
(* The record                                                              *)
(***************************************************************************)
OffSeen == (\E r \in log : r.kind = "off") \/ marks \cap {"wiped", "lost"} # {}

\* A toggle that may still be stored or saved has left its row.
RecordInv ==
  /\ A!SilenceIsOnRecord
  /\ \A p \in Viewers : put[p].st \in {"store", "save"} /\ ~put[p].on => OffSeen

\* Nothing but a clear and a failed row makes a switched-off record silent about it.
THEOREM RecordSpeaks == A!Spec => []A!SilenceIsOnRecord
<1>1. A!Init => RecordInv
  <2> SUFFICES ASSUME A!Init PROVE RecordInv
    OBVIOUS
  <2>1. ~enabled => \E r \in log : r.kind = "off"
    BY DEF A!Init
  <2>2. setting = enabled /\ \A p \in Viewers : put[p].st = "idle"
    BY DEF A!Init, A!NoPut
  <2>3. QED
    BY <2>1, <2>2 DEF RecordInv, A!SilenceIsOnRecord
<1>2. A!TypeOK /\ RecordInv /\ [A!Next]_(A!vars) => RecordInv'
  <2> SUFFICES ASSUME A!TypeOK, RecordInv, [A!Next]_(A!vars) PROVE RecordInv'
    OBVIOUS
  <2> USE DEF RecordInv, A!SilenceIsOnRecord, A!server, A!client
  <2>l. ASSUME log' = log \/ (\E r : log' = log \cup {r}), marks \subseteq marks', OffSeen
        PROVE  OffSeen'
    BY <2>l DEF OffSeen
  <2>k. ASSUME OffSeen' <=> OffSeen, enabled' = enabled, setting' = setting, put' = put
        PROVE  RecordInv'
    BY <2>k DEF OffSeen
  <2>1. CASE A!Restart
    <3>1. OffSeen' <=> OffSeen
      BY <2>1 DEF A!Restart, OffSeen
    <3>2. \A p \in Viewers : put'[p].st \in {"store", "save"} => FALSE
      BY <2>1 DEF A!Restart, A!TypeOK
    <3>3. QED
      BY <2>1, <3>1, <3>2 DEF A!Restart, OffSeen
  <2>2. ASSUME NEW a \in A!Actors, A!Did(a) \/ A!Test(a) PROVE RecordInv'
    BY <2>2, <2>k DEF A!Did, A!Test, OffSeen
  <2>3. ASSUME NEW a \in A!Actors, A!WriteAudit(a) PROVE RecordInv'
    <3>1. OffSeen => OffSeen'
      BY <2>3, <2>l DEF A!WriteAudit, A!Write
    <3>2. QED
      BY <2>3, <3>1 DEF A!WriteAudit, OffSeen
  <2>4. ASSUME NEW p \in Viewers, A!Record(p) PROVE RecordInv'
    <3>1. OffSeen => OffSeen'
      BY <2>4, <2>l DEF A!Record, A!Write
    <3>2. ~put[p].on => OffSeen'
      <4>1. ~put[p].on => A!Write(A!Row("off", "panel"))
        BY <2>4 DEF A!Record
      <4>2. A!Row("off", "panel").kind = "off"
        BY DEF A!Row
      <4>3. QED
        BY <4>1, <4>2 DEF A!Write, OffSeen
    <3>3. \A q \in Viewers : put'[q].on = put[q].on /\ (q # p => put'[q].st = put[q].st)
      BY <2>4 DEF A!Record, A!PutStep, A!TypeOK
    <3>4. QED
      BY <2>4, <3>1, <3>2, <3>3 DEF A!Record, OffSeen
  <2>5. ASSUME NEW p \in Viewers, A!Store(p) \/ A!Save(p) PROVE RecordInv'
    <3>1. OffSeen => OffSeen'
      BY <2>5, <2>l DEF A!Store, A!Save
    <3>2. \A q \in Viewers : put'[q].on = put[q].on /\ (q # p => put'[q].st = put[q].st)
      BY <2>5 DEF A!Store, A!Save, A!PutStep, A!TypeOK
    <3>3. put[p].st \in {"store", "save"}
      BY <2>5 DEF A!Store, A!Save
    <3>4. enabled' \in {enabled, put[p].on} /\ setting' \in {setting, put[p].on}
      BY <2>5 DEF A!Store, A!Save
    <3>5. QED
      <4>1. ~enabled' \/ ~setting' => OffSeen
        BY <3>3, <3>4 DEF OffSeen
      <4>2. \A q \in Viewers : put'[q].st \in {"store", "save"} /\ ~put'[q].on => OffSeen
        BY <3>2, <3>3
      <4>3. QED
        BY <3>1, <4>1, <4>2 DEF OffSeen
  <2>6. ASSUME NEW p \in Viewers, A!Toggle(p) \/ A!Toggled(p) PROVE RecordInv'
    <3>1. OffSeen => OffSeen'
      BY <2>6, <2>l DEF A!Toggle, A!Toggled
    <3>2. \A q \in Viewers : put'[q] = put[q] \/ put'[q].st \in {"idle", "sent"}
      BY <2>6 DEF A!Toggle, A!Toggled, A!NoPut, A!TypeOK
    <3>3. enabled' = enabled /\ setting' = setting
      BY <2>6 DEF A!Toggle, A!Toggled
    <3>4. QED
      BY <3>1, <3>2, <3>3 DEF OffSeen
  <2>7. ASSUME NEW p \in Viewers, A!ClearAudit(p) PROVE RecordInv'
    BY <2>7 DEF A!ClearAudit, OffSeen
  <2>8. ASSUME NEW p \in Viewers,
               A!Refresh(p) \/ A!ConfirmClear(p) \/ A!Cleared(p) \/ (\E v \in A!Views : A!Choose(p, v))
               \/ (\E k \in A!Keys : A!Serve(p, k) \/ A!Deliver(p, k))
        PROVE  RecordInv'
    BY <2>8, <2>k DEF A!Refresh, A!ConfirmClear, A!Cleared, A!Choose, A!Serve, A!Deliver, OffSeen
  <2>9. CASE UNCHANGED A!vars
    BY <2>9, <2>k DEF A!vars, OffSeen
  <2>10. QED
    BY <2>1, <2>2, <2>3, <2>4, <2>5, <2>6, <2>7, <2>8, <2>9 DEF A!Next, A!Puts
<1>3. RecordInv => A!SilenceIsOnRecord
  BY DEF RecordInv
<1>4. QED
  BY <1>1, <1>2, <1>3, AuditTypes, PTL DEF A!Spec

\* An operation about to test its switch has seen it on if it is on.
OpInv ==
  \A a \in A!Actors : /\ hand[a].st = "write" => hand[a].was
                      /\ hand[a].st = "did" /\ A!Switch(a) => hand[a].was

\* No operation that found its switch off from beginning to end leaves a row.
THEOREM OffMeansOff == A!Spec => []A!NothingBackfilled
<1>1. A!Init => OpInv
  BY DEF A!Init, OpInv, A!NoOp
<1>2. A!TypeOK /\ OpInv /\ [A!Next]_(A!vars) => OpInv'
  <2> SUFFICES ASSUME A!TypeOK, OpInv, [A!Next]_(A!vars) PROVE OpInv'
    OBVIOUS
  <2> USE DEF OpInv, A!server, A!client, A!Switch
  <2>k. ASSUME hand' = hand, enabled' = enabled, setting' = setting PROVE OpInv'
    BY <2>k
  <2>1. CASE A!Restart
    BY <2>1 DEF A!Restart, A!NoOp
  <2>2. ASSUME NEW a \in A!Actors, A!Did(a) PROVE OpInv'
    BY <2>2 DEF A!Did, A!TypeOK
  <2>3. ASSUME NEW a \in A!Actors, A!Test(a) PROVE OpInv'
    <3>1. hand'[a] = A!NoOp \/ (A!Switch(a) /\ hand'[a].was = hand[a].was)
      BY <2>3 DEF A!Test, A!TypeOK
    <3>2. \A b \in A!Actors : b # a => hand'[b] = hand[b]
      BY <2>3 DEF A!Test, A!TypeOK
    <3>3. QED
      BY <2>3, <3>1, <3>2 DEF A!Test, A!NoOp
  <2>4. ASSUME NEW a \in A!Actors, A!WriteAudit(a) PROVE OpInv'
    BY <2>4 DEF A!WriteAudit, A!NoOp, A!TypeOK
  <2>5. ASSUME NEW p \in Viewers, A!Store(p) \/ A!Save(p) PROVE OpInv'
    <3>1. CASE hand' = hand /\ enabled' = enabled /\ setting' = setting
      BY <2>k, <3>1
    <3>2. CASE A!Seen(A!Switches(enabled', setting'))
      <4>1. ASSUME NEW a \in A!Actors
            PROVE  hand'[a].st = hand[a].st
                   /\ (hand'[a].was <=> (hand[a].was \/ (hand[a].st = "did" /\ A!Switches(enabled', setting')[a])))
        <5>1. hand[a] \in [st : {"none", "did", "write"}, was : BOOLEAN]
          BY DEF A!TypeOK
        <5>2. hand'[a] = [hand[a] EXCEPT !.was = @ \/ (hand[a].st = "did" /\ A!Switches(enabled', setting')[a])]
          BY <3>2 DEF A!Seen
        <5>3. QED
          BY <5>1, <5>2
      <4>2. QED
        BY <4>1 DEF A!Switches
    <3>3. QED
      BY <2>5, <3>1, <3>2 DEF A!Store, A!Save
  <2>6. ASSUME NEW p \in Viewers,
               A!Record(p) \/ A!Toggle(p) \/ A!Toggled(p) \/ A!ClearAudit(p) \/ A!Refresh(p)
               \/ A!ConfirmClear(p) \/ A!Cleared(p) \/ (\E v \in A!Views : A!Choose(p, v))
               \/ (\E k \in A!Keys : A!Serve(p, k) \/ A!Deliver(p, k))
        PROVE  OpInv'
    BY <2>6, <2>k DEF A!Record, A!Toggle, A!Toggled, A!ClearAudit, A!Refresh, A!ConfirmClear, A!Cleared,
                      A!Choose, A!Serve, A!Deliver
  <2>7. CASE UNCHANGED A!vars
    BY <2>7, <2>k DEF A!vars
  <2>8. QED
    BY <2>1, <2>2, <2>3, <2>4, <2>5, <2>6, <2>7 DEF A!Next, A!Puts
<1>3. OpInv => A!NothingBackfilled
  BY DEF OpInv, A!NothingBackfilled
<1>4. QED
  BY <1>1, <1>2, <1>3, AuditTypes, PTL DEF A!Spec

(***************************************************************************)
(* The two copies of the switch                                            *)
(***************************************************************************)
Active(p) == put[p].st \notin {"idle", "ok", "err"}

\* One toggle at a time: between its two writes the memory is ahead.
AgreeInv ==
  marks \cap {"raced", "unsaved"} = {} =>
    /\ \A p, q \in Viewers : Active(p) /\ Active(q) => p = q
    /\ \A p \in Viewers : put[p].st = "save" => enabled = put[p].on
    /\ (\A p \in Viewers : put[p].st # "save") => enabled = setting

\* The panel and the bot end up looking at the same switch, whatever is restarted
\* between the two writes, unless two toggles overlapped or a write failed.
THEOREM BotFollowsPanel == A!Spec => []A!SwitchesAgree
<1>1. A!Init => AgreeInv
  <2> SUFFICES ASSUME A!Init PROVE AgreeInv
    OBVIOUS
  <2>1. setting = enabled /\ \A p \in Viewers : put[p].st = "idle"
    BY DEF A!Init, A!NoPut
  <2>2. QED
    BY <2>1 DEF AgreeInv, Active
<1>2. A!TypeOK /\ AgreeInv /\ [A!Next]_(A!vars) => AgreeInv'
  <2> SUFFICES ASSUME A!TypeOK, AgreeInv, [A!Next]_(A!vars), marks' \cap {"raced", "unsaved"} = {}
               PROVE  AgreeInv'
    BY DEF AgreeInv
  <2> USE DEF A!server, A!client
  <2>k. ASSUME put' = put, enabled' = enabled, setting' = setting, marks \subseteq marks'
        PROVE  AgreeInv'
    BY <2>k DEF AgreeInv, Active
  <2>1. CASE A!Restart
    <3>1. \A p \in Viewers : put'[p].st \in {"idle", "ok", "err"}
      BY <2>1 DEF A!Restart, A!TypeOK
    <3>2. enabled' = setting'
      BY <2>1 DEF A!Restart
    <3>3. QED
      BY <3>1, <3>2 DEF AgreeInv, Active
  <2>2. ASSUME NEW a \in A!Actors, A!Did(a) \/ A!Test(a) PROVE AgreeInv'
    BY <2>2, <2>k DEF A!Did, A!Test
  <2>3. ASSUME NEW a \in A!Actors, A!WriteAudit(a) PROVE AgreeInv'
    BY <2>3, <2>k DEF A!WriteAudit, A!Write
  <2>4. ASSUME NEW p \in Viewers, A!Record(p) PROVE AgreeInv'
    <3>1. /\ put[p].st = "sent" /\ put'[p].st = "store"
          /\ \A q \in Viewers \ {p} : put'[q] = put[q]
      BY <2>4 DEF A!Record, A!PutStep, A!TypeOK
    <3>2. enabled' = enabled /\ setting' = setting /\ marks \subseteq marks'
      BY <2>4 DEF A!Record, A!Write
    <3>3. QED
      BY <3>1, <3>2 DEF AgreeInv, Active
  <2>5. ASSUME NEW p \in Viewers, A!Store(p) PROVE AgreeInv'
    <3>1. /\ put[p].st = "store" /\ put'[p].st = "save" /\ put'[p].on = put[p].on
          /\ \A q \in Viewers \ {p} : put'[q] = put[q]
      BY <2>5 DEF A!Store, A!PutStep, A!TypeOK
    <3>2. enabled' = put[p].on /\ setting' = setting /\ marks' = marks
      BY <2>5 DEF A!Store
    <3>3. \A q \in Viewers : Active(q) => q = p
      BY <3>1, <3>2 DEF AgreeInv, Active
    <3>4. QED
      BY <3>1, <3>2, <3>3 DEF AgreeInv, Active
  <2>6. ASSUME NEW p \in Viewers, A!Save(p) PROVE AgreeInv'
    <3>1. A!PutStep(p, "ok") /\ setting' = put[p].on /\ marks' = marks
      BY <2>6 DEF A!Save
    <3>2. /\ put[p].st = "save" /\ put'[p].st = "ok"
          /\ \A q \in Viewers \ {p} : put'[q] = put[q]
      BY <2>6, <3>1 DEF A!Save, A!PutStep, A!TypeOK
    <3>3. enabled' = enabled /\ enabled = put[p].on
      BY <2>6, <3>1, <3>2 DEF A!Save, AgreeInv
    <3>4. \A q \in Viewers : Active(q) => q = p
      BY <3>1, <3>2 DEF AgreeInv, Active
    <3>5. QED
      BY <3>1, <3>2, <3>3, <3>4 DEF AgreeInv, Active
  <2>7. ASSUME NEW p \in Viewers, A!Toggle(p) PROVE AgreeInv'
    <3>1. /\ put[p].st = "idle" /\ put'[p].st = "sent"
          /\ \A q \in Viewers \ {p} : put'[q] = put[q]
      BY <2>7 DEF A!Toggle, A!TypeOK
    <3>2. enabled' = enabled /\ setting' = setting /\ marks' = marks
          /\ \A q \in Viewers : ~Active(q)
      BY <2>7 DEF A!Toggle, Active
    <3>3. QED
      BY <3>1, <3>2 DEF AgreeInv, Active
  <2>8. ASSUME NEW p \in Viewers, A!Toggled(p) PROVE AgreeInv'
    <3>1. /\ put[p].st \in {"ok", "err"} /\ put'[p].st = "idle"
          /\ \A q \in Viewers \ {p} : put'[q] = put[q]
      BY <2>8 DEF A!Toggled, A!NoPut, A!TypeOK
    <3>2. enabled' = enabled /\ setting' = setting /\ marks' = marks
      BY <2>8 DEF A!Toggled
    <3>3. QED
      BY <3>1, <3>2 DEF AgreeInv, Active
  <2>9. ASSUME NEW p \in Viewers, A!ClearAudit(p) PROVE AgreeInv'
    BY <2>9, <2>k DEF A!ClearAudit
  <2>10. ASSUME NEW p \in Viewers,
                A!Refresh(p) \/ A!ConfirmClear(p) \/ A!Cleared(p) \/ (\E v \in A!Views : A!Choose(p, v))
                \/ (\E k \in A!Keys : A!Serve(p, k) \/ A!Deliver(p, k))
         PROVE  AgreeInv'
    BY <2>10, <2>k DEF A!Refresh, A!ConfirmClear, A!Cleared, A!Choose, A!Serve, A!Deliver
  <2>11. CASE UNCHANGED A!vars
    BY <2>11, <2>k DEF A!vars
  <2>12. QED
    BY <2>1, <2>2, <2>3, <2>4, <2>5, <2>6, <2>7, <2>8, <2>9, <2>10, <2>11 DEF A!Next, A!Puts
<1>3. A!TypeOK /\ AgreeInv => A!SwitchesAgree
  BY DEF AgreeInv, A!SwitchesAgree, A!Settled
<1>4. QED
  BY <1>1, <1>2, <1>3, AuditTypes, PTL DEF A!Spec

(***************************************************************************)
(* The page                                                                *)
(***************************************************************************)
\* The page whose toggle was stored last has the answer, will get it, or asks again.
ToggleInv ==
  \A p \in Viewers :
    /\ put[p].st # "idle" => cache[p]["config"].some
    /\ lookups[p]["config"].st = "done" => lookups[p]["config"].got.some
    /\ lastPut = p /\ put[p].st = "idle" =>
         /\ lookups[p]["config"].st = "idle" => cache[p]["config"].on = enabled
         /\ lookups[p]["config"].st = "done" => lookups[p]["config"].got.on = enabled

\* A page shows the switch it has set, unless another page set it after.
THEOREM ToggleShows == ASSUME "none" \notin Viewers PROVE A!Spec => []A!OwnToggleShows
<1>1. A!Init => ToggleInv
  <2> SUFFICES ASSUME A!Init, NEW p \in Viewers
               PROVE  put[p].st = "idle" /\ lookups[p]["config"].st = "idle" /\ lastPut # p
    BY DEF ToggleInv
  <2>1. "config" \in A!Keys
    BY DEF A!Keys
  <2>2. QED
    BY <2>1 DEF A!Init, A!NoPut, A!Quiet
<1>2. A!TypeOK /\ ToggleInv /\ [A!Next]_(A!vars) => ToggleInv'
  <2> SUFFICES ASSUME A!TypeOK, ToggleInv, [A!Next]_(A!vars) PROVE ToggleInv'
    OBVIOUS
  <2> USE DEF A!server, A!client
  <2>v. "config" \in A!Keys /\ "config" \notin A!Views /\ "actors" # "config" /\ A!Views \subseteq A!Keys
    BY DEF A!Keys, A!Views, A!Actors
  <2>k. ASSUME put' = put, enabled' = enabled, lastPut' = lastPut,
               \A p \in Viewers : lookups'[p]["config"] = lookups[p]["config"]
                                  /\ cache'[p]["config"] = cache[p]["config"]
        PROVE  ToggleInv'
    BY <2>k DEF ToggleInv
  <2>1. CASE A!Restart
    <3>1. /\ lastPut' = "none" /\ cache' = cache /\ lookups' = lookups
          /\ \A p \in Viewers : put'[p].st # "idle" => put[p].st # "idle"
      BY <2>1 DEF A!Restart, A!TypeOK
    <3>2. QED
      BY <3>1 DEF ToggleInv
  <2>2. ASSUME NEW a \in A!Actors, A!Did(a) \/ A!Test(a) \/ A!WriteAudit(a) PROVE ToggleInv'
    BY <2>2, <2>k DEF A!Did, A!Test, A!WriteAudit
  <2>3. ASSUME NEW p \in Viewers, A!Record(p) \/ A!Store(p) \/ A!Save(p) PROVE ToggleInv'
    <3>1. /\ put[p].st # "idle" /\ put'[p].st # "idle"
          /\ \A q \in Viewers \ {p} : put'[q] = put[q]
      BY <2>3 DEF A!Record, A!Store, A!Save, A!PutStep, A!TypeOK
    <3>2. cache' = cache /\ lookups' = lookups
      BY <2>3 DEF A!Record, A!Store, A!Save
    <3>3. lastPut' = p \/ (lastPut' = lastPut /\ enabled' = enabled)
      BY <2>3 DEF A!Record, A!Store, A!Save
    <3>4. QED
      BY <3>1, <3>2, <3>3 DEF ToggleInv
  <2>4. ASSUME NEW p \in Viewers, A!Toggle(p) PROVE ToggleInv'
    <3>1. /\ cache[p]["config"].some /\ put'[p].st = "sent"
          /\ \A q \in Viewers \ {p} : put'[q] = put[q]
      BY <2>4 DEF A!Toggle, A!TypeOK
    <3>2. cache' = cache /\ lookups' = lookups /\ lastPut' = lastPut /\ enabled' = enabled
      BY <2>4 DEF A!Toggle
    <3>3. QED
      BY <3>1, <3>2 DEF ToggleInv
  <2>5. ASSUME NEW p \in Viewers, A!Toggled(p) PROVE ToggleInv'
    <3>1. /\ put[p].st \in {"ok", "err"} /\ put'[p].st = "idle"
          /\ \A q \in Viewers \ {p} : put'[q] = put[q]
      BY <2>5 DEF A!Toggled, A!NoPut, A!TypeOK
    <3>2. cache' = cache /\ enabled' = enabled
      BY <2>5 DEF A!Toggled
    <3>3. \A q \in Viewers \ {p} : lookups'[q]["config"] = lookups[q]["config"]
      BY <2>5 DEF A!Toggled, A!TypeOK
    <3>4. CASE put[p].st = "ok"
      <4>1. A!Fresh(p, "config") = A!Sent
        BY <3>4 DEF ToggleInv, A!Fresh
      <4>2. filter[p] \in A!Views
        BY DEF A!TypeOK
      <4>3. lookups'[p]["config"] = A!Sent
        BY <2>5, <2>v, <3>4, <4>1, <4>2 DEF A!Toggled, A!TypeOK
      <4>4. lookups'[p]["config"].st = "sent"
        BY <4>3 DEF A!Sent
      <4>5. lastPut' = lastPut
        BY <2>5, <3>4 DEF A!Toggled
      <4>6. QED
        BY <3>1, <3>2, <3>3, <4>4, <4>5 DEF ToggleInv
    <3>5. CASE put[p].st = "err"
      <4>1. lookups' = lookups /\ lastPut' # p /\ lastPut' \in {lastPut, "none"}
        BY <2>5, <3>5 DEF A!Toggled
      <4>2. QED
        BY <3>1, <3>2, <4>1 DEF ToggleInv
    <3>6. QED
      BY <3>1, <3>4, <3>5
  <2>6. ASSUME NEW p \in Viewers, A!Refresh(p) PROVE ToggleInv'
    <3>1. filter[p] \in A!Views
      BY DEF A!TypeOK
    <3>2. \A q \in Viewers : lookups'[q]["config"] = lookups[q]["config"]
      BY <2>6, <2>v, <3>1 DEF A!Refresh, A!TypeOK
    <3>3. QED
      BY <2>6, <2>k, <3>2 DEF A!Refresh
  <2>7. ASSUME NEW p \in Viewers, NEW v \in A!Views, A!Choose(p, v) PROVE ToggleInv'
    <3>1. \A q \in Viewers : lookups'[q]["config"] = lookups[q]["config"]
      BY <2>7, <2>v DEF A!Choose, A!TypeOK
    <3>2. QED
      BY <2>7, <2>k, <3>1 DEF A!Choose
  <2>8. ASSUME NEW p \in Viewers, A!Cleared(p) PROVE ToggleInv'
    <3>1. filter[p] \in A!Views
      BY DEF A!TypeOK
    <3>2. CASE clr[p] = "ok"
      <4>1. \A q \in Viewers : lookups'[q]["config"] = lookups[q]["config"]
        <5> DEFINE mid == [lookups EXCEPT ![p][filter[p]] = A!Fresh(p, filter[p])]
        <5>1. lookups' = [mid EXCEPT ![p]["actors"] = A!Fresh(p, "actors")]
          BY <2>8, <3>2 DEF A!Cleared
        <5>2. lookups \in [Viewers -> [A!Keys -> [st : {"idle", "sent", "done"}, got : A!Answer]]]
          BY DEF A!TypeOK
        <5>3. \A q \in Viewers : mid[q]["config"] = lookups[q]["config"]
          BY <5>2, <3>1, <2>v
        <5>4. DOMAIN mid = Viewers /\ DOMAIN mid[p] = A!Keys
          BY <5>2
        <5> HIDE DEF mid
        <5>5. QED
          BY <5>1, <5>3, <5>4, <2>v
      <4>2. QED
        BY <2>8, <2>k, <4>1 DEF A!Cleared
    <3>3. CASE clr[p] # "ok"
      BY <2>8, <2>k, <3>3 DEF A!Cleared
    <3>4. QED
      BY <3>2, <3>3
  <2>9. ASSUME NEW p \in Viewers, NEW k \in A!Keys, A!Serve(p, k) PROVE ToggleInv'
    <3>1. lookups'[p][k] = [st |-> "done", got |-> A!Reply(k)]
      BY <2>9 DEF A!Serve, A!TypeOK
    <3>2. \A q \in Viewers : q # p \/ k # "config" => lookups'[q]["config"] = lookups[q]["config"]
      BY <2>9, <2>v DEF A!Serve, A!TypeOK
    <3>3. A!Reply("config").some /\ A!Reply("config").on = enabled
      BY DEF A!Reply, A!TypeOK
    <3>4. cache' = cache /\ put' = put /\ lastPut' = lastPut /\ enabled' = enabled
      BY <2>9 DEF A!Serve
    <3>5. CASE k = "config"
      BY <3>1, <3>2, <3>3, <3>4, <3>5 DEF ToggleInv
    <3>6. CASE k # "config"
      BY <3>2, <3>4, <3>6, <2>k
    <3>7. QED
      BY <3>5, <3>6
  <2>10. ASSUME NEW p \in Viewers, NEW k \in A!Keys, A!Deliver(p, k) PROVE ToggleInv'
    <3>1. /\ lookups[p][k].st = "done" /\ lookups'[p][k] = A!Quiet
          /\ cache'[p][k] = lookups[p][k].got
      BY <2>10 DEF A!Deliver, A!TypeOK
    <3>2. \A q \in Viewers : q # p \/ k # "config" =>
            lookups'[q]["config"] = lookups[q]["config"] /\ cache'[q]["config"] = cache[q]["config"]
      BY <2>10, <2>v DEF A!Deliver, A!TypeOK
    <3>3. put' = put /\ lastPut' = lastPut /\ enabled' = enabled
      BY <2>10 DEF A!Deliver
    <3>4. CASE k = "config"
      BY <3>1, <3>2, <3>3, <3>4 DEF ToggleInv, A!Quiet
    <3>5. CASE k # "config"
      BY <3>2, <3>3, <3>5, <2>k
    <3>6. QED
      BY <3>4, <3>5
  <2>11. ASSUME NEW p \in Viewers, A!ConfirmClear(p) \/ A!ClearAudit(p) PROVE ToggleInv'
    BY <2>11, <2>k DEF A!ConfirmClear, A!ClearAudit
  <2>12. CASE UNCHANGED A!vars
    BY <2>12, <2>k DEF A!vars
  <2>13. QED
    BY <2>1, <2>2, <2>3, <2>4, <2>5, <2>6, <2>7, <2>8, <2>9, <2>10, <2>11, <2>12 DEF A!Next, A!Puts
<1>3. ToggleInv => A!OwnToggleShows
  BY DEF ToggleInv, A!OwnToggleShows, A!Checked
<1>4. QED
  BY <1>1, <1>2, <1>3, AuditTypes, PTL DEF A!Spec

\* Rows that are there have been written since the last clear, and so have the
\* ones a page that cleared holds or is about to hold.
ClearInv ==
  /\ \A r \in log : r.age = clears
  /\ \A p \in Viewers :
       /\ cleared[p] <= clears
       /\ lookups[p][filter[p]].st = "idle" => \A r \in cache[p][filter[p]].rows : r.age >= cleared[p]
       /\ lookups[p][filter[p]].st = "done" =>
                \A r \in lookups[p][filter[p]].got.rows : r.age >= cleared[p]

\* What a page cleared does not come back on it, whatever was under way.
THEOREM ClearHolds == A!Spec => []A!ClearedStaysCleared
<1>1. A!Init => ClearInv
  <2> SUFFICES ASSUME A!Init PROVE ClearInv
    OBVIOUS
  <2>1. clears = 0 /\ \A r \in log : r.age = 0
    BY DEF A!Init
  <2>2. ASSUME NEW p \in Viewers
        PROVE  /\ cleared[p] = 0 /\ lookups[p][filter[p]].st = "idle"
               /\ cache[p][filter[p]].rows \subseteq log
    <3>1. filter[p] = "all" /\ "all" \in A!Keys /\ "all" \notin A!Actors
      BY DEF A!Init, A!Keys, A!Views, A!Actors
    <3>2. cache[p]["all"] = A!Reply("all") /\ lookups[p]["all"] = A!Quiet /\ cleared[p] = 0
      BY <3>1 DEF A!Init
    <3>3. QED
      BY <3>1, <3>2 DEF A!Reply, A!ListOf, A!Quiet
  <2>3. QED
    BY <2>1, <2>2 DEF ClearInv
<1>2. A!TypeOK /\ ClearInv /\ [A!Next]_(A!vars) => ClearInv'
  <2> SUFFICES ASSUME A!TypeOK, ClearInv, [A!Next]_(A!vars) PROVE ClearInv'
    OBVIOUS
  <2> USE DEF A!server, A!client
  <2>v. A!Views \subseteq A!Keys /\ "config" \notin A!Views /\ "actors" \notin A!Views
    BY DEF A!Keys, A!Views, A!Actors
  <2>f. \A p \in Viewers : filter[p] \in A!Views /\ filter[p] \in A!Keys
    BY <2>v DEF A!TypeOK
  <2>t. /\ clears \in Nat /\ log \subseteq A!Rec
        /\ \A p \in Viewers : cleared[p] \in Nat
        /\ \A p \in Viewers, k \in A!Keys : cache[p][k].rows \subseteq A!Rec /\ lookups[p][k].got.rows \subseteq A!Rec
    BY DEF A!TypeOK, A!Answer
  <2>k. ASSUME log' = log, clears' = clears, cleared' = cleared, cache' = cache, lookups' = lookups,
               filter' = filter
        PROVE  ClearInv'
    BY <2>k DEF ClearInv
  <2>1. CASE A!Restart
    BY <2>1, <2>k DEF A!Restart
  <2>2. ASSUME NEW a \in A!Actors, A!Did(a) \/ A!Test(a) PROVE ClearInv'
    BY <2>2, <2>k DEF A!Did, A!Test
  <2>3. ASSUME NEW kind, NEW a, A!Write(A!Row(kind, a)), clears' = clears, UNCHANGED A!client,
               cleared' = cleared
        PROVE  ClearInv'
    <3>1. \A r \in log' : r.age = clears
      BY <2>3 DEF A!Write, A!Row, ClearInv
    <3>2. QED
      BY <2>3, <3>1 DEF ClearInv
  <2>4. ASSUME NEW a \in A!Actors, A!WriteAudit(a) PROVE ClearInv'
    BY <2>3, <2>4 DEF A!WriteAudit
  <2>5. ASSUME NEW p \in Viewers, A!Record(p) PROVE ClearInv'
    BY <2>3, <2>5 DEF A!Record
  <2>6. ASSUME NEW p \in Viewers, A!Store(p) \/ A!Save(p) \/ A!Toggle(p) \/ A!ConfirmClear(p)
        PROVE  ClearInv'
    BY <2>6, <2>k DEF A!Store, A!Save, A!Toggle, A!ConfirmClear
  <2>r. ASSUME NEW p \in Viewers,
               log' = log, clears' = clears, filter' = filter, cache' = cache,
               cleared'[p] \in {cleared[p], clears},
               \A q \in Viewers \ {p} : lookups'[q] = lookups[q] /\ cleared'[q] = cleared[q],
               \/ lookups'[p][filter[p]].st = "sent"
               \/ lookups'[p][filter[p]] = lookups[p][filter[p]] /\ cleared'[p] = cleared[p]
        PROVE  ClearInv'
    BY <2>r, <2>t DEF ClearInv
  <2>s. ASSUME NEW p \in Viewers, NEW k \in A!Keys
        PROVE  /\ A!Mounted(p, k).st = "sent" \/ A!Mounted(p, k) = lookups[p][k]
               /\ A!Fresh(p, k).st = "sent" \/ (A!Fresh(p, k) = lookups[p][k] /\ ~cache[p][k].some)
    BY DEF A!Mounted, A!Fresh, A!Sent
  <2>7. ASSUME NEW p \in Viewers, A!Toggled(p) PROVE ClearInv'
    <3>1. CASE put[p].st = "ok"
      <4>1. lookups'[p][filter[p]] = A!Fresh(p, filter[p])
        BY <2>7, <2>f, <2>v, <3>1 DEF A!Toggled, A!TypeOK
      <4>2. \A q \in Viewers \ {p} : lookups'[q] = lookups[q]
        BY <2>7, <3>1 DEF A!Toggled, A!TypeOK
      <4>3. lookups'[p][filter[p]].st = "sent" \/ lookups'[p][filter[p]] = lookups[p][filter[p]]
        BY <2>s, <2>f, <4>1
      <4>4. QED
        BY <2>7, <4>2, <4>3, <2>r DEF A!Toggled
    <3>2. CASE put[p].st # "ok"
      BY <2>7, <2>k, <3>2 DEF A!Toggled
    <3>3. QED
      BY <3>1, <3>2
  <2>8. ASSUME NEW p \in Viewers, A!Refresh(p) PROVE ClearInv'
    <3>1. lookups'[p][filter[p]].st = "sent" /\ \A q \in Viewers \ {p} : lookups'[q] = lookups[q]
      BY <2>8, <2>f DEF A!Refresh, A!Sent, A!TypeOK
    <3>2. QED
      BY <2>8, <2>r, <3>1 DEF A!Refresh
  <2>9. ASSUME NEW p \in Viewers, A!ClearAudit(p) PROVE ClearInv'
    BY <2>9, <2>t DEF A!ClearAudit, ClearInv
  <2>10. ASSUME NEW p \in Viewers, A!Cleared(p) PROVE ClearInv'
    <3>1. CASE clr[p] = "ok"
      <4>1. lookups'[p][filter[p]] = A!Fresh(p, filter[p]) /\ \A q \in Viewers \ {p} : lookups'[q] = lookups[q]
        <5> DEFINE mid == [lookups EXCEPT ![p][filter[p]] = A!Fresh(p, filter[p])]
        <5>1. lookups' = [mid EXCEPT ![p]["actors"] = A!Fresh(p, "actors")]
          BY <2>10, <3>1 DEF A!Cleared
        <5>2. lookups \in [Viewers -> [A!Keys -> [st : {"idle", "sent", "done"}, got : A!Answer]]]
          BY DEF A!TypeOK
        <5>3. /\ mid[p][filter[p]] = A!Fresh(p, filter[p]) /\ \A q \in Viewers \ {p} : mid[q] = lookups[q]
              /\ DOMAIN mid = Viewers /\ DOMAIN mid[p] = A!Keys
          BY <5>2, <2>f
        <5> HIDE DEF mid
        <5>4. QED
          BY <5>1, <5>3, <2>f, <2>v
      <4>2. /\ cleared'[p] = IF cache[p][filter[p]].some THEN clears ELSE cleared[p]
            /\ \A q \in Viewers \ {p} : cleared'[q] = cleared[q]
        BY <2>10, <3>1 DEF A!Cleared, A!TypeOK
      <4>3. \/ lookups'[p][filter[p]].st = "sent"
            \/ lookups'[p][filter[p]] = lookups[p][filter[p]] /\ cleared'[p] = cleared[p]
        BY <2>s, <2>f, <4>1, <4>2
      <4>4. QED
        BY <2>10, <2>r, <4>1, <4>2, <4>3 DEF A!Cleared
    <3>2. CASE clr[p] # "ok"
      BY <2>10, <2>k, <3>2 DEF A!Cleared
    <3>3. QED
      BY <3>1, <3>2
  <2>11. ASSUME NEW p \in Viewers, NEW v \in A!Views, A!Choose(p, v) PROVE ClearInv'
    <3>1. /\ filter'[p] = v /\ cleared'[p] = 0 /\ cache' = cache /\ log' = log /\ clears' = clears
          /\ \A q \in Viewers \ {p} : lookups'[q] = lookups[q] /\ filter'[q] = filter[q]
                                      /\ cleared'[q] = cleared[q]
      BY <2>11 DEF A!Choose, A!TypeOK
    <3>2. lookups'[p][v].st = "sent" \/ lookups'[p][v] = lookups[p][v]
      BY <2>11, <2>v, <2>s DEF A!Choose, A!TypeOK
    <3>3. \A r \in A!Rec : r.age >= 0
      BY DEF A!Rec
    <3>4. /\ \A r \in cache[p][v].rows : r.age >= 0
          /\ \A r \in lookups[p][v].got.rows : r.age >= 0
      BY <2>t, <2>v, <3>3
    <3>5. QED
      BY <2>t, <3>1, <3>2, <3>4 DEF ClearInv
  <2>12. ASSUME NEW p \in Viewers, NEW k \in A!Keys, A!Serve(p, k) PROVE ClearInv'
    <3>1. /\ lookups'[p][k] = [st |-> "done", got |-> A!Reply(k)]
          /\ \A q \in Viewers : \A j \in A!Keys : q # p \/ j # k => lookups'[q][j] = lookups[q][j]
      BY <2>12 DEF A!Serve, A!TypeOK
    <3>2. \A r \in A!Reply(k).rows : r.age = clears
      BY DEF A!Reply, A!ListOf, ClearInv
    <3>3. /\ cache' = cache /\ log' = log /\ clears' = clears /\ cleared' = cleared
          /\ filter' = filter
      BY <2>12 DEF A!Serve
    <3>4. lookups'[p][k].st = "done" /\ \A r \in lookups'[p][k].got.rows : r.age = clears
      BY <3>1, <3>2
    <3>5. QED
      BY <2>f, <2>t, <3>1, <3>3, <3>4 DEF ClearInv
  <2>13. ASSUME NEW p \in Viewers, NEW k \in A!Keys, A!Deliver(p, k) PROVE ClearInv'
    <3>1. /\ lookups[p][k].st = "done" /\ lookups'[p][k] = A!Quiet /\ cache'[p][k] = lookups[p][k].got
          /\ \A q \in Viewers : \A j \in A!Keys :
               q # p \/ j # k => lookups'[q][j] = lookups[q][j] /\ cache'[q][j] = cache[q][j]
      BY <2>13 DEF A!Deliver, A!TypeOK
    <3>2. A!Quiet.st = "idle"
      BY DEF A!Quiet
    <3>3. log' = log /\ clears' = clears /\ cleared' = cleared /\ filter' = filter
      BY <2>13 DEF A!Deliver
    <3>4. QED
      BY <2>f, <3>1, <3>2, <3>3 DEF ClearInv
  <2>14. CASE UNCHANGED A!vars
    BY <2>14, <2>k DEF A!vars
  <2>15. QED
    BY <2>1, <2>2, <2>4, <2>5, <2>6, <2>7, <2>8, <2>9, <2>10, <2>11, <2>12, <2>13, <2>14
       DEF A!Next, A!Puts
<1>3. ClearInv => A!ClearedStaysCleared
  BY DEF ClearInv, A!ClearedStaysCleared, A!Rows
<1>4. QED
  BY <1>1, <1>2, <1>3, AuditTypes, PTL DEF A!Spec

(***************************************************************************)
(* Neighbors                                                               *)
(***************************************************************************)

\* The types of the host, the settings, the service and the pages are kept by every step.
THEOREM NeighborsTypes == N!Spec => []N!TypeOK
<1>i. N!Idle \in N!Call /\ N!NoResult \in N!Result /\ N!Unknown \in N!Result /\ N!Fallback \in N!Site
  BY DEF N!Idle, N!Call, N!NoResult, N!Unknown, N!Fallback, N!Result, N!Site
<1>1. N!Init => N!TypeOK
  <2> SUFFICES ASSUME N!Init PROVE N!TypeOK
    OBVIOUS
  <2>1. mach \in Addrs /\ listen \in Addrs \cup {0} /\ cap \in Addrs \cup {0}
    BY DEF N!Init
  <2>2. /\ stored \in N!Result /\ preferred \in N!Site /\ scanning \in BOOLEAN
        /\ scan \in [N!Scanners -> N!Call]
    BY <1>i DEF N!Init
  <2>3. /\ proc \in {"down", "heal", "drop", "cap", "init", "up"} /\ old \in Addrs \cup {0}
        /\ broken \subseteq {"heal", "save"}
    BY DEF N!Init
  <2>4. /\ view \in [Viewers -> N!Result]
        /\ queries \in [Viewers -> [st : {"idle", "sent", "done"}, r : N!Result]]
    BY <1>i DEF N!Init, N!NoAsk
  <2>5. QED
    BY <2>1, <2>2, <2>3, <2>4 DEF N!TypeOK
<1>2. N!TypeOK /\ [N!Next]_(N!vars) => N!TypeOK'
  <2> SUFFICES ASSUME N!TypeOK, [N!Next]_(N!vars) PROVE N!TypeOK'
    OBVIOUS
  <2> USE DEF N!TypeOK, N!host, N!page, N!bounds, N!Move, N!Fault
  <2>s. scan \in [N!Scanners -> N!Call]
    OBVIOUS
  <2>r. \A s \in N!Scanners : scan[s].r \in N!Result
    BY <2>s DEF N!Call
  <2>p. ASSUME NEW r \in N!Result PROVE N!Published(r) \in N!Site
    BY <2>p DEF N!Published, N!Result, N!Site
  <2>u. ASSUME NEW s \in N!Scanners, NEW st \in {"run", "save", "publish", "ok", "busy", "noip", "failed"},
               N!Step(s, st)
        PROVE  scan' \in [N!Scanners -> N!Call]
    BY <2>s, <2>u DEF N!Step, N!Call
  <2>x. ASSUME N!Stop PROVE /\ proc' = "down" /\ preferred' \in N!Site /\ scanning' \in BOOLEAN
                          /\ old' \in Addrs \cup {0} /\ scan' \in [N!Scanners -> N!Call]
    <3>1. ASSUME NEW s \in N!Scanners
          PROVE  [scan[s] EXCEPT !.st = IF @ = "ok" THEN @ ELSE "failed"] \in N!Call
      BY <2>s DEF N!Call
    <3>2. scan' \in [N!Scanners -> N!Call]
      BY <2>x, <3>1, <1>i DEF N!Stop
    <3>3. QED
      BY <2>x, <3>2, <1>i DEF N!Stop
  <2>1. CASE N!Crash
    BY <2>1, <2>x DEF N!Crash
  <2>2. ASSUME NEW a \in Addrs, N!Readdress(a) PROVE N!TypeOK'
    BY <2>2, <2>x DEF N!Readdress
  <2>3. CASE N!Start
    BY <2>3 DEF N!Start
  <2>4. CASE N!Heal
    BY <2>4 DEF N!Heal
  <2>5. CASE N!DropScan
    BY <2>5, <1>i DEF N!DropScan
  <2>6. CASE N!Rewrite
    BY <2>6 DEF N!Rewrite
  <2>7. CASE N!Publish
    <3>1. [N!Idle EXCEPT !.st = "wait", !.ip = cap] \in N!Call
      BY <1>i DEF N!Call
    <3>2. preferred' \in N!Site /\ scan' \in [N!Scanners -> N!Call]
      BY <2>7, <3>1, <2>s, <2>p DEF N!Publish
    <3>3. QED
      BY <2>7, <3>2 DEF N!Publish
  <2>8. ASSUME NEW s \in N!Scanners, N!TryLock(s) PROVE N!TypeOK'
    <3>1. scan' \in [N!Scanners -> N!Call] /\ scanning' \in BOOLEAN
      BY <2>8, <2>u DEF N!TryLock
    <3>2. QED
      BY <2>8, <3>1 DEF N!TryLock
  <2>9. ASSUME NEW s \in N!Scanners, N!FindNeighbors(s) PROVE N!TypeOK'
    <3>1. PICK best \in Sites \cup {0}, cut \in BOOLEAN :
            /\ mishaps' = IF cut /\ ~scan[s].gone THEN mishaps + 1 ELSE mishaps
            /\ scan' = [scan EXCEPT ![s].st = "save",
                        ![s].r = [ip |-> scan[s].ip, best |-> best, whole |-> ~cut]]
      BY <2>9 DEF N!FindNeighbors
    <3>2. [ip |-> scan[s].ip, best |-> best, whole |-> ~cut] \in N!Result
      BY <2>s DEF N!Call, N!Result
    <3> DEFINE found == [scan[s] EXCEPT !.st = "save",
                           !.r = [ip |-> scan[s].ip, best |-> best, whole |-> ~cut]]
    <3>f. found \in N!Call
      BY <3>2, <2>s DEF N!Call
    <3>g. scan' = [scan EXCEPT ![s] = found]
      BY <3>1, <2>s
    <3>3. scan' \in [N!Scanners -> N!Call]
      BY <3>f, <3>g, <2>s
    <3>4. QED
      BY <2>9, <3>1, <3>3 DEF N!FindNeighbors
  <2>10. ASSUME NEW s \in N!Scanners, N!SetSetting(s) PROVE N!TypeOK'
    <3>1. scan' \in [N!Scanners -> N!Call]
      BY <2>10, <2>u DEF N!SetSetting
    <3>2. stored' \in N!Result
      BY <2>10, <2>r DEF N!SetSetting
    <3>3. QED
      BY <2>10, <3>1, <3>2 DEF N!SetSetting
  <2>11. ASSUME NEW s \in N!Scanners, N!SetResult(s) PROVE N!TypeOK'
    <3>1. scan' \in [N!Scanners -> N!Call] /\ preferred' \in N!Site
      BY <2>11, <2>u, <2>r, <2>p DEF N!SetResult
    <3>2. QED
      BY <2>11, <3>1 DEF N!SetResult
  <2>12. ASSUME NEW s \in N!Scanners, N!Answer(s) PROVE N!TypeOK'
    <3>1. scan' \in [N!Scanners -> N!Call]
      BY <2>12, <2>s, <1>i DEF N!Answer
    <3>2. view' \in [Viewers -> N!Result]
      BY <2>12, <2>r DEF N!Answer
    <3>3. QED
      BY <2>12, <3>1, <3>2 DEF N!Answer
  <2>13. ASSUME NEW p \in Viewers, N!Scan(p) PROVE N!TypeOK'
    <3>1. [N!Idle EXCEPT !.st = "wait", !.ip = cap] \in N!Call
      BY <1>i DEF N!Call
    <3>2. scan' \in [N!Scanners -> N!Call]
      BY <2>13, <3>1, <2>s DEF N!Scan
    <3>3. QED
      BY <2>13, <3>2 DEF N!Scan
  <2>14. ASSUME NEW p \in Viewers, N!Leave(p) PROVE N!TypeOK'
    <3> DEFINE left == [scan[p] EXCEPT !.gone = (scan[p].st # "idle")]
    <3>f. left \in N!Call /\ p \in N!Scanners
      BY <2>s DEF N!Scanners, N!Call
    <3>g. scan' = [scan EXCEPT ![p] = left]
      BY <2>14, <2>s DEF N!Leave
    <3>1. scan' \in [N!Scanners -> N!Call]
      BY <3>f, <3>g, <2>s
    <3>2. QED
      BY <2>14, <3>1, <1>i DEF N!Leave, N!NoAsk
  <2>15. ASSUME NEW p \in Viewers, N!Ask(p) \/ N!GetRealityNeighbors(p) \/ N!Shown(p) PROVE N!TypeOK'
    BY <2>15, <1>i DEF N!Ask, N!GetRealityNeighbors, N!Shown, N!NoAsk
  <2>16. CASE UNCHANGED N!vars
    BY <2>16 DEF N!vars
  <2>17. QED
    BY <2>1, <2>2, <2>3, <2>4, <2>5, <2>6, <2>7, <2>8, <2>9, <2>10, <2>11, <2>12, <2>13,
       <2>14, <2>15, <2>16 DEF N!Next, N!Boots, N!Scans
<1>3. QED
  BY <1>1, <1>2, PTL DEF N!Spec

Awaiting == {"wait", "run", "save", "publish"}  \* a call that has yet to act
Holding == {"run", "save", "publish"}          \* a call that holds the mutex

\* The mutex has at most one holder, and only while the service is up; what its
\* holder is about to publish is what it stored.
HoldInv ==
  /\ \A s \in N!Scanners : scan[s].st \in Awaiting => proc = "up"
  /\ \A s \in N!Scanners : scan[s].st \in Holding => scanning
  /\ \A s, t \in N!Scanners : scan[s].st \in Holding /\ scan[t].st \in Holding => s = t
  /\ \A s \in N!Scanners : scan[s].st \in Holding => scan[s].ip # 0
  /\ \A s \in N!Scanners : scan[s].st \in {"save", "publish"} => scan[s].r.ip = scan[s].ip
  /\ \A s \in N!Scanners : scan[s].st = "publish" => stored = scan[s].r
  /\ proc # "up" => ~scanning /\ preferred = N!Fallback

\* Between the moment a result is stored and the moment it is published its
\* scanner still holds the mutex; at any other moment the two agree.
SameInv ==
  /\ stored.best # 0 => stored.ip # 0
  /\ proc = "up" /\ stored.best # 0 /\ (\A s \in N!Scanners : scan[s].st # "publish")
       => preferred = [ip |-> stored.ip, n |-> stored.best]

LEMMA Held == N!Spec => []HoldInv
<1>1. N!Init => HoldInv
  BY DEF N!Init, HoldInv, N!Idle, Awaiting, Holding
<1>2. N!TypeOK /\ HoldInv /\ [N!Next]_(N!vars) => HoldInv'
  <2> SUFFICES ASSUME N!TypeOK, HoldInv, [N!Next]_(N!vars) PROVE HoldInv'
    OBVIOUS
  <2> USE DEF HoldInv, Awaiting, Holding, N!host, N!page, N!bounds
  <2>s. DOMAIN scan = N!Scanners /\ \A s \in N!Scanners : DOMAIN scan[s] = {"st", "ip", "r", "gone"}
    BY DEF N!TypeOK, N!Call
  <2>k. ASSUME scan' = scan, UNCHANGED <<stored, proc, scanning>>,
               preferred' = preferred \/ proc = "up"
        PROVE  HoldInv'
    BY <2>k
  <2>x. ASSUME N!Stop PROVE HoldInv'
    <3>1. ASSUME NEW s \in N!Scanners PROVE scan'[s].st \in {"idle", "ok", "failed"}
      BY <2>x, <2>s DEF N!Stop, N!Idle
    <3>2. QED
      BY <2>x, <3>1 DEF N!Stop
  <2>1. CASE N!Crash
    BY <2>1, <2>x DEF N!Crash
  <2>2. ASSUME NEW a \in Addrs, N!Readdress(a) PROVE HoldInv'
    BY <2>2, <2>x DEF N!Readdress
  <2>3. CASE N!Start \/ N!Heal \/ N!DropScan \/ N!Rewrite
    <3>1. /\ scan' = scan /\ scanning' = scanning /\ preferred' = preferred
          /\ proc # "up" /\ proc' # "up"
      BY <2>3 DEF N!Start, N!Heal, N!DropScan, N!Rewrite
    <3>2. QED
      BY <3>1
  <2>4. CASE N!Publish
    <3>1. scan'[N!Boot].st \in {"wait"} \/ scan'[N!Boot] = scan[N!Boot]
      BY <2>4, <2>s DEF N!Publish, N!Idle, N!Scanners
    <3>2. \A s \in N!Scanners : s # N!Boot => scan'[s] = scan[s]
      BY <2>4, <2>s DEF N!Publish
    <3>3. /\ proc = "init" /\ proc' = "up" /\ stored' = stored /\ scanning' = scanning
          /\ \A s \in N!Scanners : scan[s].st \notin Awaiting
      BY <2>4 DEF N!Publish
    <3>4. \A s \in N!Scanners : scan'[s].st \notin Holding
      BY <3>1, <3>2, <3>3
    <3>5. QED
      BY <3>3, <3>4
  \* A step of one scanner that neither takes the mutex nor stores anything.
  <2>q. ASSUME NEW s \in N!Scanners, proc' = proc, proc = "up" \/ scan'[s].st \notin Awaiting,
               scan'[s].st \notin Holding, \A t \in N!Scanners \ {s} : scan'[t] = scan[t],
               stored' = stored, preferred' = preferred \/ proc = "up",
               scanning' = scanning \/ (scan[s].st \in Holding /\ ~scanning')
        PROVE  HoldInv'
    BY <2>q
  <2>5. ASSUME NEW s \in N!Scanners, N!TryLock(s) PROVE HoldInv'
    <3>1. CASE N!Step(s, "run") /\ ~scanning /\ scanning' = TRUE /\ scan[s].ip # 0
      <4>1. /\ scan'[s].st = "run" /\ scan'[s].ip = scan[s].ip
            /\ \A t \in N!Scanners \ {s} : scan'[t] = scan[t]
        BY <3>1, <2>s DEF N!Step
      <4>2. \A t \in N!Scanners : scan[t].st \notin Holding
        BY <3>1
      <4>3. proc' = "up" /\ stored' = stored
        BY <2>5 DEF N!TryLock
      <4>4. QED
        BY <3>1, <4>1, <4>2, <4>3
    <3>2. CASE (N!Step(s, "busy") \/ N!Step(s, "noip")) /\ UNCHANGED scanning
      <4>1. /\ scan'[s].st \in {"busy", "noip"} /\ \A t \in N!Scanners \ {s} : scan'[t] = scan[t]
            /\ scanning' = scanning
        BY <3>2, <2>s DEF N!Step
      <4>2. QED
        BY <2>5, <4>1, <2>q DEF N!TryLock
    <3>3. QED
      BY <2>5, <3>1, <3>2 DEF N!TryLock
  <2>6. ASSUME NEW s \in N!Scanners, N!FindNeighbors(s) PROVE HoldInv'
    <3>1. /\ scan'[s].st = "save" /\ scan'[s].ip = scan[s].ip /\ scan'[s].r.ip = scan[s].ip
          /\ \A t \in N!Scanners \ {s} : scan'[t] = scan[t]
      BY <2>6, <2>s DEF N!FindNeighbors
    <3>2. scan[s].st = "run" /\ UNCHANGED <<stored, proc, preferred, scanning>>
      BY <2>6 DEF N!FindNeighbors
    <3>3. QED
      BY <3>1, <3>2
  <2>7. ASSUME NEW s \in N!Scanners, N!SetSetting(s) PROVE HoldInv'
    <3>1. CASE stored' = scan[s].r /\ N!Step(s, "publish") /\ scanning' = scanning
      <4>1. /\ scan'[s].st = "publish" /\ scan'[s].ip = scan[s].ip /\ scan'[s].r = scan[s].r
            /\ \A t \in N!Scanners \ {s} : scan'[t] = scan[t]
        BY <3>1, <2>s DEF N!Step
      <4>2. scan[s].st = "save" /\ proc' = proc /\ preferred' = preferred
        BY <2>7 DEF N!SetSetting
      <4>3. QED
        BY <3>1, <4>1, <4>2
    <3>2. CASE N!Step(s, "failed") /\ scanning' = FALSE /\ stored' = stored
      <4>1. scan'[s].st = "failed" /\ \A t \in N!Scanners \ {s} : scan'[t] = scan[t]
        BY <3>2, <2>s DEF N!Step
      <4>2. QED
        BY <2>7, <3>2, <4>1, <2>q DEF N!SetSetting
    <3>3. QED
      BY <2>7, <3>1, <3>2 DEF N!SetSetting
  <2>8. ASSUME NEW s \in N!Scanners, N!SetResult(s) PROVE HoldInv'
    <3>1. scan'[s].st = "ok" /\ \A t \in N!Scanners \ {s} : scan'[t] = scan[t]
      BY <2>8, <2>s DEF N!SetResult, N!Step
    <3>2. QED
      BY <2>8, <3>1, <2>q DEF N!SetResult
  <2>9. ASSUME NEW s \in N!Scanners, N!Answer(s) PROVE HoldInv'
    <3>1. scan'[s].st = "idle" /\ \A t \in N!Scanners \ {s} : scan'[t] = scan[t]
      BY <2>9, <2>s DEF N!Answer, N!Idle
    <3>2. QED
      BY <2>9, <3>1, <2>q DEF N!Answer
  <2>10. ASSUME NEW p \in Viewers, N!Scan(p) PROVE HoldInv'
    <3>1. /\ p \in N!Scanners /\ scan'[p].st = "wait"
          /\ \A t \in N!Scanners \ {p} : scan'[t] = scan[t]
      BY <2>10, <2>s DEF N!Scan, N!Idle, N!Scanners
    <3>2. QED
      BY <2>10, <3>1, <2>q DEF N!Scan
  <2>11. ASSUME NEW p \in Viewers, N!Leave(p) PROVE HoldInv'
    <3>1. \A s \in N!Scanners : /\ scan'[s].st = scan[s].st /\ scan'[s].ip = scan[s].ip
                              /\ scan'[s].r = scan[s].r
      BY <2>11, <2>s DEF N!Leave
    <3>2. QED
      BY <2>11, <3>1 DEF N!Leave
  <2>12. ASSUME NEW p \in Viewers, N!Ask(p) \/ N!GetRealityNeighbors(p) \/ N!Shown(p) PROVE HoldInv'
    BY <2>12, <2>k DEF N!Ask, N!GetRealityNeighbors, N!Shown
  <2>13. CASE UNCHANGED N!vars
    BY <2>13, <2>k DEF N!vars
  <2>14. QED
    BY <2>1, <2>2, <2>3, <2>4, <2>5, <2>6, <2>7, <2>8, <2>9, <2>10, <2>11, <2>12, <2>13
       DEF N!Next, N!Boots, N!Scans
<1>3. QED
  BY <1>1, <1>2, NeighborsTypes, PTL DEF N!Spec

\* Whatever scans, saves, crashes and starts come between, new inbounds get the
\* neighbour the picker shows as the best.
THEOREM PublishedHolds == N!Spec => []N!PublishedIsStored
<1>1. N!Init => SameInv
  BY DEF N!Init, SameInv, N!NoResult
<1>2. N!TypeOK /\ HoldInv /\ HoldInv' /\ SameInv /\ [N!Next]_(N!vars) => SameInv'
  <2> SUFFICES ASSUME N!TypeOK, HoldInv, HoldInv', SameInv, [N!Next]_(N!vars) PROVE SameInv'
    OBVIOUS
  <2> USE DEF N!host, N!page, N!bounds
  <2>s. DOMAIN scan = N!Scanners /\ \A s \in N!Scanners : DOMAIN scan[s] = {"st", "ip", "r", "gone"}
    BY DEF N!TypeOK, N!Call
  <2>d. ASSUME proc' # "up", stored' = stored PROVE SameInv'
    BY <2>d DEF SameInv
  \* No result is stored and none leaves the state "publish".
  <2>k. ASSUME UNCHANGED <<stored, proc, preferred>>,
               \A s \in N!Scanners : scan[s].st = "publish" => scan'[s].st = "publish"
        PROVE  SameInv'
    BY <2>k DEF SameInv
  <2>1. CASE N!Crash
    BY <2>1, <2>d DEF N!Crash, N!Stop
  <2>2. ASSUME NEW a \in Addrs, N!Readdress(a) PROVE SameInv'
    BY <2>2, <2>d DEF N!Readdress, N!Stop
  <2>3. CASE N!Start \/ N!Heal \/ N!Rewrite
    BY <2>3, <2>d DEF N!Start, N!Heal, N!Rewrite
  <2>4. CASE N!DropScan
    BY <2>4 DEF N!DropScan, SameInv, N!NoResult
  <2>5. CASE N!Publish
    BY <2>5 DEF N!Publish, N!Published, SameInv
  <2>6. ASSUME NEW s \in N!Scanners, N!TryLock(s) PROVE SameInv'
    BY <2>6, <2>s, <2>k DEF N!TryLock, N!Step
  <2>7. ASSUME NEW s \in N!Scanners, N!FindNeighbors(s) PROVE SameInv'
    BY <2>7, <2>s, <2>k DEF N!FindNeighbors
  <2>8. ASSUME NEW s \in N!Scanners, N!SetSetting(s) PROVE SameInv'
    <3>1. CASE stored' = scan[s].r /\ N!Step(s, "publish")
      <4>1. scan'[s].st = "publish"
        BY <3>1, <2>s DEF N!Step
      <4>2. scan[s].r.ip # 0
        BY <2>8 DEF N!SetSetting, HoldInv, Holding
      <4>3. QED
        BY <3>1, <4>1, <4>2 DEF SameInv
    <3>2. CASE N!Step(s, "failed") /\ stored' = stored
      <4>1. scan[s].st = "save" /\ UNCHANGED <<proc, preferred>>
        BY <2>8 DEF N!SetSetting
      <4>2. \A t \in N!Scanners \ {s} : scan'[t] = scan[t]
        BY <3>2, <2>s DEF N!Step
      <4>3. QED
        BY <3>2, <4>1, <4>2, <2>k
    <3>3. QED
      BY <2>8, <3>1, <3>2 DEF N!SetSetting
  <2>9. ASSUME NEW s \in N!Scanners, N!SetResult(s) PROVE SameInv'
    <3>1. stored = scan[s].r /\ stored' = stored /\ preferred' = N!Published(stored)
      BY <2>9 DEF N!SetResult, HoldInv
    <3>2. QED
      BY <3>1 DEF N!Published, SameInv
  <2>10. ASSUME NEW s \in N!Scanners, N!Answer(s) PROVE SameInv'
    BY <2>10, <2>s, <2>k DEF N!Answer
  <2>11. ASSUME NEW p \in Viewers, N!Scan(p) PROVE SameInv'
    BY <2>11, <2>s, <2>k DEF N!Scan
  <2>12. ASSUME NEW p \in Viewers, N!Leave(p) PROVE SameInv'
    BY <2>12, <2>s, <2>k DEF N!Leave
  <2>13. ASSUME NEW p \in Viewers, N!Ask(p) \/ N!GetRealityNeighbors(p) \/ N!Shown(p) PROVE SameInv'
    BY <2>13, <2>k DEF N!Ask, N!GetRealityNeighbors, N!Shown
  <2>14. CASE UNCHANGED N!vars
    BY <2>14, <2>k DEF N!vars
  <2>15. QED
    BY <2>1, <2>2, <2>3, <2>4, <2>5, <2>6, <2>7, <2>8, <2>9, <2>10, <2>11, <2>12, <2>13, <2>14
       DEF N!Next, N!Boots, N!Scans
<1>3. HoldInv /\ SameInv => N!PublishedIsStored
  BY DEF HoldInv, SameInv, N!PublishedIsStored, Holding
<1>4. QED
  BY <1>1, <1>2, <1>3, Held, NeighborsTypes, PTL DEF N!Spec

\* Where the addresses stand at each step of the start-up, when following the
\* last change was not cut short: first all are the one that is bound, then the
\* bound one is new and the rest old, in the end all are the host's.
FitInv ==
  "heal" \notin broken /\ listen # 0 =>
    /\ proc \in {"down", "heal"} => cap = listen /\ stored.ip \in {0, listen}
    /\ proc = "drop" => listen = mach /\ cap = old /\ stored.ip \in {0, old}
    /\ proc = "cap" => listen = mach /\ cap = old /\ stored.ip \in {0, mach}
    /\ proc \in {"init", "up"} => listen = mach /\ cap = mach /\ stored.ip \in {0, mach}
    /\ preferred = N!Fallback \/ preferred.ip = mach
    /\ \A s \in N!Scanners : scan[s].st \in Awaiting => scan[s].ip = mach

\* New inbounds of a host that binds its address borrow a site next to the
\* address the host has now.
THEOREM DefaultHolds == N!Spec => []N!DefaultFits
<1>1. N!Init => FitInv
  BY DEF N!Init, FitInv, N!NoResult, N!Idle, Awaiting
<1>2. N!TypeOK /\ HoldInv /\ FitInv /\ [N!Next]_(N!vars) => FitInv'
  <2> SUFFICES ASSUME N!TypeOK, HoldInv, FitInv, [N!Next]_(N!vars),
                      "heal" \notin broken', listen' # 0
               PROVE  FitInv'
    BY DEF FitInv
  <2> USE DEF N!host, N!page, N!bounds
  <2>s. DOMAIN scan = N!Scanners /\ \A s \in N!Scanners : DOMAIN scan[s] = {"st", "ip", "r", "gone"}
    BY DEF N!TypeOK, N!Call
  <2>k. ASSUME UNCHANGED <<N!host, stored, proc, old>>, broken \subseteq broken',
               preferred' = preferred \/ preferred'.ip = mach,
               \A s \in N!Scanners : scan'[s].st \in Awaiting =>
                 scan'[s].ip = mach \/ (scan'[s].ip = scan[s].ip /\ scan[s].st \in Awaiting)
        PROVE  FitInv'
    BY <2>k DEF FitInv
  <2>x. ASSUME N!Stop
        PROVE  /\ proc' = "down" /\ preferred' = N!Fallback
               /\ \A s \in N!Scanners : scan'[s].st \notin Awaiting
    BY <2>x, <2>s DEF N!Stop, N!Idle, Awaiting
  <2>1. CASE N!Crash
    BY <2>1, <2>x DEF N!Crash, FitInv, N!TypeOK
  <2>2. ASSUME NEW a \in Addrs, N!Readdress(a) PROVE FitInv'
    BY <2>2, <2>x DEF N!Readdress, FitInv
  <2>3. CASE N!Start
    BY <2>3 DEF N!Start, FitInv
  <2>4. CASE N!Heal
    BY <2>4 DEF N!Heal, FitInv, HoldInv
  <2>5. CASE N!DropScan
    BY <2>5 DEF N!DropScan, FitInv, N!NoResult
  <2>6. CASE N!Rewrite
    BY <2>6 DEF N!Rewrite, FitInv
  <2>7. CASE N!Publish
    <3>0. "heal" \notin broken /\ listen # 0 /\ proc = "init"
      BY <2>7 DEF N!Publish
    <3>1. preferred' = preferred \/ preferred'.ip = mach
      BY <2>7, <3>0 DEF N!Publish, N!Published, FitInv
    <3>2. \A s \in N!Scanners : scan'[s] = scan[s] \/ scan'[s].ip = mach
      BY <2>7, <3>0, <2>s DEF N!Publish, N!Idle, FitInv
    <3>3. QED
      BY <2>7, <3>0, <3>1, <3>2 DEF N!Publish, FitInv
  <2>8. ASSUME NEW s \in N!Scanners, N!TryLock(s) PROVE FitInv'
    BY <2>8, <2>s, <2>k DEF N!TryLock, N!Step, Awaiting
  <2>9. ASSUME NEW s \in N!Scanners, N!FindNeighbors(s) PROVE FitInv'
    <3>1. \A t \in N!Scanners : scan'[t].ip = scan[t].ip /\ (scan[t].st \in Awaiting \/ scan'[t].st = scan[t].st)
      BY <2>9, <2>s DEF N!FindNeighbors, Awaiting
    <3>2. QED
      BY <2>9, <3>1, <2>k DEF N!FindNeighbors
  <2>10. ASSUME NEW s \in N!Scanners, N!SetSetting(s) PROVE FitInv'
    <3>1. scan[s].ip = scan[s].r.ip /\ proc = "up" /\ scan[s].st \in Awaiting
      BY <2>10 DEF N!SetSetting, HoldInv, Awaiting
    <3>2. \A t \in N!Scanners : scan'[t].ip = scan[t].ip /\ (scan[t].st \in Awaiting \/ scan'[t].st = scan[t].st)
      BY <2>10, <3>1, <2>s DEF N!SetSetting, N!Step
    <3>3. /\ "heal" \notin broken /\ listen # 0
          /\ UNCHANGED <<N!host, proc, old, preferred>> /\ stored' \in {stored, scan[s].r}
      BY <2>10 DEF N!SetSetting
    <3>4. QED
      BY <3>1, <3>2, <3>3 DEF FitInv
  <2>11. ASSUME NEW s \in N!Scanners, N!SetResult(s) PROVE FitInv'
    <3>1. scan[s].r.ip = scan[s].ip /\ proc = "up" /\ scan[s].st \in Awaiting
      BY <2>11 DEF N!SetResult, HoldInv, Awaiting
    <3>2. scan[s].ip = mach
      BY <2>11, <3>1 DEF N!SetResult, FitInv
    <3>3. preferred' = preferred \/ preferred'.ip = mach
      BY <2>11, <3>1, <3>2 DEF N!SetResult, N!Published
    <3>4. \A t \in N!Scanners : scan'[t].st \in Awaiting => scan'[t] = scan[t]
      BY <2>11, <2>s DEF N!SetResult, N!Step, Awaiting
    <3>5. QED
      BY <2>11, <3>3, <3>4, <2>k DEF N!SetResult
  <2>12. ASSUME NEW s \in N!Scanners, N!Answer(s) PROVE FitInv'
    <3>1. \A t \in N!Scanners : scan'[t].st \in Awaiting => scan'[t] = scan[t]
      BY <2>12, <2>s DEF N!Answer, N!Idle, Awaiting
    <3>2. QED
      BY <2>12, <3>1, <2>k DEF N!Answer
  <2>13. ASSUME NEW p \in Viewers, N!Scan(p) PROVE FitInv'
    <3>1. cap = mach
      BY <2>13 DEF N!Scan, FitInv
    <3>2. \A t \in N!Scanners : scan'[t] = scan[t] \/ scan'[t].ip = mach
      BY <2>13, <3>1, <2>s DEF N!Scan
    <3>3. \A t \in N!Scanners : scan'[t].st \in Awaiting =>
            scan'[t].ip = mach \/ (scan'[t].ip = scan[t].ip /\ scan[t].st \in Awaiting)
      BY <3>2
    <3>4. UNCHANGED <<N!host, stored, proc, old, preferred>> /\ broken' = broken
      BY <2>13 DEF N!Scan
    <3>5. QED
      BY <3>3, <3>4, <2>k
  <2>14. ASSUME NEW p \in Viewers, N!Leave(p) PROVE FitInv'
    BY <2>14, <2>s, <2>k DEF N!Leave
  <2>15. ASSUME NEW p \in Viewers, N!Ask(p) \/ N!GetRealityNeighbors(p) \/ N!Shown(p) PROVE FitInv'
    BY <2>15, <2>k DEF N!Ask, N!GetRealityNeighbors, N!Shown
  <2>16. CASE UNCHANGED N!vars
    BY <2>16, <2>k DEF N!vars
  <2>17. QED
    BY <2>1, <2>2, <2>3, <2>4, <2>5, <2>6, <2>7, <2>8, <2>9, <2>10, <2>11, <2>12, <2>13, <2>14,
       <2>15, <2>16 DEF N!Next, N!Boots, N!Scans
<1>3. FitInv => N!DefaultFits
  BY DEF FitInv, N!DefaultFits
<1>4. QED
  BY <1>1, <1>2, <1>3, Held, NeighborsTypes, PTL DEF N!Spec
=============================================================================
