------------------------------- MODULE Gateway -------------------------------
(***************************************************************************)
(* The built-in HTTPS gateway of the edge domain: the posture that the     *)
(* anti-blocking page saves whole, the passes that bring the listener in   *)
(* line with it from several goroutines at a time, the one attempt to get  *)
(* a certificate with its back-off, and the status that the page shows and *)
(* decides by.                                                             *)
(***************************************************************************)
EXTENDS Integers, FiniteSets

CONSTANTS Tabs,       \* open anti-blocking pages
          Passes,     \* goroutines that can be in Reconcile at once
          Domains,    \* edge domains the operator owns
          AltPorts,   \* the other HTTPS ports that Cloudflare proxies
          Starts,     \* the stored posture and the surroundings that the process starts with
          MaxMoves    \* bound: what the operator does, what changes around, and what fails

Modes == {"", "builtin", "external"}
Ports == {443} \cup AltPorts

Postures == [domain: {""} \cup Domains, mode: Modes, open: BOOLEAN, hide: BOOLEAN, port: Ports]
Outsides == [dns: SUBSET Domains, busy80: BOOLEAN, taken: BOOLEAN]

ASSUME GatewayAssumption ==
  /\ IsFiniteSet(Domains) /\ "" \notin Domains /\ Passes # {}
  /\ AltPorts \subseteq Nat \ {0, 443} /\ MaxMoves \in Nat
  /\ Starts \subseteq [posture: Postures, around: Outsides]

VARIABLES
  posture,   \* settings: domain, mode, open origin, panel only behind the gateway, port
  token,     \* settings: a Cloudflare token is stored
  only,      \* the flag that the listener of the panel reads
  srv,       \* the server that the gateway has a hold of
  listening, \* the servers that hold a port
  status,    \* what the gateway last published
  try,       \* the last attempt at a certificate, and whether the next must wait
  issuing,   \* the attempt that runs
  certs,     \* database: the certificate of each domain
  around,    \* which domains resolve, and who is on ports 80 and 443
  pass,      \* the passes
  page,      \* what each page shows
  moves

gw   == <<srv, listening, status, try, issuing>>
gatewayVars == <<posture, token, only, gw, certs, around, pass, page, moves>>

Off    == [mode |-> "off", running |-> FALSE, domain |-> "", open |-> FALSE, port |-> 0,
           cert |-> "", dated |-> FALSE]
NoServer == [port |-> 0, open |-> FALSE, by |-> 0]
NoCert == [d \in Domains |-> "none"]
Rest   == [pc |-> "idle", cfg |-> [domain |-> "", mode |-> "", open |-> FALSE, hide |-> FALSE, port |-> 443],
           srv |-> NoServer, st |-> Off]
Closed == [posture |-> Rest.cfg, gateway |-> Off, owner |-> FALSE, alt |-> {}]

\* With the bound spent no page asks for anything any more, and none is kept.
Move  == /\ moves < MaxMoves /\ moves' = moves + 1
         /\ page' = IF moves' = MaxMoves THEN [t \in Tabs |-> Closed] ELSE page

(***************************************************************************)
(* The page                                                                *)
(***************************************************************************)
\* Who is on 443 that is not the gateway itself.
gatewayServes(p) == status.mode = "builtin" /\ status.running /\ status.port = p
Owner443 == around.taken /\ ~gatewayServes(443)

\* The alternative ports on which nothing listens.
freeAltPort == {p \in AltPorts : \A s \in listening : s.port # p}

AntiBlockData == [posture |-> posture, gateway |-> status, owner |-> Owner443, alt |-> freeAltPort]

\* On mount, on focus, after a change, and every five seconds while a
\* certificate is being requested; in the model at any time, and not any more
\* when the operator has spent his moves.
useAntiBlock(t) ==
  /\ moves < MaxMoves
  /\ page[t] # AntiBlockData
  /\ page' = [page EXCEPT ![t] = AntiBlockData]
  /\ UNCHANGED <<posture, token, only, gw, certs, around, pass, moves>>

\* The panel can hide behind no gateway when there is no domain, or another
\* program serves it.
Normalize(c) ==
  [c EXCEPT !.hide = @ /\ c.domain # "" /\ c.mode # "external"]

Ready == status.mode = "builtin" /\ status.running /\ status.dated

PutAntiBlock(c) ==
  LET next == Normalize(c) IN
    /\ next.hide /\ ~posture.hide => Ready
    /\ posture' = next /\ only' = next.hide
    /\ UNCHANGED <<token, gw, certs, around, pass>>

\* Every save sends the whole posture as the page has it, one switch changed.
ModeSelect(d) == {[d.posture EXCEPT !.mode = m] : m \in Modes}

BuiltinSwitches(d) ==
  IF d.gateway.mode # "builtin" THEN {}
  ELSE {[d.posture EXCEPT !.open = ~@]} \cup
       {[d.posture EXCEPT !.hide = ~@] : x \in
          {1} \cap (IF d.posture.hide \/ (d.gateway.running /\ d.gateway.cert = "ok") THEN {1} ELSE {})}

\* Another program is on the port and the operator has not chosen yet.
StatusCard(d) ==
  IF d.gateway.mode # "pending" \/ ~d.owner THEN {}
  ELSE {[d.posture EXCEPT !.mode = "external"]} \cup
       {[d.posture EXCEPT !.mode = "builtin", !.port = p] : p \in d.alt}

save(t) == \E c \in ModeSelect(page[t]) \cup BuiltinSwitches(page[t]) \cup StatusCard(page[t]) :
  Move /\ PutAntiBlock(c)

\* A gateway that serves on an alternative port keeps it while 443 is taken.
SetupPorts ==
  IF ~around.taken THEN {443}
  ELSE IF status.mode = "builtin" /\ status.running /\ status.port # 443 THEN {status.port}
  ELSE IF gatewayServes(443) THEN {443} ELSE freeAltPort

\* It starts from the stored posture; the flag of the listener is left alone.
SetupAntiBlock(d, use) ==
  LET cfg == [posture EXCEPT !.domain = d] IN
    /\ posture' \in {Normalize(c) : c \in
         IF use = "external" THEN {[cfg EXCEPT !.mode = "external"]}
         ELSE {[cfg EXCEPT !.mode = "builtin", !.port = p] : p \in SetupPorts}}
    /\ UNCHANGED <<token, only, gw, certs, around, pass>>

QuickSetupCard(t) ==
  \E d \in Domains, use \in {"builtin"} \cup (IF page[t].owner THEN {"external"} ELSE {}) :
    Move /\ SetupAntiBlock(d, use)

\* The back-off ends; the pass that follows may ask at once.
RetryCertificate == try' = [try EXCEPT !.wait = FALSE]

\* Shown while the last attempt failed.
retry(t) ==
  /\ page[t].gateway.mode = "builtin" /\ page[t].gateway.cert \in {"no_dns", "failed"}
  /\ Move /\ RetryCertificate
  /\ UNCHANGED <<posture, token, only, srv, listening, status, issuing, certs, around, pass>>

CloudflareTokenForm(t) ==
  /\ page[t].gateway.cert = "need_token"
  /\ Move /\ token' = TRUE /\ RetryCertificate
  /\ UNCHANGED <<posture, only, srv, listening, status, issuing, certs, around, pass>>

(***************************************************************************)
(* A pass: from the timer, a handler or the end of an attempt              *)
(***************************************************************************)
To(p, r) == pass' = [pass EXCEPT ![p] = r]
Quiet    == UNCHANGED <<posture, token, only, certs, around, page, moves>>

Serve(c) == c.mode = "builtin" /\ c.domain # ""

LoadPosture(p) ==
  /\ pass[p].pc = "idle"
  /\ To(p, [Rest EXCEPT !.pc = IF Serve(posture) THEN "stale" ELSE "stop", !.cfg = [posture EXCEPT !.hide = FALSE]])
  /\ UNCHANGED gw /\ Quiet

Fits(s, c) == s.port = c.port /\ s.open = c.open

MutStale(p) ==
  /\ pass[p].pc = "stale"
  /\ To(p, [pass[p] EXCEPT !.pc = IF srv # NoServer /\ srv.port # pass[p].cfg.port THEN "stop" ELSE "listen"])
  /\ UNCHANGED gw /\ Quiet

\* Looked at under the lock, which is let go before stop takes it again.
Stale(p) ==
  /\ pass[p].pc = "stale"
  /\ To(p, [pass[p] EXCEPT !.pc = IF srv # NoServer /\ ~Fits(srv, pass[p].cfg) THEN "stop" ELSE "listen"])
  /\ UNCHANGED gw /\ Quiet

\* Where no gateway is to serve, that is what is published next.
NotServing(c) ==
  IF c.domain = "" THEN Off
  ELSE [Off EXCEPT !.mode = IF c.mode = "external" THEN "external" ELSE "pending", !.domain = c.domain]

MutStop(p) ==
  /\ pass[p].pc = "stop"
  /\ To(p, [pass[p] EXCEPT !.pc = "close", !.srv = srv])
  /\ UNCHANGED <<srv, listening, status, try, issuing>> /\ Quiet

\* The server is let go of under the lock, and shut down after it.
Stop(p) ==
  /\ pass[p].pc = "stop"
  /\ srv' = NoServer
  /\ To(p, [pass[p] EXCEPT !.pc = "close", !.srv = srv])
  /\ UNCHANGED <<listening, status, try, issuing>> /\ Quiet

Close(p) ==
  /\ pass[p].pc = "close"
  /\ listening' = listening \ {pass[p].srv}
  /\ To(p, IF Serve(pass[p].cfg) THEN [pass[p] EXCEPT !.pc = "listen", !.srv = NoServer]
           ELSE [pass[p] EXCEPT !.pc = "publish", !.srv = NoServer, !.st = NotServing(pass[p].cfg)])
  /\ UNCHANGED <<srv, status, try, issuing>> /\ Quiet

PortFree(port) == (\A s \in listening : s.port # port) /\ ~(port = 443 /\ around.taken)

Builtin(c, on) ==
  [Off EXCEPT !.mode = "builtin", !.running = on, !.domain = c.domain, !.open = on /\ c.open, !.port = c.port]

\* The port is taken first, and the gateway told of the server after that.
Listen(p) ==
  LET c == pass[p].cfg IN
    /\ pass[p].pc = "listen"
    /\ \/ /\ srv # NoServer
          /\ To(p, [pass[p] EXCEPT !.pc = "ask"])
          /\ UNCHANGED listening
       \/ /\ srv = NoServer /\ PortFree(c.port)
          /\ listening' = listening \cup {[port |-> c.port, open |-> c.open, by |-> p]}
          /\ To(p, [pass[p] EXCEPT !.pc = "keep", !.srv = [port |-> c.port, open |-> c.open, by |-> p]])
       \/ /\ srv = NoServer /\ ~PortFree(c.port)
          /\ To(p, [pass[p] EXCEPT !.pc = "publish", !.st = Builtin(c, FALSE)])
          /\ UNCHANGED listening
    /\ UNCHANGED <<srv, status, try, issuing>> /\ Quiet

Keep(p) ==
  /\ pass[p].pc = "keep"
  /\ srv' = pass[p].srv
  /\ To(p, [pass[p] EXCEPT !.pc = "ask", !.srv = NoServer])
  /\ UNCHANGED <<listening, status, try, issuing>> /\ Quiet

NeedCFToken == ~token /\ around.busy80

\* One attempt at a time, and not before the back-off of this domain is over.
issueAsync(d) ==
  IF issuing.domain # "" \/ (try.domain = d /\ try.wait) THEN UNCHANGED <<try, issuing>>
  ELSE /\ issuing' = [domain |-> d, phase |-> "lookup"]
       /\ try' = IF try.domain # d THEN [domain |-> d, state |-> "", wait |-> FALSE] ELSE try

certStatus(d, valid) ==
  IF valid THEN "ok"
  ELSE IF issuing'.domain # "" THEN "issuing"
  ELSE IF NeedCFToken THEN "need_token"
  ELSE IF try'.domain = d /\ try'.state # "" THEN try'.state
  ELSE "issuing"

\* The certificate is looked for, asked for if there is no valid one, and its
\* state read, all of it before the status is published.
Ask(p) ==
  LET c == pass[p].cfg  valid == certs[c.domain] = "valid" IN
    /\ pass[p].pc = "ask"
    /\ IF valid \/ NeedCFToken THEN UNCHANGED <<try, issuing>> ELSE issueAsync(c.domain)
    /\ To(p, [pass[p] EXCEPT !.pc = "publish", !.st =
         [Builtin(c, TRUE) EXCEPT !.dated = certs[c.domain] # "none", !.cert = certStatus(c.domain, valid)]])
    /\ UNCHANGED <<srv, listening, status>> /\ Quiet

Publish(p) ==
  /\ pass[p].pc = "publish"
  /\ status' = pass[p].st
  /\ To(p, Rest)
  /\ UNCHANGED <<srv, listening, try, issuing>> /\ Quiet

(***************************************************************************)
(* The attempt at a certificate                                            *)
(***************************************************************************)
MutEnded(state, wait) ==
  /\ issuing' = [issuing EXCEPT !.phase = ""]
  /\ try' = [try EXCEPT !.state = state, !.wait = wait]
  /\ UNCHANGED <<posture, token, only, srv, listening, status, around, pass>>

Ended(state, wait) ==
  /\ issuing' = [domain |-> "", phase |-> ""]
  /\ try' = [try EXCEPT !.state = state, !.wait = wait]
  /\ UNCHANGED <<posture, token, only, srv, listening, status, around, pass>>

\* A name that does not resolve is not put to the certificate authority.
Lookup ==
  /\ issuing.phase = "lookup"
  /\ \/ /\ issuing.domain \notin around.dns
        /\ Ended("no_dns", TRUE) /\ UNCHANGED <<certs, page, moves>>
     \/ /\ issuing.domain \in around.dns
        /\ issuing' = [issuing EXCEPT !.phase = "issue"]
        /\ UNCHANGED <<posture, token, only, srv, listening, status, try, certs, around, pass, page, moves>>

\* Validated over DNS with a token, otherwise through port 80. What else can
\* go wrong is one of the bounded moves.
Provable == issuing.domain \in around.dns /\ (token \/ ~around.busy80)

Issue ==
  /\ issuing.phase = "issue"
  /\ \/ /\ Provable
        /\ certs' = [certs EXCEPT ![issuing.domain] = "valid"]
        /\ Ended("", FALSE) /\ UNCHANGED <<page, moves>>
     \/ /\ ~Provable
        /\ Ended("failed", TRUE) /\ UNCHANGED <<certs, page, moves>>
     \/ /\ Provable /\ Move
        /\ Ended("failed", TRUE) /\ UNCHANGED certs

\* A minute, or an hour, has gone by.
Elapse ==
  /\ try.wait
  /\ RetryCertificate
  /\ UNCHANGED <<posture, token, only, srv, listening, status, issuing, certs, around, pass, page, moves>>

(***************************************************************************)
(* Around the panel                                                        *)
(***************************************************************************)
Surroundings ==
  /\ Move
  /\ \/ \E d \in Domains : around' = [around EXCEPT !.dns = IF d \in @ THEN @ \ {d} ELSE @ \cup {d}]
     \/ around' = [around EXCEPT !.busy80 = ~@]
     \/ /\ around.taken \/ \A s \in listening : s.port # 443
        /\ around' = [around EXCEPT !.taken = ~@]
  /\ UNCHANGED <<posture, token, only, gw, certs, pass>>

Expire ==
  /\ Move
  /\ \E d \in Domains : certs[d] = "valid" /\ certs' = [certs EXCEPT ![d] = "expired"]
  /\ UNCHANGED <<posture, token, only, gw, around, pass>>

\* Nothing of the gateway outlives the process but its settings; the listener
\* of the panel reads its flag from them.
Restart ==
  /\ Move
  /\ only' = posture.hide
  /\ srv' = NoServer /\ listening' = {} /\ status' = Off
  /\ try' = [domain |-> "", state |-> "", wait |-> FALSE]
  /\ issuing' = [domain |-> "", phase |-> ""]
  /\ pass' = [p \in Passes |-> Rest]
  /\ UNCHANGED <<posture, token, certs, around>>

GatewayInit ==
  /\ \E s \in Starts : posture = s.posture /\ around = s.around
  /\ token = FALSE /\ only = posture.hide
  /\ srv = NoServer /\ listening = {} /\ status = Off
  /\ try = [domain |-> "", state |-> "", wait |-> FALSE]
  /\ issuing = [domain |-> "", phase |-> ""]
  /\ certs = NoCert
  /\ pass = [p \in Passes |-> Rest]
  /\ page = [t \in Tabs |-> AntiBlockData]
  /\ moves = 0

Reconcile(p) ==
  \/ LoadPosture(p) \/ Stale(p) \/ Stop(p) \/ Close(p) \/ Listen(p) \/ Keep(p)
  \/ Ask(p) \/ Publish(p)

GatewayNext ==
  \/ \E t \in Tabs : useAntiBlock(t) \/ save(t) \/ QuickSetupCard(t) \/ retry(t) \/ CloudflareTokenForm(t)
  \/ \E p \in Passes : Reconcile(p)
  \/ Lookup \/ Issue \/ Elapse
  \/ Surroundings \/ Expire \/ Restart

GatewaySpec == GatewayInit /\ [][GatewayNext]_gatewayVars

\* The ticker starts a pass for ever, a pass that runs goes on, an attempt has
\* a timeout, and time goes by. The operator owes nothing.
GatewayFairSpec ==
  /\ GatewaySpec
  /\ \A p \in Passes : WF_gatewayVars(Reconcile(p))
  /\ WF_gatewayVars(Lookup) /\ WF_gatewayVars(Issue) /\ WF_gatewayVars(Elapse)

(***************************************************************************)
(* Properties                                                              *)
(***************************************************************************)
\* The server that the gateway has a hold of holds its port: no pass reports,
\* or keeps for the next, one that another pass has shut down meanwhile.
KnowsOnlyLiveServers == srv # NoServer => srv \in listening

\* Once things are left alone the page tells the truth about what is served:
\* the mode and the domain are those stored, and the gateway runs exactly when
\* a server with the port and the filter that are stored is up. A pass that
\* read an older posture, or was overtaken, does not have the last word.
Truthful ==
  /\ status.domain = posture.domain
  /\ Serve(posture) =>
       /\ status.mode = "builtin"
       /\ status.running = (srv # NoServer)
       /\ srv # NoServer => Fits(srv, posture) /\ status.open = posture.open
  /\ ~Serve(posture) => srv = NoServer /\ status = NotServing(posture)
StatusCatchesUp == <>[]Truthful

\* A gateway that runs, for a name that resolves and that can be validated,
\* ends up with a valid certificate and says so, whatever was tried before.
CertifiedInTheEnd ==
  <>[](srv # NoServer /\ Serve(posture) /\ posture.domain \in around.dns /\ (token \/ ~around.busy80)
         => certs[posture.domain] = "valid" /\ status.cert = "ok")
=============================================================================
