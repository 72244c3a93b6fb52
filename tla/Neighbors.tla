------------------------------ MODULE Neighbors ------------------------------
(***************************************************************************)
(* The site a Reality inbound borrows: the scan of the server's own /24,   *)
(* the result kept in the settings, the default published in memory, the   *)
(* start-up that follows a provider's change of address, and the picker.   *)
(*                                                                         *)
(* A host has one public address; its inbounds bind it, or a wildcard.     *)
(* Of a result the model keeps the address it was made around, the fastest *)
(* site, and whether the whole range was looked at.                        *)
(***************************************************************************)
EXTENDS Naturals

CONSTANTS Addrs,     \* public IPv4 addresses the host may have, 0 is none
          Sites,     \* usable sites of one range, 0 is none
          Pages,     \* browser tabs
          MaxMoves,  \* bound: what operators and the provider do
          MaxFaults  \* bound: crashes, failed statements, expired deadlines

Boot     == "boot"           \* the scan Init starts
Scanners == Pages \cup {Boot}
Result   == [ip : Addrs \cup {0}, best : Sites \cup {0}, whole : BOOLEAN]
Call     == [st : {"idle", "wait", "run", "save", "publish", "ok", "busy", "noip", "failed"},
             ip : Addrs \cup {0}, r : Result, gone : BOOLEAN]
Site     == [ip : Addrs \cup {0}, n : Sites \cup {0}]
NoResult == [ip |-> 0, best |-> 0, whole |-> TRUE]   \* Load: nil
Unknown  == [ip |-> 0, best |-> 0, whole |-> FALSE]  \* no answer cached yet
Fallback == [ip |-> 0, n |-> 0]

VARIABLES
  mach,      \* the address the host really has
  listen,    \* database: the address inbounds bind, 0 for a wildcard
  cap,       \* network.json: the public IPv4 address, 0 for none
  stored,    \* settings: the last result
  proc,      \* the service: down, a step of its start-up, or up
  old,       \* start-up: the address being replaced
  preferred, \* memory: the published default
  scanning,  \* memory: the mutex of Scan
  scan,      \* each scanner's call
  view, ask, \* each page: the cached answer, the query in flight
  broken,    \* history: what failed, "heal" or "save"
  moves, faults

host   == <<mach, listen, cap>>
page   == <<view, ask>>
bounds == <<moves, faults>>
vars   == <<host, stored, proc, old, preferred, scanning, scan, page, broken, bounds>>

Idle == [st |-> "idle", ip |-> 0, r |-> NoResult, gone |-> FALSE]
NoAsk == [st |-> "idle", r |-> Unknown]

Move  == moves < MaxMoves /\ moves' = moves + 1
Fault == faults < MaxFaults /\ faults' = faults + 1

TypeOK ==
  /\ mach \in Addrs /\ listen \in Addrs \cup {0} /\ cap \in Addrs \cup {0}
  /\ stored \in Result /\ preferred \in Site /\ scanning \in BOOLEAN
  /\ proc \in {"down", "heal", "drop", "cap", "init", "up"} /\ old \in Addrs \cup {0}
  /\ scan \in [Scanners -> Call]
  /\ view \in [Pages -> Result]
  /\ ask \in [Pages -> [st : {"idle", "sent", "done"}, r : Result]]
  /\ broken \subseteq {"heal", "save"}


\* A fresh install, not started yet; network.json agrees with the host, or
\* names no public address and nothing binds one.
Init ==
  /\ mach \in Addrs
  /\ \/ cap = mach /\ listen \in {0, mach}
     \/ cap = 0 /\ listen = 0
  /\ stored = NoResult /\ proc = "down" /\ old = 0
  /\ preferred = Fallback /\ scanning = FALSE
  /\ scan = [s \in Scanners |-> Idle]
  /\ view = [p \in Pages |-> Unknown] /\ ask = [p \in Pages |-> NoAsk]
  /\ broken = {} /\ moves = 0 /\ faults = 0

(***************************************************************************)
(* Start and stop                                                          *)
(***************************************************************************)
\* Memory is lost; the answer a page waits for is an error.
Stop ==
  /\ proc' = "down" /\ preferred' = Fallback /\ scanning' = FALSE /\ old' = 0
  /\ scan' = [s \in Scanners |->
                IF s = Boot \/ scan[s].st = "idle" THEN Idle
                ELSE [scan[s] EXCEPT !.st = IF @ = "ok" THEN @ ELSE "failed"]]

Crash ==
  /\ proc # "down" /\ Fault /\ Stop
  /\ broken' = IF proc \in {"drop", "cap"} THEN broken \cup {"heal"} ELSE broken
  /\ UNCHANGED <<host, stored, page, moves>>

\* The provider reboots the host with another address.
Readdress(a) ==
  /\ a # mach /\ proc \in {"down", "up"} /\ Move /\ Stop
  /\ mach' = a
  /\ UNCHANGED <<listen, cap, stored, page, broken, faults>>

Start ==
  /\ proc = "down" /\ proc' = "heal"
  /\ UNCHANGED <<host, stored, old, preferred, scanning, scan, page, broken, bounds>>

\* planAddressChange with one public address, and the transaction of
\* applyAddressChange; when that fails the change is given up until the next start.
Heal ==
  /\ proc = "heal"
  /\ \/ /\ listen \in {0, mach} /\ proc' = "init"
        /\ UNCHANGED <<listen, old, broken, faults>>
     \/ /\ listen \notin {0, mach} /\ proc' = "drop"
        /\ old' = listen /\ listen' = mach
        /\ UNCHANGED <<broken, faults>>
     \/ /\ listen \notin {0, mach} /\ Fault /\ proc' = "init"
        /\ broken' = broken \cup {"heal"}
        /\ UNCHANGED <<listen, old>>
  /\ UNCHANGED <<mach, cap, stored, preferred, scanning, scan, page, moves>>

\* The rest of applyAddressChange: errors are ignored.
DropScan ==
  /\ proc = "drop" /\ proc' = "cap"
  /\ \/ /\ stored' = IF stored.ip = old THEN NoResult ELSE stored
        /\ UNCHANGED <<broken, faults>>
     \/ /\ stored.ip = old /\ Fault
        /\ broken' = broken \cup {"heal"}
        /\ UNCHANGED stored
  /\ UNCHANGED <<host, old, preferred, scanning, scan, page, moves>>

\* rewriteCapability: errors are logged.
Rewrite ==
  /\ proc = "cap" /\ proc' = "init" /\ old' = 0
  /\ \/ /\ cap' = IF cap = old THEN mach ELSE cap
        /\ UNCHANGED <<broken, faults>>
     \/ /\ Fault /\ broken' = broken \cup {"heal"}
        /\ UNCHANGED cap
  /\ UNCHANGED <<mach, listen, stored, preferred, scanning, scan, page, moves>>

Published(r) == IF r.best # 0 THEN [ip |-> r.ip, n |-> r.best] ELSE preferred

Publish ==
  /\ proc = "init" /\ proc' = "up"
  /\ IF stored.ip # 0
     THEN preferred' = Published(stored) /\ UNCHANGED scan
     ELSE /\ scan' = [scan EXCEPT ![Boot] = [Idle EXCEPT !.st = "wait", !.ip = cap]]
          /\ UNCHANGED preferred
  /\ UNCHANGED <<host, stored, old, scanning, page, broken, bounds>>

(***************************************************************************)
(* One scan                                                                *)
(***************************************************************************)
Step(s, st) == scan' = [scan EXCEPT ![s].st = st]

TryLock(s) ==
  /\ proc = "up" /\ scan[s].st = "wait"
  /\ \/ scanning /\ Step(s, "busy") /\ UNCHANGED scanning
     \/ ~scanning /\ scan[s].ip = 0 /\ Step(s, "noip") /\ UNCHANGED scanning
     \/ ~scanning /\ scan[s].ip # 0 /\ Step(s, "run") /\ scanning' = TRUE
  /\ UNCHANGED <<host, stored, proc, old, preferred, page, broken, bounds>>

\* When the caller left or the three minutes are over the loops stop early and
\* what was found so far is the result.
FindNeighbors(s) ==
  /\ scan[s].st = "run"
  /\ \E best \in Sites \cup {0}, cut \in BOOLEAN :
       /\ scan[s].gone => cut
       /\ cut /\ ~scan[s].gone => faults < MaxFaults
       /\ faults' = IF cut /\ ~scan[s].gone THEN faults + 1 ELSE faults
       /\ scan' = [scan EXCEPT ![s].st = "save",
                               ![s].r = [ip |-> scan[s].ip, best |-> best, whole |-> ~cut]]
  /\ UNCHANGED <<host, stored, proc, old, preferred, scanning, page, broken, moves>>

SetSetting(s) ==
  /\ scan[s].st = "save"
  /\ \/ /\ stored' = scan[s].r /\ Step(s, "publish")
        /\ UNCHANGED <<scanning, broken, faults>>
     \/ /\ Fault /\ Step(s, "failed") /\ scanning' = FALSE
        /\ broken' = broken \cup {"save"}
        /\ UNCHANGED stored
  /\ UNCHANGED <<host, proc, old, preferred, page, moves>>

SetResult(s) ==
  /\ scan[s].st = "publish"
  /\ preferred' = Published(scan[s].r) /\ scanning' = FALSE /\ Step(s, "ok")
  /\ UNCHANGED <<host, stored, proc, old, page, broken, bounds>>

(***************************************************************************)
(* The picker                                                              *)
(***************************************************************************)
\* "Scan neighbours"; the handler reads network.json first.
Scan(p) ==
  /\ proc = "up" /\ scan[p].st = "idle" /\ Move
  /\ scan' = [scan EXCEPT ![p] = [Idle EXCEPT !.st = "wait", !.ip = cap]]
  /\ UNCHANGED <<host, stored, proc, old, preferred, scanning, page, broken, faults>>

\* The page is closed or reloaded: the request it waits for is cancelled.
Leave(p) ==
  /\ Move
  /\ view' = [view EXCEPT ![p] = Unknown] /\ ask' = [ask EXCEPT ![p] = NoAsk]
  /\ scan' = [scan EXCEPT ![p].gone = (scan[p].st # "idle")]
  /\ UNCHANGED <<host, stored, proc, old, preferred, scanning, broken, faults>>

\* The answer replaces the cached one; a query in flight goes on.
Answer(s) ==
  /\ scan[s].st \in {"ok", "busy", "noip", "failed"}
  /\ scan' = [scan EXCEPT ![s] = Idle]
  /\ view' = [p \in Pages |-> IF p = s /\ scan[s].st = "ok" /\ ~scan[s].gone
                              THEN scan[s].r ELSE view[p]]
  /\ UNCHANGED <<host, stored, proc, old, preferred, scanning, ask, broken, bounds>>

\* The picker is mounted, or the window gets the focus.
Ask(p) ==
  /\ ask[p].st = "idle" /\ Move
  /\ ask' = [ask EXCEPT ![p].st = "sent"]
  /\ UNCHANGED <<host, stored, proc, old, preferred, scanning, scan, view, broken, faults>>

GetRealityNeighbors(p) ==
  /\ proc = "up" /\ ask[p].st = "sent"
  /\ ask' = [ask EXCEPT ![p] = [st |-> "done", r |-> stored]]
  /\ UNCHANGED <<host, stored, proc, old, preferred, scanning, scan, view, broken, bounds>>

Shown(p) ==
  /\ ask[p].st = "done"
  /\ view' = [view EXCEPT ![p] = ask[p].r] /\ ask' = [ask EXCEPT ![p] = NoAsk]
  /\ UNCHANGED <<host, stored, proc, old, preferred, scanning, scan, broken, bounds>>

\* The picker's text below its title.
Text(p) == CASE view[p].best # 0 -> "candidates"
             [] view[p].best = 0 /\ view[p].ip # 0 -> "staying on the fallback"
             [] OTHER -> "not scanned yet"

Boots     == Start \/ Heal \/ DropScan \/ Rewrite \/ Publish
Scans(s)  == TryLock(s) \/ FindNeighbors(s) \/ SetSetting(s) \/ SetResult(s)
Next ==
  \/ Crash
  \/ \E a \in Addrs : Readdress(a)
  \/ Boots
  \/ \E s \in Scanners : Scans(s) \/ Answer(s)
  \/ \E p \in Pages : Scan(p) \/ Leave(p) \/ Ask(p) \/ GetRealityNeighbors(p) \/ Shown(p)

Spec     == Init /\ [][Next]_vars
\* systemd starts the service again; a sleep ends and a scan ends by its timeouts.
FairSpec == Spec /\ WF_vars(Boots) /\ \A s \in Scanners : WF_vars(Scans(s)) /\ WF_vars(Answer(s))

(***************************************************************************)
(* Properties                                                              *)
(***************************************************************************)
\* What is published is what is stored: no order of overlapping scans, failed
\* saves, crashes and starts leaves new inbounds with another neighbour than
\* the one the picker shows as the best.
PublishedIsStored ==
  proc = "up" /\ ~scanning /\ stored.best # 0
    => preferred = [ip |-> stored.ip, n |-> stored.best]

\* Whatever the provider does, new inbounds of a host that binds its address
\* borrow a site next to the address the host has now, unless a step of
\* following the change was cut short.
DefaultFits ==
  proc = "up" /\ listen # 0 /\ preferred # Fallback /\ "heal" \notin broken
    => preferred.ip = mach

\* A host with a public address gets its first result without anybody asking,
\* through crashes and around an operator's scan that holds the mutex; only a
\* failed save leaves it without one.
FirstScanHappens ==
  stored.ip = 0 /\ cap # 0 ~> stored.ip # 0 \/ "save" \in broken

\* neighbors.go: "Result is a finished scan."
StoredIsFinished == stored.whole

\* en.ts: "No suitable site was found in this range; staying on {{fallback}}".
EmptyMeansFallback ==
  \A p \in Pages : proc = "up" /\ ~scanning /\ view[p] = stored
                     /\ Text(p) = "staying on the fallback" => preferred = Fallback

\* addrchange.go: "every place the old address was recorded is moved to the new one".
EveryPlaceMoved ==
  proc = "up" /\ listen = mach => cap = mach /\ stored.ip \in {0, mach}
=============================================================================
