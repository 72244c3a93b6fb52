------------------------------- MODULE Upkeep -------------------------------
(***************************************************************************)
(* What happens to the panel itself: it is restarted from a page, upgraded *)
(* and rolled back by a script that outlives it, given another database by *)
(* a restore, and crashes at any step of these; while open pages find out  *)
(* which version runs, and the daily digest must still go out.             *)
(***************************************************************************)
EXTENDS Integers, FiniteSets

CONSTANTS Tabs,      \* open pages
          First,     \* the version that is installed
          Latest,    \* the version that is released
          MaxMoves   \* bound: what the operator does and what fails

ASSUME UpkeepAssumption == First \in Nat \ {0} /\ Latest \in Nat /\ First < Latest /\ MaxMoves \in Nat

VARIABLES
  proc,    \* the panel's process: how far it is up, its version, and whether it exits in 0.8 s
  disk,    \* the binary, the database and its log, what the script kept, the staged restore
  script,  \* upgrade.sh: where it is, what it replaced, its target, whether a rollback went well
  file,    \* upgrade-status.json
  broken,  \* the versions that never come up
  page,    \* what each page shows and waits for
  upload,  \* the restore request that is being served
  archive, \* the backup that the operator keeps
  digest,  \* the runner of the daily digest
  got,     \* history: the digest of today arrived
  moves

upkeepVars == <<proc, disk, script, file, broken, page, upload, archive, digest, got, moves>>

Absent == 0
Torn   == -1
\* A database: its schema, the schema of the archive it came from if it did,
\* two settings, and the mark of today's digest.
NoDB   == [schema |-> Absent, from |-> Absent, notify |-> FALSE, check |-> FALSE, today |-> FALSE]
Half   == [NoDB EXCEPT !.schema = Torn]
Saved  == [schema |-> First, from |-> Absent, notify |-> TRUE, check |-> TRUE, today |-> FALSE]
Fresh(v) == [ver |-> v, loading |-> FALSE, told |-> Absent, offer |-> Absent, started |-> FALSE, restarting |-> FALSE]

Newer(a, b) == IF a > b THEN a ELSE b

\* A log is replayed into whatever database lies beside it.
Beside(log) == IF log = "none" THEN "none" ELSE "foreign"
Opened(log) == IF log = "foreign" THEN "mixed" ELSE "own"

Move    == moves < MaxMoves /\ moves' = moves + 1
Serving == proc.pc = "up"

\* Requests and timers die with the process.
Ends(pc) == /\ proc' = [proc EXCEPT !.pc = pc, !.doomed = FALSE]
            /\ upload' = "none" /\ digest' = "idle"

Exits == proc' = [proc EXCEPT !.doomed = TRUE]

(***************************************************************************)
(* The process                                                             *)
(***************************************************************************)
\* 0.8 s after the answer to a restart or a restore.
Exit == /\ Serving /\ proc.doomed
        /\ Ends("down")
        /\ UNCHANGED <<disk, script, file, broken, page, archive, got, moves>>

Crash == /\ proc.pc \notin {"down", "stopped"}
         /\ Move /\ Ends("down")
         /\ UNCHANGED <<disk, script, file, broken, page, archive, got>>

Boot(pc) == /\ proc' = [proc EXCEPT !.pc = pc]
            /\ UNCHANGED <<script, file, broken, page, upload, archive, digest, got, moves>>

\* systemd starts it again whatever ended it.
RestartAlways ==
  /\ proc.pc = "down"
  /\ proc' = [pc |-> IF disk.pending = NoDB THEN "open" ELSE "keep", ver |-> disk.bin, doomed |-> FALSE]
  /\ UNCHANGED <<disk, script, file, broken, page, upload, archive, digest, got, moves>>

\* The database is moved aside, its log goes, the staged one takes its place.
KeepCurrent  == proc.pc = "keep"  /\ disk' = [disk EXCEPT !.db = NoDB] /\ Boot("clear")

MutClearLog  == proc.pc = "clear" /\ UNCHANGED disk /\ Boot("place")

ClearLog     == proc.pc = "clear" /\ disk' = [disk EXCEPT !.log = "none"] /\ Boot("place")

PlacePending == /\ proc.pc = "place"
                /\ disk' = [disk EXCEPT !.db = disk.pending, !.pending = NoDB, !.log = Beside(@)]
                /\ Boot("open")

\* The tables are migrated; a broken version dies before or after that.
Open ==
  /\ proc.pc = "open"
  /\ \/ /\ proc.ver \notin broken /\ disk.db # Half
        /\ disk' = [disk EXCEPT !.db.schema = Newer(@, proc.ver), !.log = Opened(@)]
        /\ proc' = [proc EXCEPT !.pc = "up"]
     \/ /\ proc.ver \in broken \/ disk.db = Half
        /\ \/ UNCHANGED disk
           \/ /\ disk.db # Half
              /\ disk' = [disk EXCEPT !.db.schema = Newer(@, proc.ver), !.log = Opened(@)]
        /\ proc' = [proc EXCEPT !.pc = "down"]
  /\ UNCHANGED <<script, file, broken, page, upload, archive, digest, got, moves>>

(***************************************************************************)
(* upgrade.sh, in a unit of its own                                        *)
(***************************************************************************)
To(pc)      == script' = [script EXCEPT !.pc = pc]
Panel       == UNCHANGED <<page, archive, got>>
Undisturbed == Panel /\ UNCHANGED <<proc, upload, digest>>

\* One upgrade at a time, to a version newer than the one that answers.
Upgrade ==
  /\ Serving /\ script.pc = "idle" /\ proc.ver < Latest
  /\ script' = [pc |-> "main", from |-> disk.bin, to |-> Latest, ok |-> TRUE]

\* Until here the status file is still that of the upgrade before.
main == /\ script.pc = "main"
        /\ file' = [state |-> "running", to |-> script.to]
        /\ To("backup") /\ Undisturbed /\ UNCHANGED <<disk, broken, moves>>

\* A database that is not there just then is not copied.
backup == /\ script.pc = "backup"
          /\ disk' = [disk EXCEPT !.binKept = disk.bin, !.kept = IF disk.db = NoDB THEN @ ELSE disk.db]
          /\ To("source") /\ Undisturbed /\ UNCHANGED <<file, broken, moves>>

locate_source ==
  /\ script.pc = "source"
  /\ \/ To("install") /\ UNCHANGED moves
     \/ To("rollback") /\ Move
  /\ Undisturbed /\ UNCHANGED <<disk, file, broken>>

\* The installer fails before the binary is replaced, or after.
install ==
  /\ script.pc = "install"
  /\ \/ disk' = [disk EXCEPT !.bin = script.to] /\ To("restart") /\ UNCHANGED moves
     \/ disk' \in {disk, [disk EXCEPT !.bin = script.to]} /\ To("rollback") /\ Move
  /\ Undisturbed /\ UNCHANGED <<file, broken>>

restart == /\ script.pc = "restart"
           /\ Ends("down") /\ To("health")
           /\ Panel /\ UNCHANGED <<disk, file, broken, moves>>

Answers(v) == Serving /\ proc.ver = v

MutHealth == script.pc = "health"

\* Asked every two seconds, thirty times.
health_ok == script.pc = "health" /\ Answers(script.to)

healthy == /\ health_ok
           /\ file' = [file EXCEPT !.state = "success"]
           /\ disk' = [disk EXCEPT !.kept = NoDB]
           /\ To("idle") /\ Undisturbed /\ UNCHANGED <<broken, moves>>

\* A version that comes up may still be too slow for the script.
unhealthy == /\ script.pc = "health"
             /\ To("rollback") /\ Undisturbed /\ UNCHANGED <<disk, file, broken, moves>>

rollback == /\ script.pc = "rollback"
            /\ disk' = [disk EXCEPT !.bin = disk.binKept]
            /\ To("stop") /\ Undisturbed /\ UNCHANGED <<file, broken, moves>>

stop == /\ script.pc = "stop"
        /\ Ends("stopped") /\ To("database")
        /\ Panel /\ UNCHANGED <<disk, file, broken, moves>>

\* What was saved since the copy is lost; a staged restore stays staged. A
\* process that still held the file would write its own pages into it.
database == /\ script.pc = "database"
            /\ disk' = IF disk.kept = NoDB THEN disk
                       ELSE [disk EXCEPT !.db = disk.kept, !.log = IF proc.pc = "up" THEN "mixed" ELSE "none"]
            /\ To("again") /\ Undisturbed /\ UNCHANGED <<file, broken, moves>>

again == /\ script.pc = "again"
         /\ \/ Ends("down") /\ UNCHANGED moves /\ To("report")
            \/ UNCHANGED <<proc, upload, digest>> /\ Move /\ script' = [script EXCEPT !.pc = "report", !.ok = FALSE]
         /\ Panel /\ UNCHANGED <<disk, file, broken>>

\* Nobody asks whether the old version came up.
report == /\ script.pc = "report"
          /\ file' = [file EXCEPT !.state = IF script.ok THEN "rolledback" ELSE "manual"]
          /\ To("idle") /\ Undisturbed /\ UNCHANGED <<disk, broken, moves>>

(***************************************************************************)
(* The pages                                                               *)
(***************************************************************************)
Set(t, p) == page' = [page EXCEPT ![t] = p]
Server    == UNCHANGED <<proc, disk, script, file, upload, archive, digest, got>>

\* A page that is loaded while nothing answers is lost.
Load(t) == /\ page[t].loading
           /\ Set(t, [Fresh(IF Serving THEN proc.ver ELSE Absent) EXCEPT !.told = page[t].told])
           /\ Server /\ UNCHANGED <<broken, moves>>

Reload(p) == [p EXCEPT !.loading = TRUE]

\* The operator opens the page again.
Refresh(t) == Move /\ Set(t, Reload(page[t])) /\ Server /\ UNCHANGED broken

MutRunningVersion(t) ==
  /\ Serving /\ page[t].ver \notin {Absent, proc.ver} /\ page[t].told # proc.ver
  /\ page[t].offer # Absent
  /\ Set(t, Reload([page[t] EXCEPT !.told = proc.ver]))
  /\ Server /\ UNCHANGED <<broken, moves>>

\* Every minute; the session remembers the version it reloaded for.
RunningVersion(t) ==
  /\ Serving /\ page[t].ver \notin {Absent, proc.ver} /\ page[t].told # proc.ver
  /\ Set(t, Reload([page[t] EXCEPT !.told = proc.ver]))
  /\ Server /\ UNCHANGED <<broken, moves>>

Offer == IF disk.db.check /\ proc.ver < Latest THEN Latest ELSE Absent

\* On load, on focus, and when the operator asks; nothing is offered when the
\* check is switched off.
CheckNowButton(t) ==
  /\ Serving /\ page[t].ver # Absent /\ page[t].offer # Offer
  /\ Set(t, [page[t] EXCEPT !.offer = Offer])
  /\ Server /\ UNCHANGED <<broken, moves>>

UpgradeSection(t) ==
  /\ page[t].ver # Absent /\ page[t].offer # Absent /\ ~page[t].started
  /\ Move /\ Upgrade
  /\ Set(t, [page[t] EXCEPT !.started = TRUE])
  /\ UNCHANGED <<proc, disk, file, broken, upload, archive, digest, got>>

\* From the bot, or the menu on the server.
cmdUpgrade == /\ Move /\ Upgrade
              /\ UNCHANGED <<proc, disk, file, broken, page, upload, archive, digest, got>>

\* Asked as soon as the upgrade is started, and every four seconds.
UpgradeStatus(t) ==
  /\ Serving /\ page[t].started /\ file.state = "success" /\ ~page[t].loading
  /\ Set(t, Reload(page[t]))
  /\ Server /\ UNCHANGED <<broken, moves>>

RestartService(t) ==
  /\ Serving /\ page[t].ver # Absent /\ ~page[t].restarting
  /\ Move /\ Exits
  /\ Set(t, [page[t] EXCEPT !.restarting = TRUE])
  /\ UNCHANGED <<disk, script, file, broken, upload, archive, digest, got>>

\* Four seconds later the old process is gone; the page asks until something
\* answers, or for ninety seconds, and then reads everything again.
Back(t) == /\ page[t].restarting /\ ~proc.doomed
           /\ Set(t, [page[t] EXCEPT !.restarting = FALSE, !.offer = IF Serving THEN Offer ELSE @])
           /\ Server /\ UNCHANGED <<broken, moves>>

\* A copy of the database as it is then, which knows nothing of versions.
SystemBackup(t) ==
  /\ Serving /\ page[t].ver # Absent /\ archive # disk.db
  /\ Move /\ archive' = disk.db
  /\ Set(t, page[t]) /\ UNCHANGED <<proc, disk, script, file, broken, upload, digest, got>>

\* The staged file is written in place: what was staged before is gone.
BackupCard(t) ==
  /\ Serving /\ page[t].ver # Absent /\ upload = "none"
  /\ Move /\ upload' = "writing" /\ disk' = [disk EXCEPT !.pending = Half]
  /\ UNCHANGED <<proc, script, file, broken, page, archive, digest, got>>

Staged == [archive EXCEPT !.from = archive.schema]

\* Refused, or failed after the file was accepted: it stays, and is applied by
\* the next start. The page goes to the login four seconds after the answer.
SystemRestore(t) ==
  /\ Serving /\ upload = "writing" /\ upload' = "none"
  /\ \/ /\ disk' = [disk EXCEPT !.pending = Staged]
        /\ Exits /\ Set(t, Reload(page[t])) /\ UNCHANGED moves
     \/ /\ disk' = [disk EXCEPT !.pending = NoDB]
        /\ UNCHANGED <<proc, page, moves>>
     \/ /\ disk' = [disk EXCEPT !.pending = Staged]
        /\ Move /\ UNCHANGED <<proc, page>>
  /\ UNCHANGED <<script, file, broken, archive, digest, got>>

Stores(t) == /\ Serving /\ page[t].ver # Absent /\ Move
             /\ UNCHANGED <<proc, script, file, broken, page, upload, archive, digest, got>>

\* The whole form is saved; another hour or minute arms today's digest again.
NotifyCard(t) ==
  /\ Stores(t)
  /\ \E notify, check, rearm \in BOOLEAN :
       disk' = [disk EXCEPT !.db.notify = notify, !.db.check = check, !.db.today = @ /\ ~rearm]

\* Another time zone, in which it is another day.
AppearanceCard(t) == Stores(t) /\ disk.db.today /\ disk' = [disk EXCEPT !.db.today = FALSE]

(***************************************************************************)
(* The daily digest, from the minute of today on which it is due           *)
(***************************************************************************)
Runner == UNCHANGED <<proc, script, file, broken, page, upload, archive>>

Due == Serving /\ disk.db.notify /\ ~disk.db.today

MutMaybeSend == /\ Due /\ digest = "idle"
                /\ digest' = "sending" /\ disk' = [disk EXCEPT !.db.today = TRUE]
                /\ Runner /\ UNCHANGED <<got, moves>>

maybeSend == /\ Due /\ digest = "idle"
             /\ digest' = "sending"
             /\ Runner /\ UNCHANGED <<disk, got, moves>>

SendTelegram == /\ digest = "sending"
                /\ \/ digest' = "sent" /\ got' = TRUE /\ UNCHANGED moves
                   \/ digest' = "idle" /\ Move /\ UNCHANGED got
                /\ Runner /\ UNCHANGED disk

MarkSent == /\ digest = "sent" /\ digest' = "idle"
            /\ disk' = [disk EXCEPT !.db.today = TRUE]
            /\ Runner /\ UNCHANGED <<got, moves>>

-----------------------------------------------------------------------------
UpkeepInit ==
  /\ proc = [pc |-> "up", ver |-> First, doomed |-> FALSE]
  /\ disk = [bin |-> First, binKept |-> Absent, db |-> Saved, log |-> "own", kept |-> NoDB, pending |-> NoDB]
  /\ script = [pc |-> "idle", from |-> First, to |-> First, ok |-> TRUE]
  /\ file = [state |-> "idle", to |-> First]
  /\ broken \in SUBSET {Latest}
  /\ page = [t \in Tabs |-> Fresh(First)]
  /\ upload = "none" /\ archive = Saved /\ digest = "idle" /\ got = FALSE /\ moves = 0

ApplyPendingRestore == KeepCurrent \/ ClearLog \/ PlacePending
Process == Exit \/ RestartAlways \/ ApplyPendingRestore \/ Open
Steps   == main \/ backup \/ locate_source \/ install \/ restart \/ healthy \/ unhealthy
           \/ rollback \/ stop \/ database \/ again \/ report
Digest  == maybeSend \/ SendTelegram \/ MarkSent
SettingsPage(t) == AppearanceCard(t) \/ NotifyCard(t) \/ SystemBackup(t) \/ BackupCard(t)
Dashboard(t)    == RestartService(t)
AboutPage(t)    == UpgradeSection(t) \/ CheckNowButton(t)
Operate(t) == Refresh(t) \/ SettingsPage(t) \/ Dashboard(t) \/ AboutPage(t)
Answer(t)  == Load(t) \/ RunningVersion(t) \/ UpgradeStatus(t) \/ Back(t) \/ SystemRestore(t)

UpkeepNext == Crash \/ Process \/ Steps \/ Digest \/ cmdUpgrade \/ \E t \in Tabs : Operate(t) \/ Answer(t)

UpkeepSpec == UpkeepInit /\ [][UpkeepNext]_upkeepVars

\* systemd and the script go on by themselves, the runner ticks every minute,
\* and an open page keeps asking and loads what it was told to.
UpkeepFairSpec ==
  /\ UpkeepSpec /\ WF_upkeepVars(Process) /\ WF_upkeepVars(Steps)
  /\ WF_upkeepVars(maybeSend) /\ WF_upkeepVars(SendTelegram) /\ WF_upkeepVars(MarkSent)
  /\ \A t \in Tabs : WF_upkeepVars(Load(t)) /\ WF_upkeepVars(RunningVersion(t))

-----------------------------------------------------------------------------
(***************************************************************************)
(* What should hold                                                        *)
(***************************************************************************)
\* When the script is done, what it reported is so: after a success the
\* released version is installed and comes up; after a rollback the version
\* from before is, and it works on the database that was copied, which no newer
\* version has migrated since, or on one that the operator restored, whatever
\* crashed, restarted or was restored meanwhile (upgrade.sh health_ok, rollback;
\* UpgradeStatus).  Without a copy the migrated database stays.
TellsTheTruth ==
  script.pc = "idle" =>
    /\ file.state = "success" => disk.bin = file.to /\ file.to \notin broken
    /\ file.state = "rolledback" => disk.bin = script.from
    /\ file.state \in {"success", "rolledback"} /\ Serving => proc.ver = disk.bin
    /\ file.state = "rolledback" /\ disk.kept # NoDB /\ Serving =>
         disk.db.schema \in {proc.ver, disk.db.from, disk.kept.schema}

\* A log is never replayed into a database that it does not belong to, at
\* whichever step of a restore or a rollback the process dies and is started
\* again (ApplyPendingRestore; upgrade.sh rollback).
OwnLog == disk.log # "mixed"

\* An open page ends on the version that runs, or is lost while it reloads,
\* unless an upgrade is rolled back (Layout; UpgradeSection).
PageCatchesUp ==
  [](script.pc # "rollback") /\ <>[]Serving
    => \A t \in Tabs : <>[](page[t].ver \in {Absent, proc.ver})

\* While the panel stays up with the digest switched on, today's arrives even
\* when a send fails, the panel was down at the minute it was due, or the form
\* is saved meanwhile (notifyrunner maybeSend; UpdateNotify).
DigestGoesOut == <>[](Serving /\ disk.db.notify) => <>got
=============================================================================
