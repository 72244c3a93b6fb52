------------------------------- MODULE Engine -------------------------------
(***************************************************************************)
(* One proxy engine of the node: internal/node/engine/singbox and its twin *)
(* internal/node/engine/xray.  An Engine owns the active configuration     *)
(* file and its backup, at most one child process, and a supervisor        *)
(* goroutine that restarts a child that exited on its own.                 *)
(*                                                                         *)
(* Every method holds e.mu from its first line to its last, so one program *)
(* counter (pc) is enough for all callers: pc # "free" is "e.mu is held".  *)
(* The supervisor takes e.mu for four short sections and waits and sleeps  *)
(* between them without it; those sections are its actions.                *)
(*                                                                         *)
(* A child is a number: the n-th child ever started.  It may exit at any   *)
(* moment, the panel may die at any moment, a write or a fork may fail;    *)
(* each of these spends one of MaxFaults.                                  *)
(***************************************************************************)
EXTENDS Integers, Sequences, FiniteSets

CONSTANTS Configs,      \* what the renderer can produce
          Valid,        \* the rendered configurations that pass `check`
          None,         \* the file does not exist
          Torn,         \* a file whose writing was cut short
          Empty,        \* the rendering of "no inbound is mine"
          IdleOnEmpty,  \* TRUE for xray: Empty means stop, not render
          MaxBackoff,   \* supervisorBackoffMax, in units of the minimum
          MaxOps,       \* bound: calls of Apply and Restart
          MaxFaults,    \* bound: exits, failed writes and forks, panel crashes
          MaxStarts     \* bound: children the supervisor may start

ASSUME EngineAssumption ==
  /\ Valid \subseteq Configs
  /\ None \notin Configs /\ Torn \notin Configs /\ None # Torn
  /\ IdleOnEmpty \in BOOLEAN
  /\ MaxBackoff \in Nat \ {0}
  /\ MaxOps \in Nat /\ MaxFaults \in Nat /\ MaxStarts \in Nat

VARIABLES
  config,   \* the active configuration file
  bak,      \* the backup file
  pc,       \* where the holder of e.mu is in Apply; "free" when nobody holds it
  want,     \* the configuration Apply was called with
  before,   \* history: the active file when the pipeline started
  outcome,  \* what the last finished call returned
  proc,     \* e.proc, 0 for nil
  live,     \* the children that have not exited
  runs,     \* runs[n]: the file content child n was started from
  age,      \* time since e.startedAt: 0 < crashLoopWindow <= 1 < 3 windows <= 2
  lastErr,  \* e.lastErr # ""
  supPc,    \* where the supervisor is; "off" before the first start
  supP,     \* the child it read from e.proc at the top of its loop
  backoff,  \* its local backoff
  ops, faults

disk    == <<config, bak>>
call    == <<pc, want, before, outcome>>
child   == <<proc, live, runs, age>>
sup     == <<supPc, supP, backoff>>
budgets == <<ops, faults>>
vars    == <<disk, call, child, lastErr, sup, budgets>>

Content  == Configs \cup {Torn}
Outcomes == {"none", "applied", "rejected", "failed", "rolledback", "idle",
             "restarted"}
PipelinePcs == {"backup", "swap", "reload", "verify", "rollback"}
SupPcs      == {"off", "read", "wait", "ask", "note", "sleep"}

Fault   == faults < MaxFaults /\ faults' = faults + 1
NoFault == UNCHANGED faults
NewCall == ops < MaxOps /\ ops' = ops + 1

(***************************************************************************)
(* Child processes                                                         *)
(***************************************************************************)
Alive == proc \in live                      \* aliveLocked

NoneLeft == live \ {proc}                   \* who is left after stopLocked

\* startLocked with the file holding c: cmd.Start succeeded.  The first
\* start of the engine also launches the supervisor.
Launch(c, left) ==
  /\ c # None
  /\ runs' = Append(runs, c)
  /\ proc' = Len(runs) + 1
  /\ live' = left \cup {Len(runs) + 1}
  /\ age' = 0

WakeSupervisor == supPc' = IF supPc = "off" THEN "read" ELSE supPc

\* restartLocked: stopLocked, whose error is ignored, then startLocked.
Restarted(c) ==
  /\ Launch(c, NoneLeft)
  /\ WakeSupervisor /\ UNCHANGED <<supP, backoff>>

\* The same with startLocked failing: no file, or the fork failed.
RestartFailed(c) ==
  /\ proc' = 0 /\ live' = NoneLeft
  /\ UNCHANGED <<runs, age, sup>>
  /\ IF c = None THEN NoFault ELSE Fault

(***************************************************************************)
(* Apply                                                                   *)
(***************************************************************************)
Return(o) == pc' = "free" /\ outcome' = o

\* Preflight, rendering, staging or `check` failed: an early return that has
\* changed neither the active file nor the child.
ApplyReject(c) ==
  /\ pc = "free" /\ NewCall
  /\ Return("rejected")
  /\ UNCHANGED <<disk, want, before, child, lastErr, sup, faults>>

\* xray only: nothing to serve, so the child is stopped before preflight and
\* the active file is left where it is.
ApplyIdle(c) ==
  /\ pc = "free" /\ NewCall
  /\ IdleOnEmpty /\ c = Empty
  /\ proc' = 0 /\ live' = NoneLeft
  /\ Return("idle")
  /\ UNCHANGED <<disk, want, before, runs, age, lastErr, sup, faults>>

\* The configuration was rendered, staged and passed `check`.
ApplyBegin(c) ==
  /\ pc = "free" /\ NewCall
  /\ ~(IdleOnEmpty /\ c = Empty)
  /\ c \in Valid
  /\ pc' = "backup" /\ want' = c /\ before' = config
  /\ UNCHANGED <<disk, outcome, child, lastErr, sup, faults>>

\* Mutation: the first backup ever made is kept for good.
MutBackup ==
  /\ pc = "backup"
  /\ bak' = IF bak = None THEN config ELSE bak
  /\ NoFault /\ pc' = "swap"
  /\ UNCHANGED <<config, want, before, outcome, child, lastErr, sup, ops>>

\* Copy the active file over the backup, or remove a stale backup.
Backup ==
  /\ pc = "backup"
  /\ UNCHANGED <<config, want, before, child, lastErr, sup, ops>>
  /\ \/ /\ bak' = config /\ NoFault
        /\ pc' = "swap" /\ UNCHANGED outcome
     \/ /\ config # None
        /\ bak' \in {bak, Torn} /\ Fault
        /\ Return("failed")

Swap ==
  /\ pc = "swap"
  /\ UNCHANGED <<bak, want, before, child, lastErr, sup, ops>>
  /\ \/ /\ config' = want /\ NoFault
        /\ pc' = "reload" /\ UNCHANGED outcome
     \/ /\ Fault /\ UNCHANGED config
        /\ Return("failed")

Reload ==
  /\ pc = "reload"
  /\ UNCHANGED <<disk, want, before, outcome, lastErr, ops>>
  /\ \/ Restarted(config) /\ NoFault /\ pc' = "verify"
     \/ RestartFailed(config) /\ pc' = "rollback"

\* After verifyDelay: alive is success, dead is noteExitLocked and rollback.
Verify ==
  /\ pc = "verify"
  /\ UNCHANGED <<disk, want, before, child, sup, budgets>>
  /\ \/ Alive /\ Return("applied") /\ lastErr' = FALSE
     \/ ~Alive /\ pc' = "rollback" /\ lastErr' = TRUE /\ UNCHANGED outcome

\* Mutation: the restart comes before the restored file.
MutRollback ==
  /\ pc = "rollback" /\ bak # None
  /\ Restarted(config) /\ config' = bak
  /\ NoFault /\ Return("rolledback")
  /\ UNCHANGED <<bak, want, before, lastErr, ops>>

\* rollbackLocked: no backup, a copy that fails half-way, or backup restored
\* and restarted - without verifying that child.
Rollback ==
  /\ pc = "rollback"
  /\ UNCHANGED <<bak, want, before, lastErr, ops>>
  /\ \/ /\ bak = None
        /\ Return("failed")
        /\ UNCHANGED <<config, child, sup, faults>>
     \/ /\ bak # None
        /\ config' \in {config, Torn} /\ Fault
        /\ Return("failed")
        /\ UNCHANGED <<child, sup>>
     \/ /\ bak # None
        /\ config' = bak
        /\ \/ Restarted(bak) /\ NoFault /\ Return("rolledback")
           \/ RestartFailed(bak) /\ Return("failed")

(***************************************************************************)
(* Restart and Status                                                      *)
(***************************************************************************)
RestartCall ==
  /\ pc = "free" /\ NewCall
  /\ UNCHANGED <<disk, want, before, lastErr>>
  /\ \/ Restarted(config) /\ NoFault /\ Return("restarted")
     \/ RestartFailed(config) /\ Return("failed")

\* Status forgets the last error once a child has stayed up long enough.
Status ==
  /\ pc = "free" /\ Alive /\ age = 2 /\ lastErr
  /\ lastErr' = FALSE
  /\ UNCHANGED <<disk, call, child, sup, budgets>>

(***************************************************************************)
(* The supervisor                                                          *)
(***************************************************************************)
\* With e.proc nil it sleeps and looks again, which changes nothing.
SupRead ==
  /\ supPc = "read" /\ pc = "free" /\ proc # 0
  /\ supP' = proc /\ supPc' = "wait"
  /\ UNCHANGED <<disk, call, child, lastErr, backoff, budgets>>

\* p.done is closed: the child it watches has exited.
SupWake ==
  /\ supPc = "wait" /\ supP \notin live
  /\ supPc' = "ask"
  /\ UNCHANGED <<disk, call, child, lastErr, supP, backoff, budgets>>

\* Mutations: no re-check at all; a nil e.proc taken for the dead child.
MutNoRecheck  == TRUE
MutNilIsMine  == proc \in {supP, 0}

StillMine == proc = supP

\* Mutation: the goroutine returns instead of starting over.
MutSupReturns == supPc' = "off" /\ backoff' = 1

\* Somebody replaced or cleared e.proc: start over with the new state.
SupLookAgain == supPc' = "read" /\ backoff' = 1

SupAsk ==
  /\ supPc = "ask" /\ pc = "free"
  /\ IF StillMine THEN supPc' = "note" /\ UNCHANGED backoff ELSE SupLookAgain
  /\ UNCHANGED <<disk, call, child, lastErr, supP, budgets>>

\* noteExitLocked; the age it looks at is that of the latest start.
SupNote ==
  /\ supPc = "note" /\ pc = "free"
  /\ lastErr' = TRUE
  /\ backoff' = IF age = 0 THEN backoff ELSE 1
  /\ supPc' = "sleep"
  /\ UNCHANGED <<disk, call, child, supP, budgets>>

\* Mutation: the cap of the backoff is forgotten.
MutUncapped == 2 * backoff

Doubled == IF 2 * backoff < MaxBackoff THEN 2 * backoff ELSE MaxBackoff

\* After the sleep: if the dead child is still the recorded one, start anew.
SupRetry ==
  /\ supPc = "sleep" /\ pc = "free"
  /\ supPc' = "read"
  /\ UNCHANGED <<disk, call, lastErr, supP, ops>>
  /\ \/ ~StillMine /\ SupLookAgain /\ UNCHANGED <<child, faults>>
     \/ /\ StillMine /\ Len(runs) < MaxStarts
        /\ Launch(config, live)
        /\ backoff' = Doubled /\ NoFault
     \/ /\ StillMine
        /\ backoff' = Doubled /\ UNCHANGED child
        /\ IF config = None THEN NoFault ELSE Fault

(***************************************************************************)
(* The environment                                                         *)
(***************************************************************************)
\* A child exits: killed, crashed, port taken - or its file was torn.
Exit(n) ==
  /\ n \in live
  /\ live' = live \ {n}
  /\ IF runs[n] = Torn THEN NoFault ELSE Fault
  /\ UNCHANGED <<disk, call, proc, runs, age, lastErr, sup, ops>>

Age ==
  /\ proc # 0 /\ age < 2
  /\ age' = age + 1
  /\ UNCHANGED <<disk, call, proc, live, runs, lastErr, sup, budgets>>

\* The panel dies and is started again: systemd kills the children with it,
\* and of a file that was being copied over only a part may be there.
PanelCrash ==
  /\ Fault
  /\ config' \in IF pc = "rollback" /\ bak # None THEN {config, Torn} ELSE {config}
  /\ bak' \in IF pc = "backup" /\ config # None THEN {bak, Torn} ELSE {bak}
  /\ pc' = "free" /\ outcome' = "none"
  /\ proc' = 0 /\ live' = {} /\ age' = 0 /\ lastErr' = FALSE
  /\ supPc' = "off" /\ supP' = 0 /\ backoff' = 1
  /\ UNCHANGED <<want, before, runs, ops>>

Init ==
  /\ config = None /\ bak = None
  /\ pc = "free" /\ want = None /\ before = None
  /\ outcome = "none"
  /\ proc = 0 /\ live = {} /\ runs = <<>> /\ age = 0
  /\ lastErr = FALSE
  /\ supPc = "off" /\ supP = 0 /\ backoff = 1
  /\ ops = 0 /\ faults = 0

Pipeline   == Backup \/ Swap \/ Reload \/ Verify \/ Rollback
Supervisor == SupRead \/ SupWake \/ SupAsk \/ SupNote \/ SupRetry

Next ==
  \/ \E c \in Configs : ApplyReject(c) \/ ApplyIdle(c) \/ ApplyBegin(c)
  \/ Pipeline
  \/ RestartCall \/ Status
  \/ Supervisor
  \/ \E n \in live : Exit(n)
  \/ Age \/ PanelCrash

\* A call that holds e.mu goes on; the supervisor's sections get e.mu however
\* often callers take it in between, because a Go mutex hands itself to the
\* oldest waiter once that one has been starved for a millisecond.
Fairness ==
  /\ WF_vars(Pipeline)
  /\ WF_vars(SupWake)
  /\ SF_vars(SupRead) /\ SF_vars(SupAsk) /\ SF_vars(SupNote) /\ SF_vars(SupRetry)

Spec     == Init /\ [][Next]_vars
FairSpec == Spec /\ Fairness
(***************************************************************************)
(* Properties                                                              *)
(***************************************************************************)
Dead == proc # 0 /\ ~Alive      \* a recorded child that has exited

TypeOK ==
  /\ config \in Content \cup {None} /\ bak \in Content \cup {None}
  /\ pc \in PipelinePcs \cup {"free"}
  /\ want \in Valid \cup {None} /\ before \in Content \cup {None}
  /\ outcome \in Outcomes
  /\ runs \in Seq(Content)
  /\ proc \in 0..Len(runs) /\ live \subseteq 1..Len(runs)
  /\ age \in 0..2 /\ lastErr \in BOOLEAN
  /\ supPc \in SupPcs /\ supP \in 0..Len(runs)
  /\ backoff \in 1..MaxBackoff
  /\ ops \in 0..MaxOps /\ faults \in 0..MaxFaults

\* At most one child of the engine exists and it is the recorded one: two
\* would fight for the same ports.  The callers of restartLocked and the
\* supervisor both start children; the re-check of e.proc after the backoff
\* sleep is all that keeps them apart.
OneChild == live \subseteq {proc}

\* Whenever e.mu is free, a live child runs what the active file holds, and
\* that passed `check` or was torn by a failed write.  Apply exchanges file
\* and child in separate steps, any of which may fail, and the supervisor
\* starts from the file: no way of leaving Apply may leave the two apart.
ServesTheFile ==
  pc = "free" /\ Alive => runs[proc] = config /\ config \in Valid \cup {Torn}

\* "rolled back" in the answer means that the file is again what it was when
\* the call began.
RolledBackIsBefore == outcome = "rolledback" /\ pc = "free" => config = before

\* The supervisor brings back a child that died, never an engine that has
\* none: an xray engine emptied by Apply stays down while the supervisor is
\* in any part of its wait-note-sleep-retry round.
OnlyCallersRevive ==
  [][proc = 0 /\ proc' # 0 => supPc' = supPc \/ supPc = "off"]_vars

\* An engine whose child exited is running again, unless a caller stopped it
\* or the file cannot be started from (or the bound on starts is reached).
CrashRecovers ==
  Dead ~> \/ Alive \/ proc = 0
          \/ config \in {None, Torn} \/ Len(runs) >= MaxStarts

\* The engine keeps the contract of EngineContract.
Contract == INSTANCE EngineContract WITH
  Content   <- Configs,
  accepted  <- IF pc = "free" THEN config ELSE before,
  candidate <- IF pc = "free" THEN None ELSE want,
  serving   <- IF Alive THEN runs[proc] ELSE None

KeepsContract == Contract!CSpec
=============================================================================
