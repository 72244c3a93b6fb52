----------------------------- MODULE EngineProofs -----------------------------
(***************************************************************************)
(* Theorems about Engine for all values of its constants: one child, the   *)
(* child serves the file, an answer "rolled back" tells the truth, and the *)
(* engine keeps EngineContract.  None of the three invariants is inductive *)
(* alone; IInv adds what holds inside Apply and inside the supervisor's    *)
(* round.                                                                  *)
(*                                                                         *)
(* Then about Gateway, for any domains, ports, pages, passes and starts:   *)
(* the types, and that the server it holds is one that listens.            *)
(***************************************************************************)
EXTENDS Engine, Gateway, SequenceTheorems, TLAPS

Checked == Valid \cup {None, Torn}

\* Where Apply is decides what the two files and the child have to do with
\* the configuration it was given and with the file it found.
InApply ==
  /\ config \in Checked /\ bak \in Checked /\ before \in Checked
  /\ pc # "free" => want \in Valid
  /\ pc \in {"backup", "swap"} =>
       config = before /\ (Alive => runs[proc] = before)
  /\ pc \in {"swap", "reload", "verify", "rollback"} => bak = before
  /\ pc \in {"reload", "verify", "rollback"} => config = want
  /\ pc = "verify" /\ Alive => runs[proc] = want
  /\ pc = "rollback" => live = {}

\* The supervisor's round is about one child, which past the wake-up has
\* exited.
InRound ==
  /\ supPc \in {"wait", "ask", "note", "sleep"} => supP # 0
  /\ supPc \in {"ask", "note", "sleep"} => supP \notin live

IInv ==
  /\ TypeOK /\ OneChild /\ InApply /\ InRound
  /\ ServesTheFile /\ RolledBackIsBefore

LEMMA InitIInv == Init => IInv
<1> SUFFICES ASSUME Init PROVE IInv
  OBVIOUS
<1> USE EngineAssumption DEF EngineAssumption, Init
<1>1. runs \in Seq(Content) /\ Len(runs) = 0
  BY EmptySeq
<1>2. lastErr \in BOOLEAN
  OBVIOUS
<1>3. TypeOK
  BY <1>1, <1>2 DEF TypeOK, Content, PipelinePcs, SupPcs, Outcomes
<1>4. OneChild /\ InApply /\ InRound /\ ServesTheFile /\ RolledBackIsBefore
  BY DEF OneChild, InApply, InRound, ServesTheFile, RolledBackIsBefore, Alive,
         Checked
<1>5. QED
  BY <1>3, <1>4 DEF IInv

\* What a successful start leaves behind, whoever starts.
LEMMA Started ==
  ASSUME runs \in Seq(Content), NEW c \in Content, NEW left, Launch(c, left)
  PROVE  /\ runs' \in Seq(Content)
         /\ Len(runs') = Len(runs) + 1 /\ Len(runs) \in Nat
         /\ proc' = Len(runs') /\ runs'[proc'] = c
         /\ live' = left \cup {proc'}
         /\ age' = 0
  BY DEF Launch

\* A call that has just stopped the recorded child has stopped every child.
LEMMA StopsAll == OneChild => NoneLeft = {}
  BY DEF OneChild, NoneLeft

\* Starting from a file holding c after a stop: one child, running c.
LEMMA RestartedFacts ==
  ASSUME TypeOK, OneChild, InRound, NEW c \in Content \cup {None}, Restarted(c)
  PROVE  /\ c \in Content
         /\ runs' \in Seq(Content) /\ proc' \in 0..Len(runs')
         /\ live' = {proc'} /\ live' \subseteq 1..Len(runs')
         /\ runs'[proc'] = c
         /\ age' \in 0..2 /\ supPc' \in SupPcs /\ supP' \in 0..Len(runs')
         /\ backoff' \in 1..MaxBackoff
         /\ InRound'
<1>1. c \in Content /\ Launch(c, NoneLeft) /\ WakeSupervisor
      /\ supP' = supP /\ backoff' = backoff
  BY DEF Restarted, Launch
<1>2. runs \in Seq(Content) /\ supP \in 0..Len(runs) /\ supPc \in SupPcs
      /\ backoff \in 1..MaxBackoff
  BY DEF TypeOK
<1>3. /\ runs' \in Seq(Content)
      /\ Len(runs') = Len(runs) + 1 /\ Len(runs) \in Nat
      /\ proc' = Len(runs') /\ runs'[proc'] = c
      /\ live' = NoneLeft \cup {proc'} /\ age' = 0
  BY <1>1, <1>2, Started
<1>4. live' = {proc'}
  BY <1>3, StopsAll
<1>5. supPc' \in SupPcs /\ supPc' \in {supPc, "read"}
  BY <1>1, <1>2 DEF WakeSupervisor, SupPcs
<1>6. InRound'
  BY <1>1, <1>2, <1>3, <1>4, <1>5 DEF InRound
<1>7. QED
  BY <1>1, <1>2, <1>3, <1>4, <1>5, <1>6

\* A failed start after a stop: no child is left and none is recorded.
LEMMA RestartFailedFacts ==
  ASSUME TypeOK, OneChild, InRound, NEW c, RestartFailed(c)
  PROVE  /\ proc' = 0 /\ live' = {}
         /\ runs' = runs /\ age' = age /\ sup' = sup
         /\ faults' \in 0..MaxFaults
         /\ InRound'
<1>1. live' = {}
  BY StopsAll DEF RestartFailed
<1>2. faults' \in 0..MaxFaults
  BY EngineAssumption DEF EngineAssumption, RestartFailed, Fault, NoFault, TypeOK
<1>3. QED
  BY <1>1, <1>2 DEF RestartFailed, InRound, sup

\* The parts of a step that leaves the files, the call's place in Apply and
\* the children alone.
LEMMA QuietStep ==
  ASSUME IInv, TypeOK', InRound', UNCHANGED <<disk, pc, want, before, proc, live, runs>>,
         outcome' = outcome \/ outcome' # "rolledback"
  PROVE  IInv'
<1>1. OneChild' /\ ServesTheFile' /\ RolledBackIsBefore'
  BY DEF IInv, OneChild, ServesTheFile, RolledBackIsBefore, Alive, disk
<1>2. InApply'
  BY DEF IInv, InApply, Alive, disk, Checked
<1>3. QED
  BY <1>1, <1>2 DEF IInv

LEMMA ApplyRejectIInv == ASSUME IInv, NEW c \in Configs, ApplyReject(c) PROVE IInv'
<1>1. UNCHANGED <<disk, pc, want, before, proc, live, runs>> /\ outcome' = "rejected"
  BY DEF ApplyReject, Return, child
<1>2. InRound'
  BY DEF IInv, ApplyReject, InRound, sup, child
<1>3. lastErr' = lastErr
  BY DEF ApplyReject
<1>4. ops' \in 0..MaxOps
  BY EngineAssumption DEF EngineAssumption, IInv, TypeOK, ApplyReject, NewCall
<1>5. TypeOK'
  BY <1>1, <1>3, <1>4 DEF IInv, TypeOK, ApplyReject, sup, child, disk, Outcomes
<1>6. QED
  BY <1>1, <1>2, <1>5, QuietStep

LEMMA ApplyIdleIInv == ASSUME IInv, NEW c \in Configs, ApplyIdle(c) PROVE IInv'
<1>1. proc' = 0 /\ live' = {} /\ pc = "free" /\ pc' = "free" /\ outcome' = "idle"
  BY StopsAll DEF IInv, ApplyIdle, Return
<1>2. lastErr' = lastErr
  BY DEF ApplyIdle
<1>3. ops' \in 0..MaxOps
  BY EngineAssumption DEF EngineAssumption, IInv, TypeOK, ApplyIdle, NewCall
<1>4. TypeOK'
  BY <1>1, <1>2, <1>3 DEF IInv, TypeOK, ApplyIdle, sup, disk, Outcomes
<1>5. OneChild' /\ InRound' /\ ServesTheFile' /\ RolledBackIsBefore'
  BY <1>1
  DEF IInv, ApplyIdle, sup, OneChild, InRound, ServesTheFile, RolledBackIsBefore,
      Alive
<1>6. InApply'
  BY <1>1 DEF IInv, InApply, ApplyIdle, disk, Checked
<1>7. QED
  BY <1>4, <1>5, <1>6 DEF IInv

LEMMA ApplyBeginIInv == ASSUME IInv, NEW c \in Configs, ApplyBegin(c) PROVE IInv'
<1>1. /\ pc = "free" /\ pc' = "backup" /\ want' = c /\ c \in Valid /\ before' = config
      /\ UNCHANGED <<disk, outcome, child, sup, faults>>
  BY DEF ApplyBegin
<1>2. lastErr' = lastErr
  BY DEF ApplyBegin
<1>3. ops' \in 0..MaxOps
  BY EngineAssumption DEF EngineAssumption, IInv, TypeOK, ApplyBegin, NewCall
<1>4. TypeOK'
  BY <1>1, <1>2, <1>3 DEF IInv, TypeOK, sup, disk, child, PipelinePcs
<1>5. OneChild' /\ InRound' /\ ServesTheFile' /\ RolledBackIsBefore'
  BY <1>1 DEF IInv, OneChild, InRound, ServesTheFile, RolledBackIsBefore, Alive,
              child, sup
<1>6. InApply'
  BY <1>1 DEF IInv, InApply, ServesTheFile, Alive, disk, child, Checked
<1>7. QED
  BY <1>4, <1>5, <1>6 DEF IInv

LEMMA BackupIInv == ASSUME IInv, Backup PROVE IInv'
<1>1. /\ pc = "backup" /\ UNCHANGED <<config, want, before, child, sup, ops>>
      /\ \/ bak' = config /\ pc' = "swap" /\ outcome' = outcome
         \/ bak' \in {bak, Torn} /\ pc' = "free" /\ outcome' = "failed"
  BY DEF Backup, Return
<1>2. lastErr' = lastErr
  BY DEF Backup
<1>3. faults' \in 0..MaxFaults
  BY EngineAssumption DEF EngineAssumption, IInv, TypeOK, Backup, Fault, NoFault
<1>4. TypeOK'
  BY <1>1, <1>2, <1>3 DEF IInv, TypeOK, sup, child, PipelinePcs, Outcomes, Content
<1>5. OneChild' /\ InRound' /\ RolledBackIsBefore'
  BY <1>1 DEF IInv, OneChild, InRound, RolledBackIsBefore, child, sup
<1>6. InApply' /\ ServesTheFile'
  BY <1>1, EngineAssumption
  DEF EngineAssumption, IInv, TypeOK, InApply, ServesTheFile, Alive, child, Checked, Content
<1>7. QED
  BY <1>4, <1>5, <1>6 DEF IInv
LEMMA SwapIInv == ASSUME IInv, Swap PROVE IInv'
<1>1. /\ pc = "swap" /\ UNCHANGED <<bak, want, before, child, sup, ops>>
      /\ \/ config' = want /\ pc' = "reload" /\ outcome' = outcome
         \/ config' = config /\ pc' = "free" /\ outcome' = "failed"
  BY DEF Swap, Return
<1>2. lastErr' = lastErr
  BY DEF Swap
<1>3. faults' \in 0..MaxFaults
  BY EngineAssumption DEF EngineAssumption, IInv, TypeOK, Swap, Fault, NoFault
<1>4. want \in Valid /\ want \in Content
  BY <1>1, EngineAssumption DEF EngineAssumption, IInv, InApply, Content
<1>5. TypeOK'
  BY <1>1, <1>2, <1>3, <1>4 DEF IInv, TypeOK, sup, child, PipelinePcs, Outcomes
<1>6. OneChild' /\ InRound' /\ RolledBackIsBefore'
  BY <1>1 DEF IInv, OneChild, InRound, RolledBackIsBefore, child, sup
<1>7. InApply'
  BY <1>1, <1>4 DEF IInv, InApply, Alive, child, Checked
<1>8. ServesTheFile'
  <2> SUFFICES ASSUME Alive', pc' = "free"
               PROVE  runs'[proc'] = config' /\ config' \in Valid \cup {Torn}
    BY DEF ServesTheFile
  <2>1. Alive /\ runs[proc] = before /\ config = before /\ config \in Checked
    BY <1>1 DEF IInv, InApply, Alive, child
  <2>2. runs[proc] \in Content
    BY <2>1, ElementOfSeq DEF IInv, TypeOK, Alive
  <2>3. QED
    BY <1>1, <2>1, <2>2, EngineAssumption
    DEF EngineAssumption, child, Checked, Content
<1>9. QED
  BY <1>5, <1>6, <1>7, <1>8 DEF IInv

LEMMA ReloadIInv == ASSUME IInv, Reload PROVE IInv'
<1> USE DEF IInv
<1>1. /\ pc = "reload" /\ UNCHANGED <<disk, want, before, outcome, ops>>
      /\ config = want /\ bak = before /\ want \in Valid
  BY DEF Reload, InApply
<1>2. lastErr' = lastErr
  BY DEF Reload
<1>3. CASE Restarted(config) /\ NoFault /\ pc' = "verify"
  <2>1. config \in Content \cup {None}
    BY DEF TypeOK
  <2>2. /\ runs' \in Seq(Content) /\ proc' \in 0..Len(runs')
        /\ live' = {proc'} /\ live' \subseteq 1..Len(runs')
        /\ runs'[proc'] = config
        /\ age' \in 0..2 /\ supPc' \in SupPcs /\ supP' \in 0..Len(runs')
        /\ backoff' \in 1..MaxBackoff
        /\ InRound'
    BY <1>3, <2>1, RestartedFacts
  <2>3. TypeOK'
    BY <1>1, <1>2, <1>3, <2>2 DEF TypeOK, disk, NoFault, PipelinePcs
  <2>4. OneChild' /\ ServesTheFile' /\ RolledBackIsBefore' /\ InApply'
    BY <1>1, <1>3, <2>2
    DEF OneChild, ServesTheFile, RolledBackIsBefore, InApply, disk, Checked
  <2>5. QED
    BY <2>2, <2>3, <2>4
<1>4. CASE RestartFailed(config) /\ pc' = "rollback"
  <2>1. /\ proc' = 0 /\ live' = {}
        /\ runs' = runs /\ age' = age /\ sup' = sup
        /\ faults' \in 0..MaxFaults /\ InRound'
    BY <1>4, RestartFailedFacts
  <2>2. TypeOK'
    BY <1>1, <1>2, <1>4, <2>1 DEF TypeOK, disk, sup, PipelinePcs
  <2>3. OneChild' /\ ServesTheFile' /\ RolledBackIsBefore' /\ InApply'
    BY <1>1, <1>4, <2>1
    DEF OneChild, ServesTheFile, RolledBackIsBefore, InApply, disk, Checked, Alive
  <2>4. QED
    BY <2>1, <2>2, <2>3
<1>5. QED
  BY <1>3, <1>4 DEF Reload

LEMMA VerifyIInv == ASSUME IInv, Verify PROVE IInv'
<1>1. /\ pc = "verify" /\ UNCHANGED <<disk, want, before, child, sup, budgets>>
      /\ \/ Alive /\ pc' = "free" /\ outcome' = "applied"
         \/ ~Alive /\ pc' = "rollback" /\ outcome' = outcome
  BY DEF Verify, Return
<1>2. lastErr' \in BOOLEAN
  BY DEF Verify, IInv, TypeOK
<1>3. TypeOK'
  BY <1>1, <1>2 DEF IInv, TypeOK, disk, sup, child, budgets, PipelinePcs, Outcomes
<1>4. OneChild' /\ InRound' /\ RolledBackIsBefore' /\ ServesTheFile'
  BY <1>1 DEF IInv, OneChild, InRound, InApply, ServesTheFile, RolledBackIsBefore,
              Alive, disk, child, sup
<1>5. InApply'
  BY <1>1 DEF IInv, InApply, OneChild, Alive, disk, child, Checked
<1>6. QED
  BY <1>3, <1>4, <1>5 DEF IInv
LEMMA RollbackIInv == ASSUME IInv, Rollback PROVE IInv'
<1> USE DEF IInv
<1>1. /\ pc = "rollback" /\ UNCHANGED <<bak, want, before, ops>> /\ pc' = "free"
      /\ config = want /\ bak = before /\ want \in Valid /\ live = {}
  BY DEF Rollback, InApply, Return
<1>2. lastErr' = lastErr
  BY DEF Rollback
<1>3. CASE config' \in {config, Torn} /\ outcome' = "failed"
           /\ UNCHANGED <<child, sup>> /\ faults' \in 0..MaxFaults
  <2>1. TypeOK'
    BY <1>1, <1>2, <1>3 DEF TypeOK, child, sup, Content, Outcomes
  <2>2. OneChild' /\ InRound' /\ RolledBackIsBefore' /\ ServesTheFile' /\ InApply'
    BY <1>1, <1>3 DEF OneChild, InRound, InApply, ServesTheFile, RolledBackIsBefore,
                      Alive, child, sup, Checked
  <2>3. QED
    BY <2>1, <2>2
<1>4. CASE config' = bak /\ bak # None /\ Restarted(bak) /\ NoFault
           /\ outcome' = "rolledback"
  <2>1. bak \in Content \cup {None}
    BY DEF TypeOK
  <2>2. /\ runs' \in Seq(Content) /\ proc' \in 0..Len(runs')
        /\ live' = {proc'} /\ live' \subseteq 1..Len(runs')
        /\ runs'[proc'] = bak
        /\ age' \in 0..2 /\ supPc' \in SupPcs /\ supP' \in 0..Len(runs')
        /\ backoff' \in 1..MaxBackoff
        /\ InRound'
    BY <1>4, <2>1, RestartedFacts
  <2>3. TypeOK'
    BY <1>1, <1>2, <1>4, <2>1, <2>2 DEF TypeOK, NoFault, Outcomes
  <2>4. OneChild' /\ ServesTheFile' /\ RolledBackIsBefore' /\ InApply'
    BY <1>1, <1>4, <2>2
    DEF OneChild, ServesTheFile, RolledBackIsBefore, InApply, Checked
  <2>5. QED
    BY <2>2, <2>3, <2>4
<1>5. CASE config' = bak /\ RestartFailed(bak) /\ outcome' = "failed"
  <2>1. /\ proc' = 0 /\ live' = {}
        /\ runs' = runs /\ age' = age /\ sup' = sup
        /\ faults' \in 0..MaxFaults /\ InRound'
    BY <1>5, RestartFailedFacts
  <2>2. TypeOK'
    BY <1>1, <1>2, <1>5, <2>1 DEF TypeOK, sup, Outcomes
  <2>3. OneChild' /\ ServesTheFile' /\ RolledBackIsBefore' /\ InApply'
    BY <1>1, <1>5, <2>1
    DEF OneChild, ServesTheFile, RolledBackIsBefore, InApply, Checked, Alive
  <2>4. QED
    BY <2>1, <2>2, <2>3
<1>6. \/ bak = None /\ outcome' = "failed" /\ UNCHANGED <<config, child, sup, faults>>
      \/ config' \in {config, Torn} /\ Fault /\ outcome' = "failed"
         /\ UNCHANGED <<child, sup>>
      \/ config' = bak /\ bak # None /\ Restarted(bak) /\ NoFault
         /\ outcome' = "rolledback"
      \/ config' = bak /\ RestartFailed(bak) /\ outcome' = "failed"
  BY Zenon DEF Rollback, Return
<1>7. Fault \/ UNCHANGED faults => faults' \in 0..MaxFaults
  BY EngineAssumption DEF EngineAssumption, TypeOK, Fault
<1>8. QED
  BY <1>3, <1>4, <1>5, <1>6, <1>7

LEMMA RestartCallIInv == ASSUME IInv, RestartCall PROVE IInv'
<1> USE DEF IInv
<1>1. pc = "free" /\ pc' = "free" /\ UNCHANGED <<disk, want, before>>
  BY DEF RestartCall, Return
<1>2. lastErr' = lastErr
  BY DEF RestartCall
<1>3. ops' \in 0..MaxOps
  BY EngineAssumption DEF EngineAssumption, TypeOK, RestartCall, NewCall
<1>4. CASE Restarted(config) /\ NoFault /\ outcome' = "restarted"
  <2>1. config \in Content \cup {None}
    BY DEF TypeOK
  <2>2. /\ runs' \in Seq(Content) /\ proc' \in 0..Len(runs')
        /\ live' = {proc'} /\ live' \subseteq 1..Len(runs')
        /\ runs'[proc'] = config /\ config \in Content
        /\ age' \in 0..2 /\ supPc' \in SupPcs /\ supP' \in 0..Len(runs')
        /\ backoff' \in 1..MaxBackoff
        /\ InRound'
    BY <1>4, <2>1, RestartedFacts
  <2>3. TypeOK'
    BY <1>1, <1>2, <1>3, <1>4, <2>2 DEF TypeOK, disk, NoFault, Outcomes
  <2>4. OneChild' /\ ServesTheFile' /\ RolledBackIsBefore' /\ InApply'
    BY <1>1, <1>4, <2>2, EngineAssumption
    DEF EngineAssumption, OneChild, ServesTheFile, RolledBackIsBefore, InApply,
        disk, Checked, Content
  <2>5. QED
    BY <2>2, <2>3, <2>4
<1>5. CASE RestartFailed(config) /\ outcome' = "failed"
  <2>1. /\ proc' = 0 /\ live' = {}
        /\ runs' = runs /\ age' = age /\ sup' = sup
        /\ faults' \in 0..MaxFaults /\ InRound'
    BY <1>5, RestartFailedFacts
  <2>2. TypeOK'
    BY <1>1, <1>2, <1>3, <1>5, <2>1 DEF TypeOK, disk, sup, Outcomes
  <2>3. OneChild' /\ ServesTheFile' /\ RolledBackIsBefore' /\ InApply'
    BY <1>1, <1>5, <2>1
    DEF OneChild, ServesTheFile, RolledBackIsBefore, InApply, disk, Checked, Alive
  <2>4. QED
    BY <2>1, <2>2, <2>3
<1>6. QED
  BY <1>4, <1>5 DEF RestartCall, Return

\* Status, the ageing of a child, and every step of the supervisor that
\* starts nothing.
LEMMA BystanderIInv ==
  ASSUME IInv, Status \/ SupRead \/ SupWake \/ SupAsk \/ SupNote \/ Age
  PROVE  IInv'
<1> USE DEF IInv
<1>1. UNCHANGED <<disk, call, proc, live, runs, budgets>>
  BY DEF Status, SupRead, SupWake, SupAsk, SupNote, Age, child
<1>2. lastErr' \in BOOLEAN
  BY DEF Status, SupRead, SupWake, SupAsk, SupNote, Age, TypeOK, call
<1>3. age' \in 0..2
  BY DEF Status, SupRead, SupWake, SupAsk, SupNote, Age, TypeOK, child
<1>4. supPc' \in SupPcs /\ supP' \in 0..Len(runs) /\ InRound'
  BY <1>1 DEF Status, SupRead, SupWake, SupAsk, SupNote, Age, TypeOK, sup, SupPcs,
              SupLookAgain, InRound
<1>5. backoff' \in 1..MaxBackoff
  BY EngineAssumption
  DEF EngineAssumption, Status, SupRead, SupWake, SupAsk, SupNote, Age, TypeOK,
      sup, SupLookAgain
<1>6. TypeOK'
  BY <1>1, <1>2, <1>3, <1>4, <1>5 DEF TypeOK, disk, call, budgets
<1>7. QED
  BY <1>1, <1>4, <1>6, QuietStep DEF call, disk

\* The supervisor's start: its child was the recorded one and has exited, so
\* nobody is left when the next one starts.
LEMMA SupRetryIInv == ASSUME IInv, SupRetry PROVE IInv'
<1> USE DEF IInv
<1>1. pc = "free" /\ supPc = "sleep" /\ supPc' = "read"
      /\ UNCHANGED <<disk, call, supP, ops>>
  BY DEF SupRetry
<1>2. lastErr' = lastErr
  BY DEF SupRetry, call
<1>3. backoff' \in 1..MaxBackoff
  BY EngineAssumption
  DEF EngineAssumption, SupRetry, SupLookAgain, Doubled, TypeOK
<1>4. Fault \/ NoFault => faults' \in 0..MaxFaults
  BY EngineAssumption DEF EngineAssumption, TypeOK, Fault, NoFault
<1>5. CASE UNCHANGED child /\ faults' \in 0..MaxFaults
  <2>1. InRound'
    BY <1>1 DEF InRound
  <2>2. TypeOK'
    BY <1>1, <1>2, <1>3, <1>5 DEF TypeOK, disk, call, child, SupPcs
  <2>3. QED
    BY <1>1, <1>5, <2>1, <2>2 DEF disk, call, child, OneChild, ServesTheFile,
       RolledBackIsBefore, InApply, Alive, Checked
<1>6. CASE StillMine /\ Launch(config, live) /\ NoFault
  <2>1. live = {}
    BY <1>1, <1>6 DEF StillMine, InRound, OneChild
  <2>2. config \in Content \cup {None}
    BY DEF TypeOK
  <2>3. /\ runs' \in Seq(Content) /\ proc' \in 0..Len(runs')
        /\ live' = {proc'} /\ live' \subseteq 1..Len(runs')
        /\ runs'[proc'] = config /\ config \in Content
        /\ age' \in 0..2 /\ Len(runs') = Len(runs) + 1 /\ Len(runs) \in Nat
    <3>1. runs \in Seq(Content) /\ config \in Content /\ Launch(config, live)
      BY <1>6, <2>2 DEF TypeOK, Launch
    <3>2. QED
      BY <3>1, <2>1, Started
  <2>4. InRound' /\ supP' \in 0..Len(runs')
    BY <1>1, <2>3 DEF InRound, TypeOK
  <2>5. TypeOK'
    BY <1>1, <1>2, <1>3, <1>6, <2>3, <2>4
    DEF TypeOK, disk, call, NoFault, SupPcs
  <2>6. OneChild' /\ ServesTheFile' /\ RolledBackIsBefore' /\ InApply'
    BY <1>1, <2>3, EngineAssumption
    DEF EngineAssumption, OneChild, ServesTheFile, RolledBackIsBefore, InApply,
        disk, call, Checked, Content
  <2>7. QED
    BY <2>4, <2>5, <2>6
<1>7. QED
  BY <1>4, <1>5, <1>6 DEF SupRetry, Fault, NoFault

LEMMA ExitIInv == ASSUME IInv, NEW n \in live, Exit(n) PROVE IInv'
<1> USE DEF IInv
<1>1. UNCHANGED <<disk, call, proc, runs, age, sup, ops>> /\ live' = live \ {n}
  BY DEF Exit
<1>2. lastErr' = lastErr
  BY DEF Exit, call
<1>3. faults' \in 0..MaxFaults
  BY EngineAssumption DEF EngineAssumption, TypeOK, Exit, Fault, NoFault
<1>4. TypeOK'
  BY <1>1, <1>2, <1>3 DEF TypeOK, disk, call, sup
<1>5. QED
  BY <1>1, <1>4 DEF disk, call, sup, OneChild, ServesTheFile, InRound,
     RolledBackIsBefore, InApply, Alive, Checked

LEMMA PanelCrashIInv == ASSUME IInv, PanelCrash PROVE IInv'
<1> USE DEF IInv
<1>1. /\ pc' = "free" /\ outcome' = "none" /\ proc' = 0 /\ live' = {} /\ age' = 0
      /\ supPc' = "off" /\ supP' = 0 /\ backoff' = 1
      /\ UNCHANGED <<want, before, runs, ops>>
      /\ config' \in {config, Torn} /\ bak' \in {bak, Torn}
  BY DEF PanelCrash
<1>2. lastErr' \in BOOLEAN
  BY DEF PanelCrash
<1>3. faults' \in 0..MaxFaults
  BY EngineAssumption DEF EngineAssumption, TypeOK, PanelCrash, Fault
<1>4. TypeOK'
  <2>1. Torn \in Content /\ 0 \in 0..Len(runs) /\ 1 \in 1..MaxBackoff
    BY LenProperties, EngineAssumption DEF EngineAssumption, TypeOK, Content
  <2>2. QED
    BY <1>1, <1>2, <1>3, <2>1 DEF TypeOK, Outcomes, SupPcs
<1>5. QED
  BY <1>1, <1>4 DEF OneChild, ServesTheFile, InRound, RolledBackIsBefore,
     InApply, Alive, Checked

\* IInv is inductive: one step per action of Next.
LEMMA StepIInv == IInv /\ [Next]_vars => IInv'
<1> SUFFICES ASSUME IInv, [Next]_vars PROVE IInv'
  OBVIOUS
<1>1. ASSUME NEW c \in Configs, ApplyReject(c) PROVE IInv'
  BY <1>1, ApplyRejectIInv
<1>2. ASSUME NEW c \in Configs, ApplyIdle(c) PROVE IInv'
  BY <1>2, ApplyIdleIInv
<1>3. ASSUME NEW c \in Configs, ApplyBegin(c) PROVE IInv'
  BY <1>3, ApplyBeginIInv
<1>4. CASE Pipeline
  BY <1>4, BackupIInv, SwapIInv, ReloadIInv, VerifyIInv, RollbackIInv DEF Pipeline
<1>5. CASE RestartCall
  BY <1>5, RestartCallIInv
<1>6. CASE Status \/ SupRead \/ SupWake \/ SupAsk \/ SupNote \/ Age
  BY <1>6, BystanderIInv
<1>7. CASE SupRetry
  BY <1>7, SupRetryIInv
<1>8. ASSUME NEW n \in live, Exit(n) PROVE IInv'
  BY <1>8, ExitIInv
<1>9. CASE PanelCrash
  BY <1>9, PanelCrashIInv
<1>10. CASE UNCHANGED vars
  BY <1>10 DEF vars, disk, call, child, sup, budgets, IInv, TypeOK, OneChild,
     ServesTheFile, RolledBackIsBefore, InApply, InRound, Alive, Checked
<1>11. QED
  BY <1>1, <1>2, <1>3, <1>4, <1>5, <1>6, <1>7, <1>8, <1>9, <1>10
  DEF Next, Supervisor

\* What the rest rests on: IInv holds in every state of every behaviour.
THEOREM Inductive == Spec => []IInv
<1>1. Init => IInv
  BY InitIInv
<1>2. IInv /\ [Next]_vars => IInv'
  BY StepIInv
<1>3. QED
  BY <1>1, <1>2, PTL DEF Spec

\* Every variable keeps its type, whatever the number of configurations,
\* calls, faults and children.
THEOREM TypeCorrect == Spec => []TypeOK
<1>1. IInv => TypeOK
  BY DEF IInv
<1>2. QED
  BY <1>1, Inductive, PTL

\* Apply, Restart and the supervisor together never leave two children of one
\* engine alive.
THEOREM NeverTwoChildren == Spec => []OneChild
<1>1. IInv => OneChild
  BY DEF IInv
<1>2. QED
  BY <1>1, Inductive, PTL

\* Whenever no call is in progress, the living child runs the active file.
THEOREM ChildServesTheFile == Spec => []ServesTheFile
<1>1. IInv => ServesTheFile
  BY DEF IInv
<1>2. QED
  BY <1>1, Inductive, PTL

\* An answer "rolled back" is only given with the earlier file in place.
THEOREM RollbackIsExact == Spec => []RolledBackIsBefore
<1>1. IInv => RolledBackIsBefore
  BY DEF IInv
<1>2. QED
  BY <1>1, Inductive, PTL

\* The supervisor's round never begins or ends in a start out of nothing: a
\* nil e.proc becomes a child only by a caller's hand.
THEOREM OnlyCallersStartFromNil == Spec => OnlyCallersRevive
<1>1. IInv /\ [Next]_vars =>
        [proc = 0 /\ proc' # 0 => supPc' = supPc \/ supPc = "off"]_vars
  <2> SUFFICES ASSUME IInv, Next, proc = 0, proc' # 0
               PROVE  supPc' = supPc \/ supPc = "off"
    OBVIOUS
  <2>1. CASE SupRetry
    BY <2>1 DEF SupRetry, StillMine, IInv, TypeOK, InRound, child
  <2>2. CASE Reload \/ RestartCall \/ Rollback
    BY <2>2 DEF Reload, RestartCall, Rollback, Restarted, RestartFailed,
                WakeSupervisor, sup, child
  <2>3. QED
    BY <2>1, <2>2
    DEF Next, ApplyReject, ApplyIdle, ApplyBegin, Pipeline, Backup, Swap, Verify,
        Status, Supervisor, SupRead, SupWake, SupAsk, SupNote, Exit, Age,
        PanelCrash, child
<1>2. QED
  BY <1>1, Inductive, PTL DEF Spec, OnlyCallersRevive

(***************************************************************************)
(* The engine implements EngineContract.                                   *)
(***************************************************************************)
ServingNow   == IF Alive THEN runs[proc] ELSE None

LEMMA InitMaps == Init => Contract!CInit
  BY DEF Init, Contract!CInit, Alive

\* A step that touches neither files, place in Apply nor children stutters.
LEMMA QuietStutters ==
  ASSUME UNCHANGED <<disk, pc, want, before, proc, live, runs>>
  PROVE  UNCHANGED Contract!cvars
  BY DEF Contract!cvars, disk, Alive

\* Between trials a live child runs the accepted file; on trial, the
\* accepted file or the candidate, by where Apply is.
LEMMA Serving ==
  ASSUME IInv
  PROVE  /\ pc = "free" => ServingNow \in {config, None}
         /\ pc \in {"backup", "swap"} => ServingNow \in {before, None}
         /\ pc = "rollback" => ServingNow = None
  BY DEF IInv, ServesTheFile, InApply, ServingNow, Alive

LEMMA TrialOpens ==
  ASSUME IInv, NEW c \in Configs, ApplyBegin(c)
  PROVE  Contract!CNext
<1>1. /\ pc = "free" /\ pc' = "backup" /\ want' = c /\ before' = config
      /\ UNCHANGED <<config, proc, live, runs>>
  BY DEF ApplyBegin, disk, child
<1>2. Contract!Propose(c)
  BY <1>1 DEF Contract!Propose, Contract!OnTrial, Alive
<1>3. QED
  BY <1>2 DEF Contract!CNext

LEMMA PipelineKeeps ==
  ASSUME IInv, Pipeline
  PROVE  Contract!CNext \/ UNCHANGED Contract!cvars
<1> USE EngineAssumption DEF EngineAssumption
<1>1. want \in Valid /\ want # None /\ before \in Checked
      /\ runs \in Seq(Content)
  BY DEF IInv, InApply, Pipeline, Backup, Swap, Reload, Verify, Rollback, TypeOK
<1>2. CASE pc \in {"backup", "swap"} /\ pc' # "free"
           /\ UNCHANGED <<want, before, proc, live, runs>>
  <2>1. UNCHANGED Contract!cvars
    BY <1>2 DEF Contract!cvars, Alive
  <2>2. QED
    BY <2>1
<1>3. CASE pc \in {"backup", "swap"} /\ pc' = "free"
           /\ UNCHANGED <<config, want, before, proc, live, runs>>
  <2>1. config = before /\ ServingNow \in {before, None}
    BY <1>3, Serving DEF IInv, InApply
  <2>2. Contract!Revert
    BY <1>1, <1>3, <2>1 DEF Contract!Revert, Contract!OnTrial, ServingNow, Alive
  <2>3. QED
    BY <2>2 DEF Contract!CNext
<1>4. CASE Reload
  <2>1. /\ pc = "reload" /\ pc' \in {"verify", "rollback"}
        /\ UNCHANGED <<want, before>> /\ config = want
    BY <1>4 DEF Reload, IInv, InApply
  <2>2. (Alive' /\ runs'[proc'] = want) \/ ~Alive'
    <3>1. CASE Restarted(config)
      BY <1>1, <2>1, <3>1, RestartedFacts DEF IInv, Alive, Content
    <3>2. CASE RestartFailed(config)
      BY <3>2, RestartFailedFacts DEF IInv, Alive
    <3>3. QED
      BY <1>4, <3>1, <3>2 DEF Reload
  <2>3. Contract!Exchange
    BY <1>1, <2>1, <2>2 DEF Contract!Exchange, Contract!OnTrial
  <2>4. QED
    BY <2>3 DEF Contract!CNext
<1>5. CASE Verify
  <2>1. pc = "verify" /\ config = want /\ (Alive => runs[proc] = want)
        /\ UNCHANGED <<config, want, before, proc, live, runs>>
    BY <1>5 DEF Verify, IInv, InApply, disk, child
  <2>2. CASE Alive /\ pc' = "free"
    <3>1. Contract!Commit
      BY <1>1, <2>1, <2>2 DEF Contract!Commit, Contract!OnTrial, Alive
    <3>2. QED
      BY <3>1 DEF Contract!CNext
  <2>3. CASE pc' = "rollback"
    <3>1. UNCHANGED Contract!cvars
      BY <2>1, <2>3 DEF Contract!cvars, Alive
    <3>2. QED
      BY <3>1
  <2>4. QED
    BY <1>5, <2>2, <2>3 DEF Verify, Return
<1>6. CASE Rollback
  <2>1. /\ pc = "rollback" /\ pc' = "free" /\ UNCHANGED <<bak, want, before>>
        /\ config = want /\ bak = before /\ live = {} /\ ~Alive
    BY <1>6 DEF Rollback, IInv, InApply, Return, Alive
  <2>2. CASE config' \in {config, Torn} /\ UNCHANGED <<proc, live>>
    <3>1. Contract!Strand
      BY <1>1, <2>1, <2>2 DEF Contract!Strand, Contract!OnTrial, Alive
    <3>2. QED
      BY <3>1 DEF Contract!CNext
  <2>3. CASE config' = bak /\ ((Alive' /\ runs'[proc'] = bak) \/ ~Alive')
    <3>1. Contract!Revert
      BY <1>1, <2>1, <2>3 DEF Contract!Revert, Contract!OnTrial
    <3>2. QED
      BY <3>1 DEF Contract!CNext
  <2>4. bak \in Content \cup {None}
    BY DEF IInv, TypeOK
  <2>5. Restarted(bak) => Alive' /\ runs'[proc'] = bak
    BY <2>4, RestartedFacts DEF IInv, Alive
  <2>6. RestartFailed(bak) => ~Alive'
    BY RestartFailedFacts DEF IInv, Alive
  <2>7. QED
    BY <1>6, <2>2, <2>3, <2>5, <2>6 DEF Rollback, child
<1>7. QED
  BY <1>2, <1>3, <1>4, <1>5, <1>6
  DEF Pipeline, Backup, Swap, Return, child

\* A start between trials is a start of the accepted file.
LEMMA RestartKeeps ==
  ASSUME IInv, RestartCall \/ SupRetry
  PROVE  Contract!CNext \/ UNCHANGED Contract!cvars
<1>1. pc = "free" /\ pc' = "free" /\ config' = config
  BY DEF RestartCall, SupRetry, Return, call, disk
<1>2. config \in Content \cup {None} /\ runs \in Seq(Content)
  BY DEF IInv, TypeOK
<1>3. CASE (Alive' /\ runs'[proc'] = config) \/ ~Alive'
  <2>1. Contract!Revive
    BY <1>1, <1>3 DEF Contract!Revive, Contract!OnTrial
  <2>2. QED
    BY <2>1 DEF Contract!CNext
<1>4. Restarted(config) => Alive' /\ runs'[proc'] = config
  BY <1>2, RestartedFacts DEF IInv, Alive
<1>5. RestartFailed(config) => ~Alive'
  BY RestartFailedFacts DEF IInv, Alive
<1>6. Launch(config, live) => Alive' /\ runs'[proc'] = config
  <2>1. SUFFICES ASSUME Launch(config, live)
                 PROVE  Alive' /\ runs'[proc'] = config
    OBVIOUS
  <2>2. config \in Content
    BY <1>2, <2>1 DEF Launch
  <2>3. QED
    BY <1>2, <2>1, <2>2, Started DEF Alive
<1>7. CASE UNCHANGED child
  BY <1>1, <1>7 DEF Contract!cvars, Alive, child
<1>8. QED
  BY <1>3, <1>4, <1>5, <1>6, <1>7 DEF RestartCall, SupRetry

LEMMA LossKeeps ==
  ASSUME IInv, (\E c \in Configs : ApplyIdle(c)) \/ (\E n \in live : Exit(n))
  PROVE  Contract!CNext \/ UNCHANGED Contract!cvars
<1>1. pc' = pc /\ UNCHANGED <<config, want, before, runs>>
  BY DEF ApplyIdle, Exit, Return, disk, call
<1>2. proc' = proc \/ proc' = 0
  BY DEF ApplyIdle, Exit
<1>3. live' = {}
  BY StopsAll DEF IInv, OneChild, ApplyIdle, Exit
<1>4. Contract!Lose
  BY <1>1, <1>3 DEF Contract!Lose, Alive
<1>5. QED
  BY <1>4 DEF Contract!CNext

LEMMA CrashKeeps == ASSUME IInv, PanelCrash PROVE Contract!CNext
<1>1. pc' = "free" /\ ~Alive' /\ config' \in {config, Torn}
      /\ (config' # config => pc = "rollback")
  BY DEF PanelCrash, Alive
<1>2. config \in {before, want} \/ pc = "free"
  BY DEF IInv, InApply, TypeOK, PipelinePcs
<1>3. want # None \/ pc = "free"
  BY EngineAssumption DEF EngineAssumption, IInv, InApply
<1>4. Contract!PanelDies
  BY <1>1, <1>2, <1>3 DEF Contract!PanelDies, Contract!OnTrial
<1>5. QED
  BY <1>4 DEF Contract!CNext

\* The engine implements its contract: every step of Apply, Restart, the
\* supervisor, a dying child and a dying panel is one of EngineContract's, or
\* none.
THEOREM EngineKeepsContract == Spec => KeepsContract
<1>1. Init => Contract!CInit
  BY InitMaps
<1>2. IInv /\ [Next]_vars => [Contract!CNext]_(Contract!cvars)
  <2> SUFFICES ASSUME IInv, [Next]_vars
               PROVE  Contract!CNext \/ UNCHANGED Contract!cvars
    OBVIOUS
  <2>1. CASE \E c \in Configs : ApplyReject(c)
    <3>1. UNCHANGED <<disk, pc, want, before, proc, live, runs>>
      BY <2>1 DEF ApplyReject, Return, disk, child
    <3>2. QED
      BY <3>1, QuietStutters
  <2>2. CASE \E c \in Configs : ApplyBegin(c)
    BY <2>2, TrialOpens
  <2>3. CASE Status \/ SupRead \/ SupWake \/ SupAsk \/ SupNote \/ Age
             \/ UNCHANGED vars
    <3>1. UNCHANGED <<disk, pc, want, before, proc, live, runs>>
      BY <2>3 DEF Status, SupRead, SupWake, SupAsk, SupNote, Age, vars, disk, call,
                  child
    <3>2. QED
      BY <3>1, QuietStutters
  <2>4. QED
    BY <2>1, <2>2, <2>3, PipelineKeeps, RestartKeeps, LossKeeps, CrashKeeps
    DEF Next, Supervisor
<1>3. QED
  BY <1>1, <1>2, Inductive, PTL DEF Spec, KeepsContract, Contract!CSpec

(***************************************************************************)
(* Gateway: the types                                                      *)
(***************************************************************************)
Named    == {""} \cup Domains
Servers  == [port: Ports, open: BOOLEAN, by: Passes]
Statuses == {s \in [mode: {"off", "external", "pending", "builtin"}, running: BOOLEAN, domain: Named,
                   open: BOOLEAN, port: {0} \cup Ports,
                   cert: {"", "ok", "issuing", "need_token", "no_dns", "failed"}, dated: BOOLEAN] :
               s.mode = "builtin" => s.port # 0}
Tries    == [domain: Named, state: {"", "no_dns", "failed"}, wait: BOOLEAN]
Issuings == [domain: Named, phase: {"", "lookup", "issue"}]
Passings == [pc: {"idle", "stale", "stop", "close", "listen", "keep", "ask", "publish"},
             cfg: Postures, srv: Servers \cup {NoServer}, st: Statuses]
Views    == [posture: Postures, gateway: Statuses, owner: BOOLEAN, alt: SUBSET AltPorts]

GatewayTypeOK ==
  /\ posture \in Postures /\ token \in BOOLEAN /\ only \in BOOLEAN
  /\ srv \in Servers \cup {NoServer} /\ listening \subseteq Servers
  /\ status \in Statuses /\ try \in Tries /\ issuing \in Issuings
  /\ certs \in [Domains -> {"none", "valid", "expired"}] /\ around \in Outsides
  /\ pass \in [Passes -> Passings] /\ page \in [Tabs -> Views]
  /\ moves \in 0..MaxMoves

\* A server that a pass has bound and not yet handed over, or taken and not yet
\* shut down, is in the hands of that pass alone.
Held(p) == pass[p].pc \in {"keep", "close"} /\ pass[p].srv # NoServer

HandsInv ==
  /\ KnowsOnlyLiveServers
  /\ \A p \in Passes : Held(p) => pass[p].srv \in listening /\ pass[p].srv # srv
  /\ \A p, q \in Passes : Held(p) /\ Held(q) /\ p # q => pass[p].srv # pass[q].srv

LEMMA GatewayConstants ==
  /\ Ports \subseteq Nat /\ 0 \notin Ports /\ MaxMoves \in Nat
  /\ Starts \subseteq [posture: Postures, around: Outsides]
<1>1. AltPorts \subseteq Nat \ {0, 443}
  BY GatewayAssumption DEF GatewayAssumption
<1>2. MaxMoves \in Nat /\ Starts \subseteq [posture: Postures, around: Outsides]
  BY GatewayAssumption, Zenon DEF GatewayAssumption
<1>3. QED
  BY <1>1, <1>2 DEF Ports

LEMMA NothingFits == Off \in Statuses /\ Rest.cfg \in Postures /\ Rest \in Passings /\ Closed \in Views
<1>1. Off \in Statuses
  BY DEF Off, Statuses, Named
<1>2. Rest.cfg \in Postures
  BY DEF Rest, Postures, Modes, Ports
<1>3. Rest \in Passings
  BY <1>1, <1>2 DEF Rest, Passings
<1>4. QED
  BY <1>1, <1>2, <1>3 DEF Closed, Views

LEMMA BuiltinFits ==
  ASSUME NEW c \in Postures, NEW on \in BOOLEAN, NEW dated \in BOOLEAN,
         NEW cert \in {"", "ok", "issuing", "need_token", "no_dns", "failed"}
  PROVE  /\ Builtin(c, on) \in Statuses /\ NotServing(c) \in Statuses
         /\ [Builtin(c, on) EXCEPT !.dated = dated, !.cert = cert] \in Statuses
<1>1. c.domain \in Named /\ c.port \in Ports /\ c.open \in BOOLEAN
  BY DEF Postures, Named
<1>2. c.port # 0
  BY <1>1, GatewayConstants
<1>3. Builtin(c, on) \in Statuses
  BY <1>1, <1>2 DEF Builtin, Off, Statuses
<1>4. NotServing(c) \in Statuses
  BY <1>1, NothingFits DEF NotServing, Off, Statuses
<1>5. QED
  BY <1>3, <1>4 DEF Statuses

LEMMA NextPosture == ASSUME NEW c \in Postures PROVE Normalize(c) \in Postures
BY DEF Normalize, Postures

\* What a save sends is a posture, and one that is shown stays one.
LEMMA SentFits ==
  ASSUME NEW d \in Views, NEW c \in ModeSelect(d) \cup BuiltinSwitches(d) \cup StatusCard(d)
  PROVE  c \in Postures
<1> DEFINE s == d.posture
<1>1. s \in Postures /\ d.alt \subseteq Ports
  BY DEF Views, Ports
<1>2. /\ \A m \in Modes : [s EXCEPT !.mode = m] \in Postures
      /\ \A m \in Modes, k \in Ports : [s EXCEPT !.mode = m, !.port = k] \in Postures
  BY <1>1 DEF Postures
<1>3. [s EXCEPT !.open = ~@] \in Postures /\ [s EXCEPT !.hide = ~@] \in Postures
  BY <1>1 DEF Postures
<1>4. {"builtin", "external"} \subseteq Modes
  BY DEF Modes
<1> HIDE DEF s
<1>5. CASE c \in ModeSelect(d)
  BY <1>2, <1>5 DEF ModeSelect, s, Ports
<1>6. CASE c \in BuiltinSwitches(d)
  BY <1>3, <1>6 DEF BuiltinSwitches, s
<1>7. CASE c \in StatusCard(d)
  <2>1. c = [s EXCEPT !.mode = "external"] \/ \E k \in d.alt : c = [s EXCEPT !.mode = "builtin", !.port = k]
    BY <1>7 DEF StatusCard, s
  <2>2. QED
    BY <1>1, <1>2, <1>4, <2>1
<1>8. QED
  BY <1>5, <1>6, <1>7

LEMMA ShownFits == ASSUME GatewayTypeOK PROVE AntiBlockData \in Views
<1>1. Owner443 \in BOOLEAN
  BY DEF GatewayTypeOK, Owner443, gatewayServes, Outsides
<1>2. QED
  BY <1>1 DEF GatewayTypeOK, AntiBlockData, freeAltPort, Views

\* The bound, and what is shown, whatever else a move does.
LEMMA MoveFits == ASSUME GatewayTypeOK, Move PROVE moves' \in 0..MaxMoves /\ page' \in [Tabs -> Views]
<1>1. moves' \in 0..MaxMoves
  <2>1. moves \in 0..MaxMoves /\ MaxMoves \in Nat
    BY GatewayConstants DEF GatewayTypeOK
  <2>2. QED
    BY <2>1 DEF Move
<1>2. [t \in Tabs |-> Closed] \in [Tabs -> Views]
  BY NothingFits
<1>3. QED
  BY <1>1, <1>2 DEF GatewayTypeOK, Move

LEMMA NoIssuing ==
  /\ [domain |-> "", phase |-> ""] \in Issuings
  /\ \A i \in Issuings : [i EXCEPT !.phase = "issue"] \in Issuings
BY DEF Issuings, Named

\* The types are kept by every step.
LEMMA GatewayStepTypes == ASSUME GatewayTypeOK, [GatewayNext]_gatewayVars PROVE GatewayTypeOK'
<1> USE NothingFits DEF GatewayTypeOK, gw
<1>1. ASSUME NEW t \in Tabs, useAntiBlock(t) PROVE GatewayTypeOK'
  BY <1>1, ShownFits DEF useAntiBlock
<1>2. ASSUME NEW t \in Tabs, save(t) PROVE GatewayTypeOK'
  <2>1. PICK c \in ModeSelect(page[t]) \cup BuiltinSwitches(page[t]) \cup StatusCard(page[t]) :
          Move /\ PutAntiBlock(c)
    BY <1>2 DEF save
  <2>2. Normalize(c) \in Postures
    BY <2>1, SentFits, NextPosture
  <2>3. Normalize(c).hide \in BOOLEAN
    BY <2>2 DEF Postures
  <2>4. QED
    BY <2>1, <2>2, <2>3, MoveFits DEF PutAntiBlock
<1>3. ASSUME NEW t \in Tabs, QuickSetupCard(t) PROVE GatewayTypeOK'
  <2>1. PICK d \in Domains, use \in {"builtin", "external"} : Move /\ SetupAntiBlock(d, use)
    BY <1>3 DEF QuickSetupCard
  <2>2. SetupPorts \subseteq Ports
    <3>1. status.mode = "builtin" => status.port \in Ports
      BY DEF Statuses
    <3>2. QED
      BY <3>1 DEF SetupPorts, freeAltPort, Ports
  <2>3. posture' \in Postures
    <3> DEFINE cfg == [posture EXCEPT !.domain = d]
    <3>1. cfg \in Postures
      BY DEF Postures
    <3> HIDE DEF cfg
    <3>2. [cfg EXCEPT !.mode = "external"] \in Postures
      BY <3>1 DEF Postures, Modes
    <3>3. \A p \in Ports : [cfg EXCEPT !.mode = "builtin", !.port = p] \in Postures
      BY <3>1 DEF Postures, Modes
    <3>4. \E c \in {[cfg EXCEPT !.mode = "external"]} \cup {[cfg EXCEPT !.mode = "builtin", !.port = p] : p \in SetupPorts} :
            posture' = Normalize(c)
      BY <2>1 DEF SetupAntiBlock, cfg
    <3>5. QED
      BY <2>2, <3>2, <3>3, <3>4, NextPosture
  <2>4. QED
    BY <2>1, <2>3, MoveFits DEF SetupAntiBlock
<1>4. ASSUME NEW t \in Tabs, retry(t) PROVE GatewayTypeOK'
  BY <1>4, MoveFits DEF retry, RetryCertificate, Tries
<1>5. ASSUME NEW t \in Tabs, CloudflareTokenForm(t) PROVE GatewayTypeOK'
  BY <1>5, MoveFits DEF CloudflareTokenForm, RetryCertificate, Tries
<1>6. ASSUME NEW p \in Passes, Reconcile(p) PROVE GatewayTypeOK'
  <2> USE DEF Quiet, To
  <2>1. CASE LoadPosture(p)
    <3>1. [posture EXCEPT !.hide = FALSE] \in Postures
      BY DEF Postures
    <3>2. pass'[p] \in Passings
      BY <2>1, <3>1 DEF LoadPosture, Passings
    <3>3. QED
      BY <2>1, <3>2 DEF LoadPosture
  <2>2. CASE Stale(p)
    BY <2>2 DEF Stale, Passings
  <2>3. CASE Stop(p)
    BY <2>3 DEF Stop, Passings
  <2>4. CASE Close(p)
    <3>1. NotServing(pass[p].cfg) \in Statuses
      BY BuiltinFits DEF Passings
    <3>2. QED
      BY <2>4, <3>1 DEF Close, Passings
  <2>5. CASE Listen(p)
    <3>1. Builtin(pass[p].cfg, FALSE) \in Statuses
      BY BuiltinFits DEF Passings
    <3>2. [port |-> pass[p].cfg.port, open |-> pass[p].cfg.open, by |-> p] \in Servers
      BY DEF Servers, Passings, Postures
    <3>3. pass'[p] \in Passings /\ \A q \in Passes : q # p => pass'[q] = pass[q]
      <4> DEFINE new == [port |-> pass[p].cfg.port, open |-> pass[p].cfg.open, by |-> p]
      <4>1. \E r \in {[pass[p] EXCEPT !.pc = "ask"], [pass[p] EXCEPT !.pc = "keep", !.srv = new],
                      [pass[p] EXCEPT !.pc = "publish", !.st = Builtin(pass[p].cfg, FALSE)]} :
               pass' = [pass EXCEPT ![p] = r]
        BY <2>5 DEF Listen
      <4> HIDE DEF new
      <4>2. /\ [pass[p] EXCEPT !.pc = "ask"] \in Passings
            /\ [pass[p] EXCEPT !.pc = "keep", !.srv = new] \in Passings
            /\ [pass[p] EXCEPT !.pc = "publish", !.st = Builtin(pass[p].cfg, FALSE)] \in Passings
        BY <3>1, <3>2 DEF Passings, new
      <4>3. QED
        BY <4>1, <4>2
    <3>4. pass' \in [Passes -> Passings]
      BY <2>5, <3>3 DEF Listen
    <3>5. QED
      BY <2>5, <3>2, <3>4 DEF Listen
  <2>6. CASE Keep(p)
    BY <2>6 DEF Keep, Passings
  <2>7. CASE Ask(p)
    <3> DEFINE c == pass[p].cfg  valid == certs[c.domain] = "valid"
               st == [Builtin(c, TRUE) EXCEPT !.dated = certs[c.domain] # "none", !.cert = certStatus(c.domain, valid)]
    <3>1. c \in Postures /\ c.domain \in Named
      BY DEF Passings, Postures, Named
    <3>2. try' \in Tries /\ issuing' \in Issuings
      <4>1. UNCHANGED <<try, issuing>> \/ issueAsync(c.domain)
        BY <2>7 DEF Ask
      <4>2. QED
        <5>1. /\ [domain |-> c.domain, phase |-> "lookup"] \in Issuings
              /\ [domain |-> c.domain, state |-> "", wait |-> FALSE] \in Tries
          BY <3>1 DEF Issuings, Tries
        <5>2. QED
          BY <4>1, <5>1 DEF issueAsync
    <3>3. certStatus(c.domain, valid) \in {"", "ok", "issuing", "need_token", "no_dns", "failed"}
      BY <3>2 DEF certStatus, Tries
    <3>5. st \in Statuses
      BY <3>1, <3>3, BuiltinFits
    <3>6. pass' = [pass EXCEPT ![p] = [pass[p] EXCEPT !.pc = "publish", !.st = st]]
      BY <2>7 DEF Ask
    <3>7. [pass[p] EXCEPT !.pc = "publish", !.st = st] \in Passings
      BY <3>5 DEF Passings
    <3>8. QED
      BY <2>7, <3>2, <3>6, <3>7 DEF Ask
  <2>8. CASE Publish(p)
    BY <2>8 DEF Publish, Passings
  <2>9. QED
    BY <1>6, <2>1, <2>2, <2>3, <2>4, <2>5, <2>6, <2>7, <2>8 DEF Reconcile
<1>7. CASE Lookup
  <2>1. try' \in Tries
    BY <1>7 DEF Lookup, Ended, Tries
  <2>2. issuing' \in Issuings
    BY <1>7, NoIssuing DEF Lookup, Ended
  <2>3. QED
    BY <1>7, <2>1, <2>2 DEF Lookup, Ended
<1>8. CASE Issue
  <2>1. try' \in Tries
    BY <1>8 DEF Issue, Ended, Tries
  <2>2. issuing' \in Issuings
    BY <1>8, NoIssuing DEF Issue, Ended
  <2>3. QED
    BY <1>8, <2>1, <2>2, MoveFits DEF Issue, Ended
<1>9. CASE Elapse
  BY <1>9 DEF Elapse, RetryCertificate, Tries
<1>10. CASE Surroundings
  <2>1. around' \in Outsides
    <3>1. CASE \E d \in Domains : around' = [around EXCEPT !.dns = IF d \in @ THEN @ \ {d} ELSE @ \cup {d}]
      BY <3>1 DEF Outsides
    <3>2. CASE around' = [around EXCEPT !.busy80 = ~@] \/ around' = [around EXCEPT !.taken = ~@]
      BY <3>2 DEF Outsides
    <3>3. QED
      BY <1>10, <3>1, <3>2 DEF Surroundings
  <2>2. QED
    BY <1>10, <2>1, MoveFits DEF Surroundings
<1>11. CASE Expire
  BY <1>11, MoveFits DEF Expire
<1>12. CASE Restart
  <2>1. posture.hide \in BOOLEAN
    BY DEF Postures
  <2>2. /\ [domain |-> "", state |-> "", wait |-> FALSE] \in Tries
        /\ [domain |-> "", phase |-> ""] \in Issuings
    BY DEF Tries, Issuings, Named
  <2>3. QED
    BY <1>12, <2>1, <2>2, MoveFits DEF Restart
<1>13. CASE UNCHANGED gatewayVars
  BY <1>13 DEF gatewayVars
<1>14. QED
  BY <1>1, <1>2, <1>3, <1>4, <1>5, <1>6, <1>7, <1>8, <1>9, <1>10, <1>11, <1>12, <1>13 DEF GatewayNext

(***************************************************************************)
(* Gateway: every server is in the hands of one                            *)
(***************************************************************************)
\* Only five steps of a pass, and the end of the process, touch a server.
Aloof ==
  /\ UNCHANGED <<srv, listening>>
  /\ \A p \in Passes : Held(p)' => Held(p) /\ pass'[p].srv = pass[p].srv

LEMMA OthersAreAloof ==
  ASSUME GatewayTypeOK, [GatewayNext]_gatewayVars
  PROVE  Aloof \/ Restart \/ \E p \in Passes : Stop(p) \/ Close(p) \/ Listen(p) \/ Keep(p)
<1> USE DEF Aloof, Held, gw
<1>1. ASSUME NEW t \in Tabs, useAntiBlock(t) \/ save(t) \/ QuickSetupCard(t) \/ retry(t) \/ CloudflareTokenForm(t)
      PROVE Aloof
  BY <1>1 DEF useAntiBlock, save, PutAntiBlock, QuickSetupCard, SetupAntiBlock, retry, CloudflareTokenForm
<1>2. ASSUME NEW p \in Passes, LoadPosture(p) \/ Stale(p) \/ Ask(p) \/ Publish(p) PROVE Aloof
  <2>1. \A q \in Passes : q # p => pass'[q] = pass[q]
    BY <1>2 DEF LoadPosture, Stale, Ask, Publish, To, GatewayTypeOK
  <2>2. pass'[p].pc \in {"stale", "stop", "listen", "publish", "idle"}
    <3>1. pass[p] \in Passings /\ pass' = [pass EXCEPT ![p] = pass'[p]]
      BY <1>2 DEF LoadPosture, Stale, Ask, Publish, To, GatewayTypeOK
    <3>2. CASE LoadPosture(p) \/ Publish(p)
      <4>1. pass'[p].pc \in {"stale", "stop", "idle"}
        <5>1. CASE Publish(p)
          BY <5>1 DEF Publish, To, GatewayTypeOK, Rest
        <5>2. CASE LoadPosture(p)
          BY <5>2 DEF LoadPosture, To, GatewayTypeOK, Rest
        <5>3. QED
          BY <3>2, <5>1, <5>2
      <4>2. QED
        BY <4>1
    <3>3. CASE Stale(p)
      BY <3>1, <3>3 DEF Stale, To, GatewayTypeOK, Passings
    <3>4. CASE Ask(p)
      BY <3>1, <3>4 DEF Ask, To, GatewayTypeOK, Passings
    <3>5. QED
      BY <1>2, <3>2, <3>3, <3>4
  <2>3. UNCHANGED <<srv, listening>>
    BY <1>2 DEF LoadPosture, Stale, Ask, Publish
  <2>4. QED
    BY <2>1, <2>2, <2>3
<1>3. CASE Lookup \/ Issue \/ Elapse \/ Surroundings \/ Expire \/ UNCHANGED gatewayVars
  BY <1>3 DEF Lookup, Issue, Ended, Elapse, Surroundings, Expire, gatewayVars
<1>4. QED
  BY <1>1, <1>2, <1>3 DEF GatewayNext, Reconcile

LEMMA GatewayStepHands ==
  ASSUME GatewayTypeOK, HandsInv, [GatewayNext]_gatewayVars
  PROVE  HandsInv'
<1> USE DEF HandsInv, KnowsOnlyLiveServers, Held
<1>1. CASE Aloof
  BY <1>1 DEF Aloof
<1>2. CASE Restart
  BY <1>2 DEF Restart, Rest
<1>3. ASSUME NEW p \in Passes, Stop(p) \/ Close(p) \/ Listen(p) \/ Keep(p) PROVE HandsInv'
  <2> USE DEF GatewayTypeOK, To
  <2>1. \A q \in Passes : q # p => pass'[q] = pass[q]
    BY <1>3 DEF Stop, Close, Listen, Keep
  <2>2. CASE Stop(p)
    <3>1. srv' = NoServer /\ pass'[p].srv = srv /\ UNCHANGED listening
      BY <2>2 DEF Stop, Passings
    <3>2. QED
      BY <2>1, <3>1
  <2>3. CASE Close(p)
    <3>1. /\ pass'[p].pc \notin {"keep", "close"} /\ UNCHANGED srv
          /\ pass[p].pc = "close" /\ listening' = listening \ {pass[p].srv}
      BY <2>3 DEF Close, Passings
    <3>2. QED
      BY <2>1, <3>1
  <2>4. CASE Listen(p)
    <3> DEFINE new == [port |-> pass[p].cfg.port, open |-> pass[p].cfg.open, by |-> p]
    <3>1. pass[p] \in Passings /\ UNCHANGED srv
      BY <2>4 DEF Listen
    <3>2. CASE pass' = [pass EXCEPT ![p] = [pass[p] EXCEPT !.pc = "ask"]] /\ UNCHANGED listening
      <4>1. pass'[p].pc = "ask"
        BY <3>1, <3>2 DEF Passings
      <4>2. QED
        BY <2>1, <3>1, <3>2, <4>1
    <3>3. CASE /\ srv = NoServer /\ PortFree(pass[p].cfg.port)
               /\ listening' = listening \cup {new}
               /\ pass' = [pass EXCEPT ![p] = [pass[p] EXCEPT !.pc = "keep", !.srv = new]]
      <4>1. pass'[p].srv = new
        BY <3>1, <3>3 DEF Passings
      <4>2. new \notin listening
        BY <3>3 DEF PortFree
      <4>3. new # NoServer
        <5>1. pass[p].cfg.port \in Ports
          BY DEF Passings, Postures
        <5>2. QED
          BY <5>1, GatewayConstants DEF NoServer
      <4>4. QED
        BY <2>1, <3>1, <3>3, <4>1, <4>2, <4>3
    <3>4. CASE /\ pass' = [pass EXCEPT ![p] = [pass[p] EXCEPT !.pc = "publish", !.st = Builtin(pass[p].cfg, FALSE)]]
               /\ UNCHANGED listening
      <4>1. pass'[p].pc = "publish"
        BY <3>1, <3>4 DEF Passings
      <4>2. QED
        BY <2>1, <3>1, <3>4, <4>1
    <3>5. QED
      BY <2>4, <3>2, <3>3, <3>4 DEF Listen
  <2>5. CASE Keep(p)
    <3>1. pass[p].pc = "keep" /\ srv' = pass[p].srv /\ pass'[p].srv = NoServer /\ UNCHANGED listening
      BY <2>5 DEF Keep, Passings
    <3>2. QED
      BY <2>1, <3>1
  <2>6. QED
    BY <1>3, <2>2, <2>3, <2>4, <2>5
<1>4. QED
  BY <1>1, <1>2, <1>3, OthersAreAloof

-----------------------------------------------------------------------------
LEMMA GatewayStarts == GatewayInit => GatewayTypeOK /\ HandsInv
<1> SUFFICES ASSUME GatewayInit PROVE GatewayTypeOK /\ HandsInv
  OBVIOUS
<1>1. posture \in Postures /\ around \in Outsides
  <2>1. PICK s \in Starts : posture = s.posture /\ around = s.around
    BY DEF GatewayInit
  <2>2. QED
    BY <2>1, GatewayConstants
<1>2. posture.hide \in BOOLEAN
  BY <1>1 DEF Postures
<1>3. /\ [domain |-> "", state |-> "", wait |-> FALSE] \in Tries
      /\ [domain |-> "", phase |-> ""] \in Issuings
  BY DEF Tries, Issuings, Named
<1>4. token \in BOOLEAN /\ only \in BOOLEAN
  BY <1>2, Zenon DEF GatewayInit
<1>5. certs \in [Domains -> {"none", "valid", "expired"}] /\ pass \in [Passes -> Passings]
  BY NothingFits DEF GatewayInit, NoCert
<1>6. AntiBlockData \in Views
  <2>1. Owner443 \in BOOLEAN
    BY <1>1 DEF GatewayInit, Owner443, gatewayServes, Outsides
  <2>2. QED
    BY <1>1, <2>1, NothingFits DEF GatewayInit, AntiBlockData, freeAltPort, Views
<1>7. moves \in 0..MaxMoves
  <2>1. moves = 0
    BY Zenon DEF GatewayInit
  <2>2. QED
    BY <2>1, GatewayConstants
<1>8. GatewayTypeOK
  BY <1>1, <1>3, <1>4, <1>5, <1>6, <1>7, NothingFits DEF GatewayInit, GatewayTypeOK
<1>9. HandsInv
  BY DEF GatewayInit, HandsInv, KnowsOnlyLiveServers, Held, Rest
<1>10. QED
  BY <1>8, <1>9

\* Every step of page, passes and attempts keeps the types.
THEOREM GatewayTypes == GatewaySpec => []GatewayTypeOK
<1>1. GatewayTypeOK /\ [GatewayNext]_gatewayVars => GatewayTypeOK'
  BY GatewayStepTypes
<1>2. QED
  BY GatewayStarts, <1>1, PTL DEF GatewaySpec

\* However passes overtake each other, the server that the gateway has a hold
\* of listens: no pass shuts down one that another has handed over (Reconcile,
\* stop, ensureListening).
THEOREM LiveServersOnly == GatewaySpec => []KnowsOnlyLiveServers
<1>1. HandsInv => KnowsOnlyLiveServers
  BY DEF HandsInv
<1>2. GatewayTypeOK /\ HandsInv /\ [GatewayNext]_gatewayVars => HandsInv'
  BY GatewayStepHands
<1>3. QED
  BY GatewayTypes, GatewayStarts, <1>1, <1>2, PTL DEF GatewaySpec
===============================================================================
