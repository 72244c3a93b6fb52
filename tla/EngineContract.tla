--------------------------- MODULE EngineContract ---------------------------
(***************************************************************************)
(* What one proxy engine promises to its caller, with nothing of how: no   *)
(* process ids, no supervisor, no backup file.  The engine keeps an        *)
(* ACCEPTED configuration, serves it or nothing, and handles one CANDIDATE *)
(* at a time: while a candidate is on trial it may be served, and the      *)
(* trial ends by accepting it, by going back to the accepted one, or - the *)
(* case the interface comment of engine.ProxyEngine does not mention - by  *)
(* stranding: there was nothing to go back to.                             *)
(***************************************************************************)
CONSTANTS Content,  \* what a configuration file can hold
          None,     \* no file, no candidate, nothing served
          Torn      \* a file whose writing was cut short

VARIABLES accepted,   \* what the engine starts from when it has to start
          candidate,  \* the configuration on trial, None between trials
          serving     \* what a live child runs, None when there is none

cvars == <<accepted, candidate, serving>>

CTypeOK ==
  /\ accepted \in Content \cup {None, Torn}
  /\ candidate \in Content \cup {None}
  /\ serving \in Content \cup {None, Torn}

CInit ==
  /\ accepted = None
  /\ candidate = None
  /\ serving = None

OnTrial == candidate # None

\* A configuration that passed the engine's own check goes on trial.
Propose(c) ==
  /\ ~OnTrial
  /\ candidate' = c
  /\ UNCHANGED <<accepted, serving>>

\* The old child is replaced by one that runs the candidate, or by none.
Exchange ==
  /\ OnTrial
  /\ serving' \in {candidate, None}
  /\ UNCHANGED <<accepted, candidate>>

\* The trial succeeded: the candidate is being served and is accepted.
Commit ==
  /\ OnTrial
  /\ serving = candidate
  /\ accepted' = candidate
  /\ candidate' = None
  /\ UNCHANGED serving

\* The trial failed: the accepted configuration stays the accepted one.
Revert ==
  /\ OnTrial
  /\ candidate' = None
  /\ serving' \in {accepted, None}
  /\ UNCHANGED accepted

\* The trial failed and nothing could be restored.
Strand ==
  /\ OnTrial
  /\ accepted' \in {candidate, Torn}
  /\ candidate' = None
  /\ serving' = None

\* A child dies, or is stopped because nothing is left for it to serve.
Lose ==
  /\ serving' = None
  /\ UNCHANGED <<accepted, candidate>>

\* Between trials only the accepted configuration is ever started.
Revive ==
  /\ ~OnTrial
  /\ serving' \in {accepted, None}
  /\ UNCHANGED <<accepted, candidate>>

\* The panel dies in the middle of anything: its children die with it and
\* the file is whichever of its versions had reached the disk.
PanelDies ==
  /\ accepted' \in IF OnTrial THEN {accepted, candidate, Torn} ELSE {accepted}
  /\ candidate' = None
  /\ serving' = None

CNext ==
  \/ \E c \in Content : Propose(c)
  \/ Exchange \/ Commit \/ Revert \/ Strand
  \/ Lose \/ Revive \/ PanelDies

CSpec == CInit /\ [][CNext]_cvars
=============================================================================
