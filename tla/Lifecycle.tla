------------------------------ MODULE Lifecycle ------------------------------
(***************************************************************************)
(* What pokkum-init promises its reader, the probe server and through it   *)
(* the orchestrator, stated without processes, signals or timers: the life *)
(* of the snapshot in Supervisor.State (supervisor.go, type State) and of  *)
(* the value Run returns.                                                  *)
(***************************************************************************)
CONSTANT DevMode
VARIABLES view,    \* the published snapshot
          outcome  \* "none" until Run returns

View(started, running, shuttingDown, restarting) ==
  [started |-> started, running |-> running,
   shuttingDown |-> shuttingDown, restarting |-> restarting]

Down == View(FALSE, FALSE, FALSE, FALSE)
Up   == View(TRUE, TRUE, FALSE, FALSE)

Init == view = Down /\ outcome = "none"

Begin ==
  /\ view = Down
  /\ \/ view' = Up /\ UNCHANGED outcome
     \/ outcome' = "startFailed" /\ UNCHANGED view

\* A shutdown starts once, and takes the place of a restart.
Shut ==
  /\ view.running /\ ~view.shuttingDown
  /\ view' = View(TRUE, TRUE, TRUE, FALSE)
  /\ UNCHANGED outcome

Restart ==
  /\ DevMode
  /\ view = Up
  /\ view' = View(TRUE, TRUE, FALSE, TRUE)
  /\ UNCHANGED outcome

ChildEnds ==
  /\ view.running
  /\ view' = View(TRUE, FALSE, view.shuttingDown, view.restarting)
  /\ UNCHANGED outcome

\* Only a restart puts a new child in the place of a dead one.
Replace ==
  /\ view.restarting /\ ~view.running
  /\ \/ view' = Up /\ UNCHANGED outcome
     \/ outcome' = "startFailed" /\ UNCHANGED view

\* Run returns the child's status when the child is gone and nothing is to
\* replace it, and gives up only on a child it was stopping.
Return ==
  /\ UNCHANGED view
  /\ \/ /\ view.started /\ ~view.running /\ ~view.restarting
        /\ outcome' \in {"exited", "killed"}
     \/ /\ view.running /\ (view.shuttingDown \/ view.restarting)
        /\ outcome' = "unkillable"

Step == Begin \/ Shut \/ Restart \/ ChildEnds \/ Replace \/ Return

Spec == Init /\ [][outcome = "none" /\ Step]_<<view, outcome>>
=============================================================================
