----------------------------- MODULE Supervisor -----------------------------
(***************************************************************************)
(* pokkum-init, the PID 1 of every image pokkum builds: the event loop of  *)
(* supervisor.go, and the part of the kernel it depends on (process table, *)
(* process groups, SIGCHLD, the channels of os/signal).                    *)
(*                                                                         *)
(* The loop is one goroutine that takes one event at a time, so a handler  *)
(* is one action.  The one handler that is not is the SIGCHLD one: it      *)
(* makes several system calls (wait4 in a loop, kill of the group, wait4   *)
(* again, fork) between which the kernel moves on.  pc names the call the  *)
(* loop is about to make:                                                  *)
(*   "start"    the first fork                                             *)
(*   "select"   blocked in the select of supervise                         *)
(*   "reap"     the wait4 loop run for a SIGCHLD token                     *)
(*   "sweep"    kill(-pgid, SIGKILL) of restartChild and finish            *)
(*   "drain"    the wait4 loop after that kill                             *)
(*   "respawn"  the fork of restartChild                                   *)
(*   "done"     Run has returned                                           *)
(***************************************************************************)
EXTENDS Naturals, Sequences

CONSTANTS
  Pids,     \* process ids the kernel can hand out
  NoPid,    \* s.pid before the first start
  DevMode,  \* POKKUM_DEV_MODE: SIGHUP restarts the child
  Sent,     \* the signals the outside world sends to the supervisor
  SigCap    \* capacity of sigCh (64 in the code)

\* The signals of forwardableSignals the model tells apart: the two that
\* terminate, the one dev mode claims, and one that is merely relayed.
forwardableSignals == {"TERM", "INT", "HUP", "USR1"}

isTerminating(sig) == sig \in {"TERM", "INT"}

ASSUME PidAssumption == NoPid \notin Pids
ASSUME ModeAssumption == DevMode \in BOOLEAN
ASSUME SignalAssumption == Sent \subseteq forwardableSignals
ASSUME CapAssumption == SigCap \in Nat \ {0}

VARIABLES
  pc,            \* the system call the loop is at
  pid,           \* s.pid, which is also s.pgid
  shuttingDown, restarting, killIssued, childExited,
  status,        \* s.status: how the tracked child ended
  deadline,      \* the armed timer: "none", "grace" (ShutdownTimeout), "hard" (hardKillGrace)
  expired,       \* that timer has run out
  ctx,           \* "live", "cancelled", "taken" (ctxDone is nil)
  sigCh, chldCh, \* the two channels handed to signal.Notify
  published,     \* the snapshot in s.state
  exit,          \* what Run returned
  pstate,        \* kernel: "free", "live", or a zombie's wait status
  pgrp,          \* kernel: process group
  ours,          \* kernel: born in the process group of a child of the supervisor
  doomed,        \* kernel: a SIGKILL is pending
  sigchld,       \* kernel: SIGCHLD raised and not yet in chldCh
  asked,         \* history: the current child has been sent a terminating signal
  death          \* history: how the current child really ended

loopVars   == <<pid, shuttingDown, restarting, killIssued, childExited, status>>
timerVars  == <<deadline, expired>>
chanVars   == <<sigCh, chldCh, ctx>>
outVars    == <<published, exit>>
kernelVars == <<pstate, pgrp, ours, doomed, sigchld>>
ghostVars  == <<asked, death>>

vars == <<pc, loopVars, timerVars, chanVars, outVars, kernelVars, ghostVars>>

-----------------------------------------------------------------------------
(* The kernel's process table *)

Endings == {"exited", "killed"}   \* its own status, or 128+SIGKILL

Zombie(p) == pstate[p] \in Endings

Group(g) == {p \in Pids : pstate[p] # "free" /\ pgrp[p] = g}

\* alloc_pid never returns a number that still names a process or a group.
Unused(p) == pstate[p] = "free" /\ Group(p) = {}

Tracked(p) == p = pid /\ ~childExited

\* The kernel forgets p: its number can be handed out again.
Release(p) ==
  /\ pstate' = [pstate EXCEPT ![p] = "free"]
  /\ pgrp' = [pgrp EXCEPT ![p] = NoPid]
  /\ ours' = [ours EXCEPT ![p] = FALSE]
  /\ doomed' = [doomed EXCEPT ![p] = FALSE]

-----------------------------------------------------------------------------
(* The pieces of the handlers *)

\* publish: the snapshot readers see, from the values the handler leaves.
Publish ==
  published' = [started      |-> pid' # NoPid,
                running      |-> pid' # NoPid /\ ~childExited',
                shuttingDown |-> shuttingDown',
                restarting   |-> restarting']

Arm(kind) == deadline' = kind /\ expired' = FALSE

disarmDeadline == deadline' = "none" /\ expired' = FALSE

\* forward: nothing is sent once the child has been reaped.  What a relayed
\* signal does to the processes is theirs to choose (Die); the model only
\* records that the child was told to stop.
forward(sig) == asked' = (asked \/ (~childExited /\ isTerminating(sig)))

\* signalGroup(pgid, SIGKILL)
KillGroup ==
  doomed' = [p \in Pids |-> doomed[p] \/ (pstate[p] = "live" /\ pgrp[p] = pid)]

\* Mutant: a shutdown leaves the restart in flight.
beginShutdown_keepsRestart ==
  /\ shuttingDown' = TRUE
  /\ UNCHANGED <<pid, restarting, killIssued, childExited, status>>
  /\ IF shuttingDown THEN UNCHANGED <<deadline, expired, published>>
     ELSE Arm("grace") /\ Publish

\* Mutant: every SIGTERM starts the clock again.
beginShutdown_rearms ==
  /\ shuttingDown' = TRUE
  /\ restarting' = FALSE
  /\ UNCHANGED <<pid, killIssued, childExited, status>>
  /\ Arm("grace") /\ Publish

\* beginShutdown: abandons a restart in flight, then is idempotent.
beginShutdown ==
  /\ restarting' = FALSE
  /\ shuttingDown' = TRUE
  /\ UNCHANGED <<pid, killIssued, childExited, status>>
  /\ \/ /\ ~shuttingDown
        /\ Arm("grace")
        /\ Publish
     \/ /\ shuttingDown /\ restarting
        /\ disarmDeadline
        /\ UNCHANGED published
     \/ /\ shuttingDown /\ ~restarting
        /\ UNCHANGED <<deadline, expired, published>>

\* Mutants: no refusal during a shutdown; no deadline.
beginRestart_always ==
  /\ restarting' = TRUE
  /\ UNCHANGED <<pid, shuttingDown, killIssued, childExited, status>>
  /\ Publish /\ forward("TERM") /\ Arm("grace")

beginRestart_unarmed ==
  IF shuttingDown \/ restarting \/ childExited
  THEN UNCHANGED <<loopVars, timerVars, published, asked>>
  ELSE /\ restarting' = TRUE
       /\ UNCHANGED <<pid, shuttingDown, killIssued, childExited, status>>
       /\ Publish /\ forward("TERM") /\ disarmDeadline

\* beginRestart: refused during a shutdown, another restart, or after the exit.
beginRestart ==
  IF shuttingDown \/ restarting \/ childExited
  THEN UNCHANGED <<loopVars, timerVars, published, asked>>
  ELSE /\ restarting' = TRUE
       /\ UNCHANGED <<pid, shuttingDown, killIssued, childExited, status>>
       /\ Publish
       /\ forward("TERM")
       /\ Arm("grace")

\* start: fork and exec, or fail.  The child leads a group of its own.
StartOK(p) ==
  /\ Unused(p)
  /\ pid' = p
  /\ pstate' = [pstate EXCEPT ![p] = "live"]
  /\ pgrp' = [pgrp EXCEPT ![p] = p]
  /\ ours' = [ours EXCEPT ![p] = TRUE]
  /\ doomed' = [doomed EXCEPT ![p] = FALSE]
  /\ Publish
  /\ asked' = FALSE
  /\ death' = "none"
  /\ pc' = "select"
  /\ UNCHANGED <<exit, sigchld>>

StartFails ==
  /\ pc' = "done"
  /\ exit' = "startFailed"
  /\ UNCHANGED <<pid, published, kernelVars, ghostVars>>

-----------------------------------------------------------------------------
(* The loop *)

\* Run: the handlers are installed, then the first child is started.
Start ==
  /\ pc = "start"
  /\ UNCHANGED <<shuttingDown, restarting, killIssued, childExited, status,
                 timerVars, chanVars>>
  /\ (\E p \in Pids : StartOK(p)) \/ StartFails

SelectCtx ==
  /\ pc = "select" /\ ctx = "cancelled"
  /\ ctx' = "taken"
  /\ forward("TERM")
  /\ beginShutdown
  /\ UNCHANGED <<pc, sigCh, chldCh, exit, kernelVars, death>>

SelectSignal ==
  /\ pc = "select" /\ sigCh # <<>>
  /\ sigCh' = Tail(sigCh)
  /\ LET sig == Head(sigCh) IN
     \/ /\ DevMode /\ sig = "HUP"
        /\ beginRestart
     \/ /\ ~(DevMode /\ sig = "HUP")
        /\ forward(sig)
        /\ IF isTerminating(sig) THEN beginShutdown
           ELSE UNCHANGED <<loopVars, timerVars, published>>
  /\ UNCHANGED <<pc, ctx, chldCh, exit, kernelVars, death>>

SelectChld ==
  /\ pc = "select" /\ chldCh
  /\ chldCh' = FALSE
  /\ pc' = "reap"
  /\ UNCHANGED <<loopVars, timerVars, sigCh, ctx, outVars, kernelVars, ghostVars>>

\* The hard window ran out: give the child up.
Abandon ==
  /\ killIssued
  /\ pc' = "done"
  /\ exit' = "unkillable"
  /\ disarmDeadline
  /\ UNCHANGED <<loopVars, kernelVars, asked>>
  /\ Publish

\* Mutant: SIGKILL is trusted to be enough.
escalate_noHardWindow ==
  /\ ~killIssued
  /\ killIssued' = TRUE
  /\ KillGroup /\ disarmDeadline
  /\ UNCHANGED <<pc, pid, shuttingDown, restarting, childExited, status, outVars,
                 pstate, pgrp, ours, sigchld, asked>>

\* escalate: the graceful window ran out.
escalate ==
  /\ ~killIssued
  /\ killIssued' = TRUE
  /\ IF childExited THEN disarmDeadline /\ UNCHANGED doomed
     ELSE KillGroup /\ Arm("hard")
  /\ UNCHANGED <<pc, pid, shuttingDown, restarting, childExited, status, outVars,
                 pstate, pgrp, ours, sigchld, asked>>

SelectDeadline ==
  /\ pc = "select" /\ deadline # "none" /\ expired
  /\ Abandon \/ escalate
  /\ UNCHANGED <<chanVars, death>>

\* reap, the tracked child's branch.
RecordExit(p) ==
  /\ childExited' = TRUE
  /\ status' = pstate[p]
  /\ UNCHANGED <<pid, shuttingDown, restarting, killIssued>>
  /\ Publish

\* Mutants: any process taken for the child; the child's own exit overlooked
\* after the escalation.
ReapOne_anyProcess ==
  /\ pc \in {"reap", "drain"}
  /\ \E p \in Pids :
       /\ Zombie(p)
       /\ Release(p)
       /\ IF ~childExited THEN RecordExit(p) ELSE UNCHANGED <<loopVars, published>>
  /\ UNCHANGED <<pc, timerVars, chanVars, exit, sigchld, ghostVars>>

ReapOne_overlooks ==
  /\ pc \in {"reap", "drain"}
  /\ \E p \in Pids :
       /\ Zombie(p)
       /\ Release(p)
       /\ IF Tracked(p) /\ ~killIssued THEN RecordExit(p)
          ELSE UNCHANGED <<loopVars, published>>
  /\ UNCHANGED <<pc, timerVars, chanVars, exit, sigchld, ghostVars>>

\* One wait4(-1, WNOHANG) that returns a process, in either reap loop.
ReapOne ==
  /\ pc \in {"reap", "drain"}
  /\ \E p \in Pids :
       /\ Zombie(p)
       /\ Release(p)
       /\ IF Tracked(p) THEN RecordExit(p) ELSE UNCHANGED <<loopVars, published>>
  /\ UNCHANGED <<pc, timerVars, chanVars, exit, sigchld, ghostVars>>

\* Mutant: one process reaped per SIGCHLD.
ReapDone_oneWait ==
  /\ pc = "reap"
  /\ pc' = IF childExited THEN "sweep" ELSE "select"
  /\ UNCHANGED <<loopVars, timerVars, chanVars, outVars, kernelVars, ghostVars>>

\* wait4 has nothing more: back to the select, or on to finish/restartChild.
ReapDone ==
  /\ pc = "reap"
  /\ \A p \in Pids : ~Zombie(p)
  /\ pc' = IF childExited THEN "sweep" ELSE "select"
  /\ UNCHANGED <<loopVars, timerVars, chanVars, outVars, kernelVars, ghostVars>>

\* Mutant: a restart does not sweep the old group.
Sweep_onlyAtFinish ==
  /\ pc = "sweep"
  /\ pc' = "drain"
  /\ IF restarting THEN disarmDeadline /\ UNCHANGED doomed
     ELSE KillGroup /\ UNCHANGED timerVars
  /\ UNCHANGED <<loopVars, chanVars, outVars, pstate, pgrp, ours, sigchld, ghostVars>>

\* restartChild and finish both kill what is left of the group; restartChild
\* disarms its deadline first.
Sweep ==
  /\ pc = "sweep"
  /\ pc' = "drain"
  /\ KillGroup
  /\ IF restarting THEN disarmDeadline ELSE UNCHANGED timerVars
  /\ UNCHANGED <<loopVars, chanVars, outVars, pstate, pgrp, ours, sigchld, ghostVars>>

\* The second drain found nothing more: finish returns the child's status.
Finish ==
  /\ pc = "drain" /\ ~restarting
  /\ \A p \in Pids : ~Zombie(p)
  /\ pc' = "done"
  /\ exit' = status
  /\ disarmDeadline
  /\ UNCHANGED <<loopVars, chanVars, kernelVars, ghostVars>>
  /\ Publish

\* ... and restartChild goes on to the fork.
DrainForRestart ==
  /\ pc = "drain" /\ restarting
  /\ \A p \in Pids : ~Zombie(p)
  /\ pc' = "respawn"
  /\ UNCHANGED <<loopVars, timerVars, chanVars, outVars, kernelVars, ghostVars>>

\* restartChild, second half: the fields are reset and the new child started.
Respawn ==
  /\ pc = "respawn"
  /\ childExited' = FALSE
  /\ shuttingDown' = FALSE
  /\ restarting' = FALSE
  /\ killIssued' = FALSE
  /\ status' = "none"
  /\ (\E p \in Pids : StartOK(p)) \/ StartFails
  /\ UNCHANGED <<timerVars, chanVars>>

-----------------------------------------------------------------------------
(* The environment *)

\* A process dies.  The tracked child becomes our zombie; any other process
\* becomes our zombie when its parent is gone, and its parent's otherwise.
Die(p) ==
  /\ pstate[p] = "live"
  /\ LET how == IF doomed[p] THEN "killed" ELSE "exited" IN
     \/ /\ pstate' = [pstate EXCEPT ![p] = how]
        /\ sigchld' = TRUE
        /\ death' = IF Tracked(p) THEN how ELSE death
        /\ UNCHANGED <<pgrp, ours, doomed>>
     \/ /\ ~Tracked(p)
        /\ Release(p)
        /\ UNCHANGED <<sigchld, death>>
  /\ UNCHANGED <<pc, loopVars, timerVars, chanVars, outVars, asked>>

\* A process appears: forked into its parent's group, or at the head of a group
\* of its own (one that detached itself, or a kubectl exec).
NewProcess(q, g, mine) ==
  /\ Unused(q)
  /\ pstate' = [pstate EXCEPT ![q] = "live"]
  /\ pgrp' = [pgrp EXCEPT ![q] = g]
  /\ ours' = [ours EXCEPT ![q] = mine]
  /\ UNCHANGED <<pc, loopVars, timerVars, chanVars, outVars, doomed, sigchld, ghostVars>>

Fork(p, q) ==
  /\ pstate[p] = "live" /\ ~doomed[p]
  /\ NewProcess(q, pgrp[p], ours[p])

Detach(q) == NewProcess(q, q, FALSE)

Birth == \E q \in Pids : Detach(q) \/ \E p \in Pids : Fork(p, q)

\* The runtime relays SIGCHLD into a channel of capacity one, or drops it.
DeliverChld ==
  /\ sigchld
  /\ sigchld' = FALSE
  /\ chldCh' = TRUE
  /\ UNCHANGED <<pc, loopVars, timerVars, sigCh, ctx, outVars,
                 pstate, pgrp, ours, doomed, ghostVars>>

\* os/signal drops a signal when sigCh is full.
Signal(sig) ==
  /\ Len(sigCh) < SigCap
  /\ sigCh' = Append(sigCh, sig)
  /\ UNCHANGED <<pc, loopVars, timerVars, chldCh, ctx, outVars, kernelVars, ghostVars>>

Cancel ==
  /\ ctx = "live"
  /\ ctx' = "cancelled"
  /\ UNCHANGED <<pc, loopVars, timerVars, sigCh, chldCh, outVars, kernelVars, ghostVars>>

Expire ==
  /\ deadline # "none" /\ ~expired
  /\ expired' = TRUE
  /\ UNCHANGED <<pc, loopVars, deadline, chanVars, outVars, kernelVars, ghostVars>>

-----------------------------------------------------------------------------
Init ==
  /\ pc = "start"
  /\ pid = NoPid
  /\ shuttingDown = FALSE /\ restarting = FALSE
  /\ killIssued = FALSE /\ childExited = FALSE
  /\ status = "none"
  /\ deadline = "none" /\ expired = FALSE
  /\ ctx = "live" /\ sigCh = <<>> /\ chldCh = FALSE
  /\ published = [started |-> FALSE, running |-> FALSE,
                  shuttingDown |-> FALSE, restarting |-> FALSE]
  /\ exit = "none"
  /\ pstate = [p \in Pids |-> "free"]
  /\ pgrp = [p \in Pids |-> NoPid]
  /\ ours = [p \in Pids |-> FALSE]
  /\ doomed = [p \in Pids |-> FALSE]
  /\ sigchld = FALSE
  /\ asked = FALSE /\ death = "none"

Loop ==
  \/ Start
  \/ SelectCtx \/ SelectSignal \/ SelectChld \/ SelectDeadline
  \/ ReapOne \/ ReapDone
  \/ Sweep \/ Finish \/ DrainForRestart \/ Respawn

\* Once Run has returned the process is gone, and the container with it.
Environment ==
  /\ pc # "done"
  /\ \/ \E p \in Pids : Die(p)
     \/ Birth
     \/ DeliverChld
     \/ \E sig \in Sent : Signal(sig)
     \/ Cancel
     \/ Expire

Next == Loop \/ Environment

Spec == Init /\ [][Next]_vars

(***************************************************************************)
(* Fairness.  The system calls of a handler return.  The runtime delivers  *)
(* a raised SIGCHLD and timers fire.  Go's select picks uniformly among    *)
(* the ready cases, so a case that is ready again and again is taken: that *)
(* is strong fairness of each case.  Nothing is assumed of the child: it   *)
(* may ignore SIGTERM and hang in the kernel under SIGKILL.  Other         *)
(* processes stop appearing some day: reap loops for as long as wait4      *)
(* finds something, so orphans that die faster than they are reaped would  *)
(* hold the loop for ever.                                                 *)
(***************************************************************************)
Fairness ==
  /\ WF_vars(Start) /\ WF_vars(ReapOne \/ ReapDone)
  /\ WF_vars(Sweep) /\ WF_vars(Finish) /\ WF_vars(DrainForRestart) /\ WF_vars(Respawn)
  /\ WF_vars(pc # "done" /\ DeliverChld)
  /\ WF_vars(pc # "done" /\ Expire)
  /\ SF_vars(SelectSignal) /\ SF_vars(SelectChld) /\ SF_vars(SelectDeadline)
  /\ <>[][~Birth]_vars

FairSpec == Spec /\ Fairness
-----------------------------------------------------------------------------
(* What the loop guarantees *)

Snapshot == [started : BOOLEAN, running : BOOLEAN,
             shuttingDown : BOOLEAN, restarting : BOOLEAN]

FlagTypes ==
  /\ shuttingDown \in BOOLEAN /\ restarting \in BOOLEAN
  /\ killIssued \in BOOLEAN /\ childExited \in BOOLEAN
  /\ expired \in BOOLEAN /\ chldCh \in BOOLEAN

PhaseTypes ==
  /\ pc \in {"start", "select", "reap", "sweep", "drain", "respawn", "done"}
  /\ pid \in Pids \cup {NoPid}
  /\ status \in Endings \cup {"none"}
  /\ deadline \in {"none", "grace", "hard"}
  /\ ctx \in {"live", "cancelled", "taken"}
  /\ exit \in Endings \cup {"none", "startFailed", "unkillable"}

FieldTypes == FlagTypes /\ PhaseTypes

KernelTypes ==
  /\ pstate \in [Pids -> Endings \cup {"free", "live"}]
  /\ pgrp \in [Pids -> Pids \cup {NoPid}]
  /\ ours \in [Pids -> BOOLEAN] /\ doomed \in [Pids -> BOOLEAN]
  /\ sigchld \in BOOLEAN /\ asked \in BOOLEAN
  /\ death \in Endings \cup {"none"}

QueueType == sigCh \in Seq(Sent)

ViewType == published \in Snapshot

\* Every variable has its type.
TypeOK == FieldTypes /\ KernelTypes /\ QueueType /\ ViewType

\* A restart and a shutdown are never in progress together, whatever order
\* SIGHUP, SIGTERM, the cancellation and the child's death arrive in: the
\* argument beginShutdown rests on when it disarms the restart's deadline.
ModesExclusive == ~(restarting /\ shuttingDown)

\* While the loop waits for an event, a dead child that nobody has reaped yet
\* still has a SIGCHLD on its way: the claim of Run that a channel of capacity
\* one loses no wakeup.
NoLostWakeup ==
  pc = "select" /\ pid # NoPid /\ Zombie(pid) => sigchld \/ chldCh

\* Every process that a signal forwarded (or escalated to SIGKILL) from the
\* select would reach is of the child's group: the pid has not been recycled.
ForwardsToOwnGroup ==
  pc = "select" => \A p \in Group(pid) : ours[p]

\* When the replacement child is forked, every process of an earlier
\* generation's group that is still alive has been sent SIGKILL.
OldGroupDoomed ==
  pc = "respawn" => \A p \in Pids : pstate[p] = "live" /\ ours[p] => doomed[p]

\* The tracked child is only killed after it was asked to stop: the graceful
\* signal comes before the SIGKILL of escalate on every path.
AskedBeforeKilled ==
  pc = "select" /\ pid # NoPid /\ doomed[pid] => asked

\* The status Run returns is the one the current child ended with, never that
\* of an orphan reaped in the same drain or of an earlier child.
ExitCodeIsTheChilds == exit \in Endings => exit = death

\* Once begun, a shutdown is never undone, and the child is not replaced.
ShutdownIsFinal == [][shuttingDown => shuttingDown' /\ pid' = pid]_vars

\* Once the graceful window has run out nothing reopens it: further SIGTERMs
\* neither move the deadline nor withdraw it.
WindowIsNotReopened ==
  [][shuttingDown /\ expired /\ ~killIssued /\ pc = "select"
       => expired' \/ killIssued']_vars

\* A SIGTERM that reached the supervisor's queue makes it exit in the end, even
\* with a child that ignores SIGTERM and does not die of SIGKILL.
TerminationHonoured ==
  (\E i \in 1..Len(sigCh) : isTerminating(sigCh[i])) ~> pc = "done"

\* A restart ends: by a new child, by a shutdown that takes over, or by exit.
RestartEnds == restarting ~> (~restarting \/ pc = "done")

\* The snapshot and the result follow the contract of Lifecycle.
Contract == INSTANCE Lifecycle WITH view <- published, outcome <- exit
ImplementsLifecycle == Contract!Spec

-----------------------------------------------------------------------------
(* The inductive invariant behind the safety properties *)

BeforeStart ==
  pc = "start" =>
    /\ pid = NoPid /\ deadline = "none"
    /\ ~shuttingDown /\ ~restarting /\ ~killIssued /\ ~childExited
    /\ \A p \in Pids : ~ours[p]

Phases ==
  /\ pc \in {"select", "reap", "sweep", "drain", "respawn"} => pid \in Pids
  /\ pc = "select" => ~childExited
  /\ pc \in {"sweep", "drain", "respawn"} => childExited
  /\ pc = "respawn" => restarting
  /\ pc \in {"drain", "respawn"} /\ restarting => deadline = "none"
  /\ pc # "done" => exit = "none"

\* There is a child that has not been reaped.
Minding == pid \in Pids /\ ~childExited /\ pc # "done"

\* Until it is reaped the child keeps its number and its group is its own.
ChildInTable ==
  Minding => /\ pstate[pid] # "free" /\ pgrp[pid] = pid
             /\ \A p \in Group(pid) : ours[p]

\* What is alive of the groups of the children is in the group of the current
\* one or has been sent SIGKILL; once swept, the former does not count.
Generations ==
  pc # "done" =>
    \A p \in Pids :
      pstate[p] = "live" /\ ours[p] /\ ~doomed[p]
        => pid \in Pids /\ pgrp[p] = pid /\ pc \notin {"drain", "respawn"}

DeathKnown ==
  /\ pc # "done" /\ childExited => status = death /\ status \in Endings
  /\ Minding /\ Zombie(pid) => pstate[pid] = death
  /\ exit \in Endings => exit = death

\* A deadline is only armed, and a child only killed, while it is being stopped.
AskedFirst ==
  /\ Minding /\ (deadline # "none" \/ doomed[pid]) => asked
  /\ Minding /\ deadline # "none" => shuttingDown \/ restarting

\* The conjunction is inductive, and implies the safety properties above.
IInv ==
  /\ BeforeStart /\ Phases /\ ModesExclusive /\ ChildInTable /\ Generations
  /\ DeathKnown /\ AskedFirst /\ NoLostWakeup

-----------------------------------------------------------------------------
(* What comments of supervisor.go say and the code does not do *)

\* forward: "Signalling a group that no longer belongs to us is the one way
\* this program could hurt an unrelated process."  The sweep of finish and
\* restartChild signals the group after its leader was reaped.
SweepsOwnGroup == pc = "sweep" => \A p \in Group(pid) : ours[p]
=============================================================================
