-------------------------- MODULE PokkumInitProofs --------------------------
(***************************************************************************)
(* The safety of pokkum-init's event loop, for every set of pids, every    *)
(* capacity of the signal channel, and with dev mode on or off; and of the *)
(* container as a whole, in every mode: it runs this loop, it attests      *)
(* before it starts anything, and its probes say what the loop means.      *)
(***************************************************************************)
EXTENDS PokkumInit, TLAPS

-----------------------------------------------------------------------------
(* Type correctness *)

USE DEF Endings, Zombie

LEMMA InitTyped == Init => TypeOK
  <1>1. Init => FieldTypes
    BY DEF Init, FieldTypes, FlagTypes, PhaseTypes
  <1>2. Init => KernelTypes
    BY DEF Init, KernelTypes
  <1>3. Init => QueueType
    BY DEF Init, QueueType
  <1>4. Init => ViewType
    BY DEF Init, ViewType, Snapshot
  <1>5. QED
    BY <1>1, <1>2, <1>3, <1>4 DEF TypeOK

\* The fields of the loop, in its own steps ...
LEMMA LoopFields == FieldTypes /\ Loop => FieldTypes'
  <1> SUFFICES ASSUME FieldTypes, Loop PROVE FieldTypes'
    OBVIOUS
  <1>a. ASSUME UNCHANGED <<pc, loopVars, deadline, expired, ctx, exit>>,
               chldCh' \in BOOLEAN
        PROVE  FieldTypes'
    BY <1>a DEF FieldTypes, FlagTypes, PhaseTypes, loopVars
  <1>1. CASE Start
    <2>1. pc' \in {"select", "done"} /\ pid' \in Pids \cup {NoPid}
      BY <1>1 DEF Start, StartOK, StartFails, FieldTypes, FlagTypes, PhaseTypes
    <2>2. exit' \in Endings \cup {"none", "startFailed", "unkillable"}
      BY <1>1 DEF Start, StartOK, StartFails, FieldTypes, FlagTypes, PhaseTypes
    <2>3. UNCHANGED <<shuttingDown, restarting, killIssued, childExited, status,
                      deadline, expired, ctx, chldCh>>
      BY <1>1 DEF Start, timerVars, chanVars
    <2>4. FlagTypes'
      BY <2>1, <2>2, <2>3 DEF FieldTypes, FlagTypes
    <2>5. PhaseTypes'
      BY <2>1, <2>2, <2>3 DEF FieldTypes, PhaseTypes
    <2>6. QED
      BY <2>4, <2>5 DEF FieldTypes
  <1>2. CASE SelectCtx
    <2>1. /\ ctx' = "taken" /\ restarting' = FALSE /\ shuttingDown' = TRUE
          /\ UNCHANGED <<pc, pid, killIssued, childExited, status, chldCh, exit>>
      BY <1>2 DEF SelectCtx, beginShutdown
    <2>2. deadline' \in {"none", "grace", "hard"} /\ expired' \in BOOLEAN
      BY <1>2 DEF SelectCtx, beginShutdown, Arm, disarmDeadline, FieldTypes, FlagTypes, PhaseTypes
    <2>3. FlagTypes'
      BY <2>1, <2>2 DEF FieldTypes, FlagTypes
    <2>4. PhaseTypes'
      BY <2>1, <2>2 DEF FieldTypes, PhaseTypes
    <2>5. QED
      BY <2>3, <2>4 DEF FieldTypes
  <1>3. CASE SelectSignal
    <2>1. UNCHANGED <<pc, ctx, chldCh, exit>>
      BY <1>3 DEF SelectSignal
    <2>2. CASE UNCHANGED <<loopVars, timerVars>>
      BY <2>1, <2>2, <1>a DEF timerVars, FieldTypes, FlagTypes, PhaseTypes
    <2>3. CASE beginRestart
      <3>1. CASE shuttingDown \/ restarting \/ childExited
        BY <2>2, <2>3, <3>1 DEF beginRestart
      <3>2. CASE ~(shuttingDown \/ restarting \/ childExited)
        <4>1. /\ restarting' = TRUE /\ deadline' = "grace" /\ expired' = FALSE
              /\ UNCHANGED <<pid, shuttingDown, killIssued, childExited, status>>
          BY <2>3, <3>2 DEF beginRestart, Arm
        <4>2. FlagTypes'
          BY <2>1, <4>1 DEF FieldTypes, FlagTypes
        <4>3. PhaseTypes'
          BY <2>1, <4>1 DEF FieldTypes, PhaseTypes
        <4>4. QED
          BY <4>2, <4>3 DEF FieldTypes
      <3>3. QED
        BY <3>1, <3>2
    <2>4. CASE beginShutdown
      <3>1. /\ restarting' = FALSE /\ shuttingDown' = TRUE
            /\ UNCHANGED <<pid, killIssued, childExited, status>>
        BY <2>4 DEF beginShutdown
      <3>2. deadline' \in {"none", "grace", "hard"} /\ expired' \in BOOLEAN
        BY <2>4 DEF beginShutdown, Arm, disarmDeadline, FieldTypes, FlagTypes, PhaseTypes
      <3>3. FlagTypes'
        BY <2>1, <3>1, <3>2 DEF FieldTypes, FlagTypes
      <3>4. PhaseTypes'
        BY <2>1, <3>1, <3>2 DEF FieldTypes, PhaseTypes
      <3>5. QED
        BY <3>3, <3>4 DEF FieldTypes
    <2>5. QED
      BY <1>3, <2>2, <2>3, <2>4 DEF SelectSignal
  <1>4. CASE SelectChld
    <2>1. chldCh' = FALSE /\ pc' = "reap"
      BY <1>4 DEF SelectChld
    <2>2. UNCHANGED <<loopVars, timerVars, ctx, outVars>>
      BY <1>4 DEF SelectChld
    <2>3. FlagTypes'
      BY <2>1, <2>2 DEF FieldTypes, FlagTypes, loopVars, timerVars, outVars
    <2>4. PhaseTypes'
      BY <2>1, <2>2 DEF FieldTypes, PhaseTypes, loopVars, timerVars, outVars
    <2>5. QED
      BY <2>3, <2>4 DEF FieldTypes
  <1>5. CASE SelectDeadline
    <2>1. /\ UNCHANGED <<pid, shuttingDown, restarting, childExited, status, ctx, chldCh>>
          /\ pc' \in {pc, "done"} /\ killIssued' \in {killIssued, TRUE}
          /\ exit' \in {exit, "unkillable"}
      BY <1>5 DEF SelectDeadline, Abandon, escalate, loopVars, chanVars, outVars
    <2>2. deadline' \in {"none", "hard"} /\ expired' = FALSE
      BY <1>5 DEF SelectDeadline, Abandon, escalate, Arm, disarmDeadline
    <2>3. FlagTypes'
      BY <2>1, <2>2 DEF FieldTypes, FlagTypes
    <2>4. PhaseTypes'
      BY <2>1, <2>2 DEF FieldTypes, PhaseTypes
    <2>5. QED
      BY <2>3, <2>4 DEF FieldTypes
  <1>6. CASE ReapOne
    <2>1. /\ UNCHANGED <<pc, pid, shuttingDown, restarting, killIssued>>
          /\ UNCHANGED <<deadline, expired, ctx, chldCh, exit>>
      BY <1>6 DEF ReapOne, RecordExit, loopVars, timerVars, chanVars
    <2>2. childExited' \in BOOLEAN /\ status' \in Endings \cup {"none"}
      BY <1>6 DEF ReapOne, RecordExit, loopVars, FieldTypes, FlagTypes, PhaseTypes
    <2>3. FlagTypes'
      BY <2>1, <2>2 DEF FieldTypes, FlagTypes
    <2>4. PhaseTypes'
      BY <2>1, <2>2 DEF FieldTypes, PhaseTypes
    <2>5. QED
      BY <2>3, <2>4 DEF FieldTypes
  <1>7. CASE ReapDone
    <2>1. pc' \in {"sweep", "select"}
      BY <1>7 DEF ReapDone
    <2>2. UNCHANGED <<loopVars, timerVars, chanVars, outVars>>
      BY <1>7 DEF ReapDone
    <2>3. FlagTypes'
      BY <2>1, <2>2 DEF FieldTypes, FlagTypes, loopVars, timerVars, chanVars, outVars
    <2>4. PhaseTypes'
      BY <2>1, <2>2 DEF FieldTypes, PhaseTypes, loopVars, timerVars, chanVars, outVars
    <2>5. QED
      BY <2>3, <2>4 DEF FieldTypes
  <1>8. CASE Sweep
    <2>1. pc' = "drain" /\ UNCHANGED <<loopVars, ctx, chldCh, exit>>
      BY <1>8 DEF Sweep, chanVars, outVars
    <2>2. deadline' \in {"none", "grace", "hard"} /\ expired' \in BOOLEAN
      BY <1>8 DEF Sweep, disarmDeadline, timerVars, FieldTypes, FlagTypes, PhaseTypes
    <2>3. FlagTypes'
      BY <2>1, <2>2 DEF FieldTypes, FlagTypes, loopVars
    <2>4. PhaseTypes'
      BY <2>1, <2>2 DEF FieldTypes, PhaseTypes, loopVars
    <2>5. QED
      BY <2>3, <2>4 DEF FieldTypes
  <1>9. CASE Finish
    <2>1. /\ pc' = "done" /\ exit' = status
          /\ deadline' = "none" /\ expired' = FALSE
          /\ UNCHANGED <<loopVars, chanVars>>
      BY <1>9 DEF Finish, disarmDeadline
    <2>2. FlagTypes'
      BY <2>1 DEF FieldTypes, FlagTypes, loopVars, chanVars
    <2>3. PhaseTypes'
      BY <2>1 DEF FieldTypes, PhaseTypes, loopVars, chanVars
    <2>4. QED
      BY <2>2, <2>3 DEF FieldTypes
  <1>10. CASE DrainForRestart
    <2>1. pc' = "respawn" /\ UNCHANGED <<loopVars, timerVars, chanVars, outVars>>
      BY <1>10 DEF DrainForRestart
    <2>2. FlagTypes'
      BY <2>1 DEF FieldTypes, FlagTypes, loopVars, timerVars, chanVars, outVars
    <2>3. PhaseTypes'
      BY <2>1 DEF FieldTypes, PhaseTypes, loopVars, timerVars, chanVars, outVars
    <2>4. QED
      BY <2>2, <2>3 DEF FieldTypes
  <1>11. CASE Respawn
    <2>1. pc' \in {"select", "done"} /\ pid' \in Pids \cup {NoPid}
      BY <1>11 DEF Respawn, StartOK, StartFails, FieldTypes, FlagTypes, PhaseTypes
    <2>2. exit' \in Endings \cup {"none", "startFailed", "unkillable"}
      BY <1>11 DEF Respawn, StartOK, StartFails, FieldTypes, FlagTypes, PhaseTypes
    <2>3. /\ childExited' = FALSE /\ shuttingDown' = FALSE /\ restarting' = FALSE
          /\ killIssued' = FALSE /\ status' = "none"
          /\ UNCHANGED <<timerVars, chanVars>>
      BY <1>11 DEF Respawn
    <2>4. FlagTypes'
      BY <2>1, <2>2, <2>3 DEF FieldTypes, FlagTypes, timerVars, chanVars
    <2>5. PhaseTypes'
      BY <2>1, <2>2, <2>3 DEF FieldTypes, PhaseTypes, timerVars, chanVars
    <2>6. QED
      BY <2>4, <2>5 DEF FieldTypes
  <1>12. QED
    BY <1>1, <1>2, <1>3, <1>4, <1>5, <1>6, <1>7, <1>8, <1>9, <1>10, <1>11 DEF Loop

\* ... and in those of the environment.
LEMMA EnvironmentFields == FieldTypes /\ Environment => FieldTypes'
  <1> SUFFICES ASSUME FieldTypes, Environment PROVE FieldTypes'
    OBVIOUS
  <1>1. UNCHANGED <<pc, loopVars, deadline, exit>>
    BY DEF Environment, timerVars, outVars, Die, Birth, Detach, Fork, NewProcess,
           DeliverChld, Signal, Cancel, Expire
  <1>2. /\ expired' = expired \/ expired' = TRUE
        /\ chldCh' = chldCh \/ chldCh' = TRUE
        /\ ctx' = ctx \/ ctx' = "cancelled"
    BY DEF Environment, timerVars, chanVars, Die, Birth, Detach, Fork, NewProcess,
           DeliverChld, Signal, Cancel, Expire
  <1>3. expired' \in BOOLEAN /\ chldCh' \in BOOLEAN
    BY <1>2 DEF FieldTypes, FlagTypes, PhaseTypes
  <1>4. ctx' \in {"live", "cancelled", "taken"}
    BY <1>2 DEF FieldTypes, FlagTypes, PhaseTypes
  <1>5. QED
    BY <1>1, <1>3, <1>4 DEF FieldTypes, FlagTypes, PhaseTypes, loopVars

\* The process table, in the steps of the loop ...
LEMMA LoopKernel == KernelTypes /\ Loop => KernelTypes'
  <1> SUFFICES ASSUME KernelTypes, Loop PROVE KernelTypes'
    OBVIOUS
  <1> USE DEF KernelTypes, kernelVars, ghostVars
  <1>1. ASSUME NEW p \in Pids, StartOK(p) PROVE KernelTypes'
    BY <1>1 DEF StartOK
  <1>2. CASE Start \/ Respawn
    BY <1>1, <1>2 DEF Start, Respawn, StartFails
  <1>3. CASE UNCHANGED kernelVars /\ asked' \in BOOLEAN /\ death' = death
    BY <1>3
  <1>4. ASSUME KillGroup, UNCHANGED <<pstate, pgrp, ours, sigchld, ghostVars>>
        PROVE  KernelTypes'
    BY <1>4 DEF KillGroup
  <1>5. ASSUME NEW p \in Pids, Release(p), UNCHANGED <<sigchld, ghostVars>>
        PROVE  KernelTypes'
    BY <1>5 DEF Release
  <1>6. CASE SelectCtx \/ SelectSignal
    BY <1>3, <1>6 DEF SelectCtx, SelectSignal, forward, beginRestart, beginShutdown
  <1>7. CASE SelectChld \/ ReapDone \/ Finish \/ DrainForRestart
    BY <1>3, <1>7 DEF SelectChld, ReapDone, Finish, DrainForRestart
  <1>8. CASE SelectDeadline
    BY <1>3, <1>4, <1>8 DEF SelectDeadline, Abandon, escalate
  <1>9. CASE ReapOne
    BY <1>5, <1>9 DEF ReapOne
  <1>10. CASE Sweep
    BY <1>4, <1>10 DEF Sweep
  <1>11. QED
    BY <1>2, <1>6, <1>7, <1>8, <1>9, <1>10 DEF Loop

\* ... and in those of the environment.
LEMMA EnvironmentKernel == KernelTypes /\ Environment => KernelTypes'
  <1> SUFFICES ASSUME KernelTypes, Environment PROVE KernelTypes'
    OBVIOUS
  <1> USE DEF KernelTypes, kernelVars, ghostVars
  <1>1. ASSUME NEW p \in Pids, Die(p) PROVE KernelTypes'
    BY <1>1 DEF Die, Release
  <1>2. ASSUME NEW q \in Pids, NEW g \in Pids \cup {NoPid}, NEW mine \in BOOLEAN,
               NewProcess(q, g, mine)
        PROVE  KernelTypes'
    BY <1>2 DEF NewProcess
  <1>3. CASE Birth
    <2>1. ASSUME NEW q \in Pids, Detach(q) PROVE KernelTypes'
      BY <1>2, <2>1 DEF Detach
    <2>2. ASSUME NEW q \in Pids, NEW p \in Pids, Fork(p, q) PROVE KernelTypes'
      <3>1. pgrp[p] \in Pids \cup {NoPid} /\ ours[p] \in BOOLEAN
        OBVIOUS
      <3>2. QED
        BY <1>2, <2>2, <3>1 DEF Fork
    <2>3. QED
      BY <1>3, <2>1, <2>2 DEF Birth
  <1>4. CASE DeliverChld
    BY <1>4 DEF DeliverChld
  <1>5. CASE UNCHANGED <<kernelVars, ghostVars>>
    BY <1>5
  <1>6. QED
    BY <1>1, <1>3, <1>4, <1>5 DEF Environment, Signal, Cancel, Expire

\* The queue changes at its two ends only: a signal arrives, or is taken.
LEMMA QueueTyped == QueueType /\ [Next]_vars => QueueType'
  <1> SUFFICES ASSUME QueueType, [Next]_vars PROVE QueueType'
    OBVIOUS
  <1>1. CASE sigCh' = sigCh
    BY <1>1 DEF QueueType
  <1>2. CASE sigCh # <<>> /\ sigCh' = Tail(sigCh)
    BY <1>2 DEF QueueType
  <1>3. ASSUME NEW sig \in Sent, sigCh' = Append(sigCh, sig) PROVE QueueType'
    BY <1>3 DEF QueueType
  <1>4. \/ sigCh' = sigCh
        \/ sigCh # <<>> /\ sigCh' = Tail(sigCh)
        \/ \E sig \in Sent : sigCh' = Append(sigCh, sig)
    BY DEF Next, Loop, Environment, vars, chanVars, Start, SelectCtx, SelectSignal,
           SelectChld, SelectDeadline, ReapOne, ReapDone, Sweep, Finish,
           DrainForRestart, Respawn, Die, Birth, Detach, Fork, NewProcess,
           DeliverChld, Signal, Cancel, Expire
  <1>5. QED
    BY <1>1, <1>2, <1>3, <1>4

\* The snapshot is replaced as a whole, by publish, or not at all.
LEMMA ViewTyped == ViewType /\ FieldTypes' /\ [Next]_vars => ViewType'
  <1> SUFFICES ASSUME ViewType, FieldTypes', [Next]_vars PROVE ViewType'
    OBVIOUS
  <1>1. CASE published' = published
    BY <1>1 DEF ViewType
  <1>2. CASE Publish
    BY <1>2 DEF Publish, ViewType, Snapshot, FieldTypes, FlagTypes, PhaseTypes
  <1>3. Publish \/ published' = published
    BY DEF Next, Loop, Environment, vars, outVars, Start, SelectCtx, SelectSignal,
           SelectChld, SelectDeadline, ReapOne, ReapDone, Sweep, Finish,
           DrainForRestart, Respawn, Die, Birth, Detach, Fork, NewProcess,
           DeliverChld, Signal, Cancel, Expire, StartOK, StartFails, beginShutdown,
           beginRestart, Abandon, escalate, RecordExit
  <1>4. QED
    BY <1>1, <1>2, <1>3

\* Every variable of the supervisor and of the process table keeps its type.
THEOREM TypeCorrect == Spec => []TypeOK
  <1>1. TypeOK /\ UNCHANGED vars => (FieldTypes /\ KernelTypes)'
    <2> SUFFICES ASSUME TypeOK, UNCHANGED vars PROVE FieldTypes' /\ KernelTypes'
      OBVIOUS
    <2> USE DEF vars, loopVars, timerVars, chanVars, outVars, kernelVars, ghostVars
    <2>1. FieldTypes'
      BY DEF TypeOK, FieldTypes, FlagTypes, PhaseTypes
    <2>2. KernelTypes'
      BY DEF TypeOK, KernelTypes
    <2>3. QED
      BY <2>1, <2>2
  <1>2. TypeOK /\ [Next]_vars => TypeOK'
    BY <1>1, LoopFields, EnvironmentFields, LoopKernel, EnvironmentKernel,
       QueueTyped, ViewTyped DEF Next, TypeOK
  <1>3. QED
    BY <1>2, InitTyped, PTL DEF Spec

-----------------------------------------------------------------------------
(* The inductive invariant *)

LEMMA InitInvariant == Init => IInv
  BY PidAssumption
  DEF Init, IInv, BeforeStart, Phases, ModesExclusive, Minding, ChildInTable,
      Generations, DeathKnown, AskedFirst, NoLostWakeup

LEMMA LoopInvariant == TypeOK /\ TypeOK' /\ IInv /\ Loop => IInv'
  <1> SUFFICES ASSUME TypeOK, TypeOK', IInv, Loop PROVE IInv'
    OBVIOUS
  <1> USE PidAssumption
      DEF TypeOK, FieldTypes, FlagTypes, PhaseTypes, KernelTypes, Group, Arm, disarmDeadline,
          loopVars, timerVars, chanVars, outVars, kernelVars, ghostVars,
          IInv, BeforeStart, Phases, ModesExclusive, Minding, ChildInTable,
          Generations, DeathKnown, AskedFirst, NoLostWakeup
  \* The number handed out is unused, so the child's group starts with it alone.
  <1>1. CASE Start
    BY <1>1 DEF Start, StartOK, StartFails, Unused
  \* What arms a deadline has sent a terminating signal before it.
  <1>2. CASE SelectCtx
    BY <1>2 DEF SelectCtx, beginShutdown, forward, isTerminating
  <1>3. CASE SelectSignal
    BY <1>3 DEF SelectSignal, beginShutdown, beginRestart, forward, isTerminating
  <1>4. CASE SelectChld
    BY <1>4 DEF SelectChld
  \* SIGKILL is only sent when a deadline was armed.
  <1>5. CASE SelectDeadline
    <2>1. CASE Abandon
      BY <1>5, <2>1 DEF SelectDeadline, Abandon
    <2>2. CASE escalate
      BY <1>5, <2>2 DEF SelectDeadline, escalate, KillGroup
    <2>3. QED
      BY <1>5, <2>1, <2>2 DEF SelectDeadline
  \* Only the child itself ends Minding; an orphan has another number.
  <1>6. CASE ReapOne
    BY <1>6 DEF ReapOne, Release, RecordExit, Tracked
  \* The loop returns to the select with no zombie left: no wakeup is owed.
  <1>7. CASE ReapDone
    BY <1>7 DEF ReapDone
  <1>8. CASE Sweep
    BY <1>8 DEF Sweep, KillGroup
  <1>9. CASE Finish
    BY <1>9 DEF Finish
  <1>10. CASE DrainForRestart
    BY <1>10 DEF DrainForRestart
  \* Everything of the old groups was swept, so only the new group is exempt.
  <1>11. CASE Respawn
    BY <1>11 DEF Respawn, StartOK, StartFails, Unused
  <1>12. QED
    BY <1>1, <1>2, <1>3, <1>4, <1>5, <1>6, <1>7, <1>8, <1>9, <1>10, <1>11 DEF Loop

LEMMA EnvironmentInvariant == TypeOK /\ IInv /\ Environment => IInv'
  <1> SUFFICES ASSUME TypeOK, IInv, Environment PROVE IInv'
    OBVIOUS
  <1> USE PidAssumption
      DEF TypeOK, FieldTypes, FlagTypes, PhaseTypes, KernelTypes, Group, Unused,
          loopVars, timerVars, chanVars, outVars, kernelVars, ghostVars,
          IInv, BeforeStart, Phases, ModesExclusive, Minding, ChildInTable,
          Generations, DeathKnown, AskedFirst, NoLostWakeup
  <1>a. pc # "done"
    BY DEF Environment
  \* A death of the child raises SIGCHLD and is recorded in the history.
  <1>1. ASSUME NEW p \in Pids, Die(p) PROVE IInv'
    <2> DEFINE how == IF doomed[p] THEN "killed" ELSE "exited"
    <2>1. /\ pstate[p] = "live" /\ how \in Endings
          /\ UNCHANGED <<pc, loopVars, timerVars, chanVars, outVars, asked>>
      BY <1>1 DEF Die
    <2>2. CASE /\ pstate' = [pstate EXCEPT ![p] = how] /\ sigchld' = TRUE
               /\ death' = (IF Tracked(p) THEN how ELSE death)
               /\ UNCHANGED <<pgrp, ours, doomed>>
      <3> HIDE DEF how
      <3>1. CASE Tracked(p)
        <4>1. p = pid /\ ~childExited /\ pstate'[pid] = how /\ death' = how
          BY <2>2, <3>1 DEF Tracked
        <4>2. ChildInTable'
          BY <2>1, <2>2, <4>1
        <4>3. DeathKnown'
          BY <1>a, <2>1, <4>1
        <4>4. (BeforeStart /\ Phases /\ ModesExclusive /\ NoLostWakeup)'
          BY <2>1, <2>2, <4>1
        <4>5. (Generations /\ AskedFirst)'
          BY <2>1, <2>2, <4>1
        <4>6. QED
          BY <4>2, <4>3, <4>4, <4>5
      <3>2. CASE ~Tracked(p)
        BY <2>1, <2>2, <3>2 DEF Tracked
      <3>3. QED
        BY <3>1, <3>2
    <2>3. CASE ~Tracked(p) /\ Release(p) /\ UNCHANGED <<sigchld, death>>
      BY <2>1, <2>3 DEF Release, Tracked
    <2>4. QED
      BY <1>1, <2>2, <2>3 DEF Die
  \* A newcomer in the child's group has a parent there.
  <1>2. ASSUME NEW q \in Pids, NEW p \in Pids, Fork(p, q) PROVE IInv'
    BY <1>2 DEF Fork, NewProcess
  \* The head of a new group has a number that names no group.
  <1>3. ASSUME NEW q \in Pids, Detach(q) PROVE IInv'
    BY <1>3 DEF Detach, NewProcess
  <1>4. CASE DeliverChld
    BY <1>4 DEF DeliverChld
  <1>5. ASSUME NEW sig \in Sent, Signal(sig) PROVE IInv'
    BY <1>5 DEF Signal
  <1>6. CASE Cancel
    BY <1>6 DEF Cancel
  <1>7. CASE Expire
    BY <1>7 DEF Expire
  <1>8. QED
    BY <1>1, <1>2, <1>3, <1>4, <1>5, <1>6, <1>7 DEF Environment, Birth

\* The strengthening of the safety properties is an invariant.
THEOREM Invariance == Spec => []IInv
  <1>1. IInv /\ UNCHANGED vars => IInv'
    BY DEF IInv, BeforeStart, Phases, ModesExclusive, Minding, ChildInTable, Group,
           Generations, DeathKnown, AskedFirst, NoLostWakeup, vars, loopVars,
           timerVars, chanVars, outVars, kernelVars, ghostVars
  <1>2. TypeOK /\ TypeOK' /\ IInv /\ [Next]_vars => IInv'
    BY <1>1, LoopInvariant, EnvironmentInvariant DEF Next
  <1>3. QED
    BY <1>2, InitInvariant, TypeCorrect, PTL DEF Spec

-----------------------------------------------------------------------------
(* The safety properties *)

\* A restart and a shutdown are never in progress together.
THEOREM ModesAreExclusive == Spec => []ModesExclusive
  BY Invariance, PTL DEF IInv

\* The loop never waits with a dead child and no SIGCHLD on its way.
THEOREM WakeupsAreNotLost == Spec => []NoLostWakeup
  BY Invariance, PTL DEF IInv

\* A signal forwarded from the select reaches the child's own group only.
THEOREM ForwardingIsSafe == Spec => []ForwardsToOwnGroup
  <1>1. IInv => ForwardsToOwnGroup
    BY DEF IInv, Phases, ChildInTable, Minding, ForwardsToOwnGroup
  <1>2. QED
    BY <1>1, Invariance, PTL

\* No process of an old generation outlives a restart without a SIGKILL.
THEOREM OldGroupIsDoomed == Spec => []OldGroupDoomed
  <1>1. IInv => OldGroupDoomed
    BY DEF IInv, Generations, OldGroupDoomed
  <1>2. QED
    BY <1>1, Invariance, PTL

\* The child is asked to stop before it is killed.
THEOREM KillComesAfterAsking == Spec => []AskedBeforeKilled
  <1>1. IInv => AskedBeforeKilled
    BY DEF IInv, Phases, AskedFirst, Minding, AskedBeforeKilled
  <1>2. QED
    BY <1>1, Invariance, PTL

\* Run returns the status of the current child.
THEOREM ExitCodePropagates == Spec => []ExitCodeIsTheChilds
  <1>1. IInv => ExitCodeIsTheChilds
    BY DEF IInv, DeathKnown, ExitCodeIsTheChilds
  <1>2. QED
    BY <1>1, Invariance, PTL

-----------------------------------------------------------------------------
(* The action properties *)

LEMMA EnvironmentMindsItsOwn ==
  Environment => UNCHANGED <<pc, pid, shuttingDown, restarting, killIssued, childExited,
                             published, exit>>
  BY DEF Environment, loopVars, outVars, Die, Birth, Detach, Fork, NewProcess,
         DeliverChld, Signal, Cancel, Expire

\* A shutdown, once begun, is never undone and its child never replaced.
THEOREM ShutdownsAreFinal == Spec => ShutdownIsFinal
  <1>1. TypeOK /\ IInv /\ [Next]_vars => [shuttingDown => shuttingDown' /\ pid' = pid]_vars
    <2> SUFFICES ASSUME TypeOK, IInv, Next, shuttingDown
                 PROVE  shuttingDown' /\ pid' = pid
      OBVIOUS
    <2> USE DEF loopVars, TypeOK, FieldTypes, FlagTypes, PhaseTypes
    \* Both forks are ruled out: the first precedes every shutdown, and the
    \* second belongs to a restart.
    <2>1. ~Start /\ ~Respawn
      BY DEF IInv, BeforeStart, Phases, ModesExclusive, Start, Respawn
    <2>2. CASE Loop
      BY <2>1, <2>2
      DEF Loop, SelectCtx, SelectSignal, beginShutdown, beginRestart, SelectChld,
          SelectDeadline, Abandon, escalate, ReapOne, RecordExit, ReapDone, Sweep,
          Finish, DrainForRestart
    <2>3. CASE Environment
      BY <2>3, EnvironmentMindsItsOwn
    <2>4. QED
      BY <2>2, <2>3 DEF Next
  <1>2. QED
    BY <1>1, Invariance, TypeCorrect, PTL DEF Spec, ShutdownIsFinal

\* A graceful window that has run out is neither reopened nor withdrawn.
THEOREM WindowsStayShut == Spec => WindowIsNotReopened
  <1> DEFINE Out == shuttingDown /\ expired /\ ~killIssued /\ pc = "select"
  <1>1. TypeOK /\ IInv /\ [Next]_vars => [Out => expired' \/ killIssued']_vars
    <2> SUFFICES ASSUME TypeOK, IInv, Next, Out PROVE expired' \/ killIssued'
      OBVIOUS
    <2> USE DEF loopVars, timerVars, TypeOK, FieldTypes, FlagTypes, PhaseTypes
    <2>1. ~restarting
      BY DEF IInv, ModesExclusive
    <2>2. CASE Loop
      BY <2>1, <2>2
      DEF Loop, Start, SelectCtx, SelectSignal, beginShutdown, beginRestart, SelectChld,
          SelectDeadline, Abandon, escalate, ReapOne, ReapDone, Sweep,
          Finish, DrainForRestart, Respawn
    <2>3. CASE Environment
      BY <2>3 DEF Environment, Die, Birth, Detach, Fork, NewProcess,
         DeliverChld, Signal, Cancel, Expire
    <2>4. QED
      BY <2>2, <2>3 DEF Next
  <1>2. QED
    BY <1>1, Invariance, TypeCorrect, PTL DEF Spec, WindowIsNotReopened

-----------------------------------------------------------------------------
(* The supervisor implements the contract of Lifecycle *)

\* The snapshot is up to date whenever the loop can be observed.
ViewFollows ==
  pc # "done" =>
    published = [started      |-> pid # NoPid,
                 running      |-> pid # NoPid /\ ~childExited,
                 shuttingDown |-> shuttingDown,
                 restarting   |-> restarting]

LEMMA ViewIsFollowed == TypeOK /\ IInv /\ ViewFollows /\ [Next]_vars => ViewFollows'
  <1> SUFFICES ASSUME TypeOK, IInv, ViewFollows, [Next]_vars, pc' # "done"
               PROVE  ViewFollows'
    BY DEF ViewFollows
  <1> USE DEF loopVars, outVars
  <1>1. CASE Publish
    BY <1>1 DEF Publish, ViewFollows
  <1>2. CASE pc # "done" /\ UNCHANGED <<pid, childExited, shuttingDown, restarting, published>>
    BY <1>2 DEF ViewFollows
  <1>3. CASE Environment
    BY <1>3, <1>2, EnvironmentMindsItsOwn DEF Environment
  <1>4. CASE UNCHANGED vars
    BY <1>4, <1>2 DEF vars
  <1>5. CASE Loop
    <2>1. CASE pc = "select" /\ beginShutdown
      <3>1. CASE shuttingDown
        BY <2>1, <3>1, <1>2 DEF beginShutdown, IInv, ModesExclusive, TypeOK, FieldTypes, FlagTypes, PhaseTypes
      <3>2. CASE ~shuttingDown
        BY <2>1, <3>2, <1>1 DEF beginShutdown
      <3>3. QED
        BY <3>1, <3>2
    <2>2. QED
      BY <1>5, <1>1, <1>2, <2>1
      DEF Loop, Start, StartOK, StartFails, SelectCtx, SelectSignal, beginRestart,
          SelectChld, SelectDeadline, Abandon, escalate, ReapOne, RecordExit,
          ReapDone, Sweep, Finish, DrainForRestart, Respawn
  <1>6. QED
    BY <1>3, <1>4, <1>5 DEF Next

LEMMA InitMaps == Init => Contract!Init /\ ViewFollows
  BY DEF Init, Contract!Init, Contract!Down, Contract!View, ViewFollows

\* One step of the loop is one step of the contract, or none.
LEMMA LoopMaps ==
  TypeOK /\ IInv /\ ViewFollows /\ Loop
    => (exit = "none" /\ Contract!Step) \/ UNCHANGED <<published, exit>>
  <1> SUFFICES ASSUME TypeOK, IInv, ViewFollows, Loop
               PROVE  (exit = "none" /\ Contract!Step) \/ UNCHANGED <<published, exit>>
    OBVIOUS
  <1> DEFINE View(a, b, c, d) == Contract!View(a, b, c, d)
  <1> USE PidAssumption
      DEF TypeOK, FieldTypes, FlagTypes, PhaseTypes, loopVars, outVars, IInv, Phases, ModesExclusive,
          Contract!View
  <1>1. pc # "done" /\ exit = "none"
    BY DEF Loop, Start, SelectCtx, SelectSignal, SelectChld, SelectDeadline, ReapOne,
           ReapDone, Sweep, Finish, DrainForRestart, Respawn
  <1>2. published = View(pid # NoPid, pid # NoPid /\ ~childExited, shuttingDown, restarting)
    BY <1>1 DEF ViewFollows
  \* What the handlers that publish do to the snapshot.
  <1>3. ASSUME beginShutdown, pid \in Pids, ~childExited, exit' = exit
        PROVE  Contract!Shut \/ UNCHANGED <<published, exit>>
    <2>1. CASE shuttingDown
      BY <1>3, <2>1 DEF beginShutdown
    <2>2. CASE ~shuttingDown
      <3>1. published' = View(TRUE, TRUE, TRUE, FALSE)
        BY <1>3, <2>2 DEF beginShutdown, Publish
      <3>2. published = View(TRUE, TRUE, FALSE, restarting)
        BY <1>2, <1>3, <2>2
      <3>3. QED
        BY <1>3, <3>1, <3>2 DEF Contract!Shut
    <2>3. QED
      BY <2>1, <2>2
  <1>4. ASSUME beginRestart, DevMode, pid \in Pids, ~childExited, exit' = exit
        PROVE  Contract!Restart \/ UNCHANGED <<published, exit>>
    <2>1. CASE shuttingDown \/ restarting
      BY <1>4, <2>1 DEF beginRestart
    <2>2. CASE ~(shuttingDown \/ restarting)
      <3>1. published' = View(TRUE, TRUE, FALSE, TRUE)
        BY <1>4, <2>2 DEF beginRestart, Publish
      <3>2. published = View(TRUE, TRUE, FALSE, FALSE)
        BY <1>2, <1>4, <2>2
      <3>3. QED
        BY <1>4, <3>1, <3>2 DEF Contract!Restart, Contract!Up, Contract!Down
    <2>3. QED
      BY <2>1, <2>2
  <1>5. CASE Start
    <2>1. published = View(FALSE, FALSE, FALSE, FALSE)
      BY <1>2, <1>5 DEF Start, BeforeStart
    <2>2. CASE \E p \in Pids : StartOK(p)
      <3>1. published' = View(TRUE, TRUE, FALSE, FALSE) /\ exit' = exit
        BY <1>5, <2>2 DEF Start, BeforeStart, StartOK, Publish
      <3>2. QED
        BY <1>1, <2>1, <3>1 DEF Contract!Step, Contract!Begin, Contract!Up, Contract!Down
    <2>3. CASE StartFails
      BY <1>1, <2>1, <2>3
      DEF StartFails, Contract!Step, Contract!Begin, Contract!Down
    <2>4. QED
      BY <1>5, <2>2, <2>3 DEF Start
  <1>6. CASE SelectCtx
    BY <1>1, <1>3, <1>6 DEF SelectCtx, Contract!Step
  <1>7. CASE SelectSignal
    BY <1>1, <1>3, <1>4, <1>7 DEF SelectSignal, Contract!Step
  <1>8. CASE SelectChld \/ ReapDone \/ Sweep \/ DrainForRestart
    BY <1>8 DEF SelectChld, ReapDone, Sweep, DrainForRestart
  <1>9. CASE SelectDeadline
    <2>1. CASE escalate
      BY <2>1 DEF escalate
    <2>2. CASE Abandon
      <3>1. published' = published
        BY <1>2, <2>2 DEF Abandon, Publish
      <3>2. published.running /\ (published.shuttingDown \/ published.restarting)
        BY <1>1, <1>2, <1>9, <2>2 DEF SelectDeadline, Abandon, AskedFirst, Minding
      <3>3. QED
        BY <1>1, <2>2, <3>1, <3>2 DEF Abandon, Contract!Step, Contract!Return
    <2>3. QED
      BY <1>9, <2>1, <2>2 DEF SelectDeadline
  <1>10. CASE ReapOne
    <2> PICK p \in Pids : /\ Release(p)
                          /\ IF Tracked(p) THEN RecordExit(p)
                             ELSE UNCHANGED <<loopVars, published>>
      BY <1>10 DEF ReapOne
    <2>1. CASE Tracked(p)
      <3>1. published = View(TRUE, TRUE, shuttingDown, restarting)
        BY <1>2, <2>1 DEF Tracked
      <3>2. published' = View(TRUE, FALSE, shuttingDown, restarting)
        BY <2>1 DEF Tracked, RecordExit, Publish
      <3>3. QED
        BY <1>1, <1>10, <3>1, <3>2 DEF ReapOne, Contract!Step, Contract!ChildEnds
    <2>2. CASE ~Tracked(p)
      BY <1>10, <2>2 DEF ReapOne
    <2>3. QED
      BY <2>1, <2>2
  <1>11. CASE Finish
    <2>1. published = View(TRUE, FALSE, shuttingDown, FALSE)
      BY <1>2, <1>11 DEF Finish
    <2>2. published' = published
      BY <1>2, <1>11 DEF Finish, Publish
    <2>3. exit' \in {"exited", "killed"}
      BY <1>1, <1>11 DEF Finish, DeathKnown, Endings
    <2>4. QED
      BY <1>1, <2>1, <2>2, <2>3 DEF Contract!Step, Contract!Return
  <1>12. CASE Respawn
    <2>1. published = View(TRUE, FALSE, FALSE, TRUE)
      BY <1>2, <1>12 DEF Respawn
    <2>2. CASE \E p \in Pids : StartOK(p)
      <3>1. published' = View(TRUE, TRUE, FALSE, FALSE) /\ exit' = exit
        BY <1>12, <2>2 DEF Respawn, StartOK, Publish
      <3>2. QED
        BY <1>1, <2>1, <3>1
        DEF Contract!Step, Contract!Replace, Contract!Up, Contract!Down
    <2>3. CASE StartFails
      BY <1>1, <2>1, <2>3 DEF StartFails, Contract!Step, Contract!Replace
    <2>4. QED
      BY <1>12, <2>2, <2>3 DEF Respawn
  <1>13. QED
    BY <1>5, <1>6, <1>7, <1>8, <1>9, <1>10, <1>11, <1>12 DEF Loop

\* What the probe server and the caller of Run see of the supervisor is a
\* behaviour of Lifecycle, with or without dev mode.
THEOREM Implements == Spec => ImplementsLifecycle
  <1>1. TypeOK /\ IInv /\ ViewFollows /\ [Next]_vars
          => [exit = "none" /\ Contract!Step]_<<published, exit>>
    BY LoopMaps, EnvironmentMindsItsOwn DEF Next, vars, outVars
  <1>2. QED
    BY <1>1, InitMaps, ViewIsFollowed, Invariance, TypeCorrect, PTL
    DEF Spec, ImplementsLifecycle, Contract!Spec

-----------------------------------------------------------------------------
(* The container *)

\* Every step of the container is a step of the supervisor or none of it, so
\* what is proved of the supervisor holds inside the container.
THEOREM Supervised == ContainerSpec => Spec
  <1>1. ContainerInit => Init
    BY DEF ContainerInit
  <1>2. [ContainerNext]_containerVars => [Next]_vars
    BY DEF ContainerNext, containerVars, VerifyAttestation, Run, Serve, Check,
           RecordReady, Listen, StopListening
  <1>3. QED
    BY <1>1, <1>2, PTL DEF ContainerSpec, Spec

\* The snapshot follows the loop inside the container too.
LEMMA ViewFollowsAlways == ContainerSpec => []ViewFollows
  <1>1. Spec => []ViewFollows
    BY InitMaps, ViewIsFollowed, Invariance, TypeCorrect, PTL DEF Spec
  <1>2. QED
    BY <1>1, Supervised, PTL

\* Before the verdict there is no supervisor, and it only starts on a match.
AttestedFirst ==
  /\ main # "run" => pc = "start" /\ pid = NoPid /\ ~published.running
  /\ main = "run" => verdict = "match"

LEMMA AttestedFirstAlways == ContainerSpec => []AttestedFirst
  <1>1. ContainerInit => AttestedFirst
    BY DEF ContainerInit, Init, AttestedFirst
  <1>2. AttestedFirst /\ [ContainerNext]_containerVars => AttestedFirst'
    <2> SUFFICES ASSUME AttestedFirst, [ContainerNext]_containerVars
                 PROVE  AttestedFirst'
      OBVIOUS
    <2> USE DEF AttestedFirst, vars, loopVars, outVars, mainVars
    <2>1. CASE VerifyAttestation
      BY <2>1 DEF VerifyAttestation
    <2>2. CASE Run
      BY <2>2 DEF Run
    <2>3. CASE UNCHANGED <<vars, mainVars>>
      BY <2>3
    <2>4. QED
      BY <2>1, <2>2, <2>3
      DEF ContainerNext, containerVars, Serve, Check, RecordReady, Listen, StopListening
  <1>3. QED
    BY <1>1, <1>2, PTL DEF ContainerSpec

\* No process of the application exists, and none is called ready, before the
\* tree of the image was found to match its digest.
THEOREM AttestationFailsClosed == ContainerSpec => []FailsClosed
  <1>1. AttestedFirst => FailsClosed
    BY DEF AttestedFirst, FailsClosed, Readyz
  <1>2. QED
    BY <1>1, AttestedFirstAlways, PTL

\* Liveness holds from the SIGHUP of a dev restart to the new child.
THEOREM RestartsStayAlive == ContainerSpec => []AliveThroughRestart
  <1>1. /\ TypeOK /\ IInv /\ ViewFollows /\ AttestedFirst
        => AliveThroughRestart
    <2> SUFFICES ASSUME TypeOK, IInv, ViewFollows, AttestedFirst,
                        probe = "serving", restarting, pc # "done"
                 PROVE  Healthz
      BY DEF AliveThroughRestart
    <2>1. pc # "start"
      BY DEF IInv, BeforeStart
    <2>2. Serving
      BY <2>1 DEF Serving, AttestedFirst
    <2>3. pid # NoPid
      BY <2>1, PidAssumption DEF IInv, Phases, TypeOK, FieldTypes, PhaseTypes
    <2>4. published = [started |-> TRUE, running |-> ~childExited,
                       shuttingDown |-> shuttingDown, restarting |-> TRUE]
      BY <2>3 DEF ViewFollows, TypeOK, FieldTypes, FlagTypes, PhaseTypes
    <2>5. QED
      BY <2>2, <2>4 DEF Healthz
  <1>2. QED
    BY <1>1, Supervised, TypeCorrect, Invariance, ViewFollowsAlways,
       AttestedFirstAlways, PTL

\* Once a termination signal was taken no answer is "ready", before the next
\* step or after it.
THEOREM DrainsArePermanent == ContainerSpec => DrainIsPermanent
  <1>1. ViewFollows /\ shuttingDown => ~Readyz
    BY DEF ViewFollows, Readyz, Serving
  <1>2. /\ ViewFollows /\ ViewFollows'
        /\ [shuttingDown => shuttingDown' /\ pid' = pid]_vars
        /\ [ContainerNext]_containerVars
        => [shuttingDown => ~Readyz /\ ~Readyz']_containerVars
    <2> SUFFICES ASSUME ViewFollows, ViewFollows', shuttingDown,
                        [shuttingDown => shuttingDown' /\ pid' = pid]_vars
                 PROVE  ~Readyz /\ ~Readyz'
      OBVIOUS
    <2>1. shuttingDown'
      BY DEF vars, loopVars
    <2>2. QED
      BY <1>1, <2>1 DEF ViewFollows, Readyz, Serving
  <1>4. QED
    BY <1>2, Supervised, ShutdownsAreFinal, ViewFollowsAlways, PTL
    DEF ShutdownIsFinal, ContainerSpec, DrainIsPermanent
=============================================================================
