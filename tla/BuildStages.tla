----------------------------- MODULE BuildStages -----------------------------
(***************************************************************************)
(* Stages 5 to 10 of core.Build, after a cache miss: what one build runs   *)
(* in parallel, on which files, and how it ends.  Pipeline takes all of it *)
(* as one step.                                                            *)
(*                                                                         *)
(* The parallel sections are errgroups, one after the other.  A task is    *)
(* <<what it does, for what>>.  The first task that fails gives the group  *)
(* its error and cancels the rest; the group is over when every task of it *)
(* has returned.                                                           *)
(***************************************************************************)
EXTENDS Naturals, FiniteSets

CONSTANTS
  Platforms,   \* req.Platforms
  Concurrency, \* req.Concurrency; 0 for as many as there are platforms
  Requests,    \* the requests explored, some of AllRequests
  NoTask

Strategies == {"layered", "static", "exe"}

\* What an image of each strategy is made of, on the host.
Trees == {"client", "prerendered", "server", "node_modules", "entry", "overlay"}

VARIABLES
  req,       \* the request, once made
  stage,     \* where Build is
  task,      \* the tasks of the running group: [task -> status]
  cause,     \* the task whose error the group reports
  cancelled, \* the caller's context
  dirs,      \* the directories that exist: "overlay", "work"
  scanned,   \* the trees the post-build secret scan has read
  shipped,   \* the trees packaged for some platform
  attached,  \* the subjects whose attestation and signature are attached
  readBack,  \* the subjects fetched back and verified
  outcome    \* what Build returned

buildVars == <<req, stage, task, cause, cancelled, dirs, scanned, shipped,
               attached, readBack, outcome>>

AllRequests == [strategy: Strategies, overlay: BOOLEAN, telemetry: BOOLEAN,
                ownWorkDir: BOOLEAN, sbom: BOOLEAN, sign: BOOLEAN, print: BOOLEAN]

\* signingSubjects: the published digest, and each platform's of an index.
Subjects == {"published"} \cup (IF Cardinality(Platforms) > 1 THEN Platforms ELSE {})

Slots == IF Concurrency = 0 THEN Cardinality(Platforms) ELSE Concurrency

-----------------------------------------------------------------------------
(* errgroup *)

Tasks == DOMAIN task
Ended == {"done", "failed", "gone"}
Holding == {t \in Tasks : t[1] = "package" /\ task[t] = "running"}
Cancelled == cancelled \/ cause # NoTask

Group(ts, s) == /\ task' = [t \in ts |-> IF t[1] = "package" THEN "waiting" ELSE "running"]
                /\ cause' = NoTask
                /\ stage' = s

Return(o) == /\ outcome' = o
             /\ stage' = "returned"
             /\ task' = task
             \* the deferred cleanup and RemoveAll; an explicit WorkDir is kept
             /\ dirs' = dirs \ (IF req.ownWorkDir THEN {"overlay"} ELSE {"overlay", "work"})

\* A task's own error.
Fails(t) ==
  /\ task' = [task EXCEPT ![t] = "failed"]
  /\ cause' = IF cause = NoTask THEN t ELSE cause

\* Mutant: the group keeps the error it saw last.
Gone_lastWins(t) ==
  /\ task' = [task EXCEPT ![t] = "gone"]
  /\ cause' = t

\* A task returns because its context was cancelled; nothing to report but
\* the caller's own cancellation.
Gone(t) ==
  /\ task' = [task EXCEPT ![t] = "gone"]
  /\ cause' = IF cause = NoTask THEN t ELSE cause

\* g.Wait()
GroupOver == \A t \in Tasks : task[t] \in Ended

-----------------------------------------------------------------------------
Init ==
  /\ req = [strategy |-> "exe", overlay |-> FALSE, telemetry |-> FALSE,
            ownWorkDir |-> FALSE, sbom |-> FALSE, sign |-> FALSE, print |-> FALSE]
  /\ stage = "idle" /\ task = << >> /\ cause = NoTask /\ cancelled = FALSE
  /\ dirs = {} /\ scanned = {} /\ shipped = {} /\ attached = {} /\ readBack = {}
  /\ outcome = "none"

\* The lookup missed. The asset overlay is a layered image's only.
Begin(r) ==
  /\ stage = "idle"
  /\ r.overlay => r.strategy = "layered"
  /\ req' = r
  /\ stage' = "overlay"
  /\ UNCHANGED <<task, cause, cancelled, dirs, scanned, shipped, attached, readBack, outcome>>

\* The caller's context: a signal, a timeout.
Cancel ==
  /\ stage \notin {"idle", "returned"} /\ ~cancelled
  /\ cancelled' = TRUE
  /\ UNCHANGED <<req, stage, task, cause, dirs, scanned, shipped, attached, readBack, outcome>>

\* checkCtx, before each stage.
StopHere ==
  /\ cancelled
  /\ stage \in {"prepare", "scan", "exclude", "index", "publish", "sbom", "sign"}
  /\ Return("cancelled")
  /\ UNCHANGED <<req, cause, cancelled, scanned, shipped, attached, readBack>>

Overlay ==
  /\ stage = "overlay"
  /\ \/ /\ stage' = "workdir"
        /\ dirs' = IF req.overlay THEN dirs \cup {"overlay"} ELSE dirs
        /\ UNCHANGED <<task, outcome>>
     \/ req.overlay /\ Return("failed")
  /\ UNCHANGED <<req, cause, cancelled, scanned, shipped, attached, readBack>>

prepareWorkDir ==
  /\ stage = "workdir"
  /\ \/ /\ stage' = "prepare"
        /\ dirs' = dirs \cup {"work"}
        /\ UNCHANGED <<task, outcome>>
     \/ Return("failed")
  /\ UNCHANGED <<req, cause, cancelled, scanned, shipped, attached, readBack>>

-----------------------------------------------------------------------------
(* Stage 5: Prepare, with what needs nothing of it *)

StartPrepare ==
  /\ stage = "prepare" /\ ~cancelled
  /\ \E verify \in BOOLEAN :   \* ~NoVerifyBase
       Group({<<"prepare", "all">>, <<"inspect", "all">>}
             \cup (IF verify THEN {<<"verifyBase", "all">>} ELSE {})
             \cup (IF req.strategy = "layered" THEN {<<"bun", p>> : p \in Platforms} ELSE {}),
             "preparing")
  /\ UNCHANGED <<req, cancelled, dirs, scanned, shipped, attached, readBack, outcome>>

Prepared ==
  /\ stage = "preparing" /\ GroupOver
  /\ IF cause = NoTask
     THEN /\ stage' = "scan" /\ task' = << >> /\ UNCHANGED <<outcome, dirs>>
     ELSE Return("failed")
  /\ UNCHANGED <<req, cause, cancelled, scanned, shipped, attached, readBack>>

\* The trees each strategy packages, or bundles into the executable.
ShippedTrees(r) ==
  CASE r.strategy = "static"  -> {"client", "prerendered"}
    [] r.strategy = "layered" -> {"client", "prerendered", "server", "node_modules"}
                                 \cup (IF r.overlay THEN {"overlay"} ELSE {})
    [] r.strategy = "exe"     -> {"client", "prerendered", "server"}
                                 \cup (IF r.telemetry THEN {"entry"} ELSE {})

\* The output directory holds the client, prerendered and server trees; the
\* telemetry entrypoint of an executable lies outside it.
postBuildScanDirs(r) ==
  IF r.strategy = "static" THEN {"client", "prerendered"}
  ELSE {"client", "prerendered", "server"}
       \cup (IF r.strategy = "exe" /\ r.telemetry THEN {"entry"} ELSE {})

\* Stage 5.5: each directory, then the asset overlay; it stops at a match.
PostBuildScan ==
  /\ stage = "scan" /\ ~cancelled
  /\ \/ /\ scanned' = postBuildScanDirs(req) \cup (dirs \cap {"overlay"})
        /\ stage' = "exclude"
        /\ UNCHANGED <<task, outcome, dirs>>
     \/ /\ Return("failed")
        /\ UNCHANGED scanned
  /\ UNCHANGED <<req, cause, cancelled, shipped, attached, readBack>>

\* applyRouteExclusions on the generated output, and the fan-out starts.
ExcludeRoutes ==
  /\ stage = "exclude" /\ ~cancelled
  /\ \/ /\ Group({<<"package", p>> : p \in Platforms}
                 \cup (IF req.sbom THEN {<<"sbom", "all">>} ELSE {}), "fanout")
        /\ UNCHANGED <<outcome, dirs>>
     \/ /\ Return("failed")
        /\ UNCHANGED cause
  /\ UNCHANGED <<req, cancelled, scanned, shipped, attached, readBack>>

-----------------------------------------------------------------------------
(* Stage 6: the fan-out *)

\* Mutant: the slots are counted and never waited for.
TakeSlot_all(t) ==
  /\ task[t] = "waiting"
  /\ task' = [task EXCEPT ![t] = "running"]
  /\ UNCHANGED <<req, stage, cause, cancelled, dirs, scanned, shipped, attached, readBack, outcome>>

\* slots <- struct{}{}: given back when the platform's goroutine returns.
TakeSlot(t) ==
  /\ task[t] = "waiting" /\ Cardinality(Holding) < Slots
  /\ task' = [task EXCEPT ![t] = "running"]
  /\ UNCHANGED <<req, stage, cause, cancelled, dirs, scanned, shipped, attached, readBack, outcome>>

\* <-gctx.Done(): whoever waits for a slot, or calls with the group's context.
TaskCancelled(t) ==
  /\ task[t] \in {"waiting", "running"} /\ Cancelled
  /\ Gone(t)
  /\ UNCHANGED <<req, stage, cancelled, dirs, scanned, shipped, attached, readBack, outcome>>

TaskFails(t) ==
  /\ task[t] = "running"
  /\ Fails(t)
  /\ UNCHANGED <<req, stage, cancelled, dirs, scanned, shipped, attached, readBack, outcome>>

\* A platform's goroutine reads the output trees, the overlay directory and
\* (exe) the work directory; a signing task attaches, a read-back fetches.
TaskDone(t) ==
  /\ task[t] = "running"
  /\ task' = [task EXCEPT ![t] = "done"]
  /\ shipped' = IF t[1] = "package" THEN shipped \cup ShippedTrees(req) ELSE shipped
  /\ attached' = IF t[1] = "sign" THEN attached \cup {t[2]} ELSE attached
  /\ readBack' = IF t[1] = "readback" THEN readBack \cup {t[2]} ELSE readBack
  /\ UNCHANGED <<req, stage, cause, cancelled, dirs, scanned, outcome>>

FannedOut ==
  /\ stage = "fanout" /\ GroupOver
  /\ IF cause = NoTask
     THEN /\ stage' = "index" /\ task' = << >> /\ UNCHANGED <<outcome, dirs>>
     ELSE Return("failed")
  /\ UNCHANGED <<req, cause, cancelled, scanned, shipped, attached, readBack>>

-----------------------------------------------------------------------------
(* Stages 7 to 10: one index, one publication, what is attached to it *)

\* Packager.Index, if there are several platforms; --print-manifest ends here.
Index ==
  /\ stage = "index" /\ ~cancelled
  /\ \/ /\ ~req.print /\ stage' = "publish" /\ UNCHANGED <<task, outcome, dirs>>
     \/ req.print /\ Return("printed")
     \/ Return("failed")
  /\ UNCHANGED <<req, cause, cancelled, scanned, shipped, attached, readBack>>

publish ==
  /\ stage = "publish" /\ ~cancelled
  /\ \/ /\ stage' = "sbom" /\ UNCHANGED <<task, outcome, dirs>>
     \/ Return("failed")
  /\ UNCHANGED <<req, cause, cancelled, scanned, shipped, attached, readBack>>

AttachSBOM ==
  /\ stage = "sbom" /\ ~cancelled
  /\ \/ /\ stage' = "sign" /\ UNCHANGED <<task, outcome, dirs>>
     \/ req.sbom /\ Return("failed")
  /\ UNCHANGED <<req, cause, cancelled, scanned, shipped, attached, readBack>>

\* Mutant: each subject is attached and read back in one group.
signAndSelfVerify_oneGroup ==
  /\ stage = "sign" /\ ~cancelled /\ req.sign
  /\ Group({"sign", "readback"} \X Subjects, "readback")
  /\ UNCHANGED <<req, cancelled, dirs, scanned, shipped, attached, readBack, outcome>>

\* signGroup
signAndSelfVerify ==
  /\ stage = "sign" /\ ~cancelled /\ req.sign
  /\ Group({"sign"} \X Subjects, "signing")
  /\ UNCHANGED <<req, cancelled, dirs, scanned, shipped, attached, readBack, outcome>>

\* verifyGroup, once signGroup has drained
SelfVerify ==
  /\ stage = "signing" /\ GroupOver
  /\ IF cause = NoTask
     THEN Group({"readback"} \X Subjects, "readback") /\ UNCHANGED <<outcome, dirs>>
     ELSE Return("failed") /\ UNCHANGED cause
  /\ UNCHANGED <<req, cancelled, scanned, shipped, attached, readBack>>

\* Without a key, or without --sign, an unsigned success.
Finish ==
  /\ \/ /\ stage = "sign" /\ ~cancelled /\ Return("ok")
     \/ /\ stage = "readback" /\ GroupOver
        /\ Return(IF cause = NoTask THEN "signed" ELSE "failed")
  /\ UNCHANGED <<req, cause, cancelled, scanned, shipped, attached, readBack>>

-----------------------------------------------------------------------------
Proceed ==
  \/ Overlay \/ prepareWorkDir \/ StartPrepare \/ Prepared \/ PostBuildScan
  \/ ExcludeRoutes \/ FannedOut \/ Index \/ publish \/ AttachSBOM
  \/ signAndSelfVerify \/ SelfVerify \/ Finish \/ StopHere

Work == \E t \in Tasks : TakeSlot(t) \/ TaskCancelled(t) \/ TaskFails(t) \/ TaskDone(t)

Next == (\E r \in Requests : Begin(r)) \/ Cancel \/ Proceed \/ Work

Spec == Init /\ [][Next]_buildVars

-----------------------------------------------------------------------------
AllTasks ==
  {"prepare", "inspect", "verifyBase", "bun", "package", "sbom", "sign", "readback"}
    \X (Platforms \cup {"all", "published"})

\* Every variable is of its type, and no more platforms are at work than
\* there are slots.
TypeOK ==
  /\ Cardinality(Holding) <= Slots
  /\ req \in AllRequests
  /\ stage \in {"idle", "overlay", "workdir", "prepare", "preparing", "scan", "exclude",
                "fanout", "index", "publish", "sbom", "sign", "signing", "readback", "returned"}
  /\ Tasks \subseteq AllTasks /\ task \in [Tasks -> Ended \cup {"waiting", "running"}]
  /\ cancelled \in BOOLEAN
  /\ dirs \subseteq {"overlay", "work"}
  /\ scanned \subseteq Trees /\ shipped \subseteq Trees
  /\ attached \subseteq Subjects /\ readBack \subseteq Subjects
  /\ outcome \in {"none", "ok", "signed", "printed", "failed", "cancelled"}

\* A platform that waits for a slot is woken by another's failure, and its
\* "context canceled" must not hide that failure: the error a group reports
\* is one of a task that failed by itself, unless the caller has given up.
CauseIsReported ==
  cause # NoTask /\ cause \in Tasks /\ task[cause] = "gone" => cancelled

\* The work and overlay directories are removed as Build returns: no compiler
\* or packager is still at work on them, and none is left behind.
NothingOutlivesItsFiles ==
  /\ \A t \in Tasks : t[1] = "package" /\ task[t] = "running" =>
       "work" \in dirs /\ (req.overlay => "overlay" \in dirs)
  /\ stage = "returned" => /\ \A t \in Tasks : task[t] \in Ended
                           /\ "overlay" \notin dirs
                           /\ "work" \in dirs => req.ownWorkDir

\* What is packaged has been through the post-build secret scan, except the
\* staged production dependencies, which lie outside the output directory.
ShippedIsScanned == shipped \ {"node_modules"} \subseteq scanned

\* No subject is read back before all are attached, so that a signed result
\* is about what the registry serves.
ReadBackAfterAttach ==
  /\ \A t \in Tasks : t[1] = "readback" => attached = Subjects
  /\ outcome = "signed" => readBack = Subjects

\* What the guards leave open: Build waits for nothing but its group, and a task
\* for nothing but a slot, unless its context is cancelled.
BuildMayGoOn == stage \in {"preparing", "fanout", "signing", "readback"} => GroupOver
TaskMayGoOn ==
  \E t \in Tasks : \/ task[t] = "running"
                   \/ task[t] = "waiting" /\ (Cardinality(Holding) < Slots \/ Cancelled)

\* However the slots, the failures and the cancellations fall, there is always
\* something Build or one of its tasks can do until Build returns.
NeverStuck == stage \notin {"idle", "returned"} => BuildMayGoOn \/ TaskMayGoOn

\* ... which is to say that a step of theirs is enabled.
OpenIsEnabled ==
  stage \notin {"idle", "returned"} =>
    ((BuildMayGoOn \/ TaskMayGoOn) <=> ENABLED (Proceed \/ Work))

-----------------------------------------------------------------------------
(* The inductive invariant behind it *)

\* What the proofs rest on.
Assumed ==
  /\ IsFiniteSet(Platforms) /\ Platforms # {} /\ Concurrency \in Nat /\ Requests \subseteq AllRequests
  /\ NoTask \notin AllTasks

\* A group works in its own stage only, and the last one may be left, over, when
\* Build returns.
TasksAreOfTheirStage ==
  /\ stage \notin {"preparing", "fanout", "signing", "readback"} => GroupOver
  /\ \A t \in Tasks :
       /\ task[t] = "waiting" => t[1] = "package"
       /\ t[1] = "package" => stage \in {"fanout", "returned"}
       /\ t[1] = "sign" => stage \in {"signing", "returned"}
       /\ t[1] = "readback" => stage \in {"readback", "returned"}
  /\ stage = "signing" => Tasks = {"sign"} \X Subjects
  /\ stage = "readback" => Tasks = {"readback"} \X Subjects

\* A task that failed, or gave up, left a cause, and the cause is one of those.
CauseIsKnown ==
  /\ \A t \in Tasks : task[t] \in {"failed", "gone"} => cause # NoTask
  /\ cause \in Tasks => task[cause] \in {"failed", "gone"}
  /\ cause \in Tasks /\ task[cause] = "gone" => cancelled

\* The directories a stage works in are there.
FilesAreThere ==
  /\ stage \notin {"idle", "overlay", "workdir", "returned"} => "work" \in dirs
  /\ stage \notin {"idle", "overlay", "returned"} /\ req.overlay => "overlay" \in dirs
  /\ stage = "returned" => "overlay" \notin dirs /\ ("work" \in dirs => req.ownWorkDir)

\* Nothing is packaged before the scan, nor after it what it has not read.
ScanComesFirst ==
  /\ stage \in {"idle", "overlay", "workdir", "prepare", "preparing", "scan"} => shipped = {}
  /\ stage \in {"exclude", "fanout"} => ShippedTrees(req) \ {"node_modules"} \subseteq scanned

\* What the tasks of the last two groups have done.
AttachedByTasks ==
  /\ \A t \in Tasks : task[t] = "done" =>
       /\ t[1] = "sign" => t[2] \in attached
       /\ t[1] = "readback" => t[2] \in readBack
  /\ stage = "readback" => attached = Subjects
  /\ stage # "returned" => outcome = "none"

IInv ==
  /\ TasksAreOfTheirStage /\ CauseIsKnown /\ FilesAreThere /\ ScanComesFirst /\ AttachedByTasks
  /\ ShippedIsScanned /\ ReadBackAfterAttach
=============================================================================
