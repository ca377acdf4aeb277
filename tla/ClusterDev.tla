------------------------------ MODULE ClusterDev ------------------------------
(***************************************************************************)
(* pokkum dev --cluster: the project is built, its client and server trees *)
(* are streamed as one archive through kubectl exec into a running pod,    *)
(* where `pokkum-init __dev-sync` replaces the files one by one and tells  *)
(* PID 1 to restart the application; and again for every change.           *)
(*                                                                         *)
(* A build is a number, 0 the image's; a file of the pod is the build it   *)
(* is from, or Missing between its removal and its rewriting.  The loop's  *)
(* clock is DevLoop's.                                                     *)
(***************************************************************************)
EXTENDS Integers, Sequences, SequencesExt, FiniteSets

CONSTANTS
  Archive,   \* the files in the order they are sent: client/ first, then server/
  PodList,   \* what kubectl lists, as [name, phase, deleted, containers]
  Container, \* --container, or NoName
  DevMode,   \* the <<pod, container>> whose environment sets POKKUM_DEV_MODE
  MaxBuilds,
  MaxRestarts \* of the container, by the kubelet
CONSTANTS NoName, NoTarget, Missing

VARIABLES
  sync,      \* the loop: "resolve", "prepare", "stream", "wait", "watch", "ended"
  target,    \* what ResolveTarget chose, once
  build,     \* the last build Prepare made
  sent,      \* entries written to kubectl's stdin
  werr,      \* WriteTar failed
  stdin,     \* the extractor's end: "off", "open", "eof", "torn" (ends inside a file)
  wire,      \* entries on their way, or read
  extractor, \* "off", "reading", "removed", "ok", "failed"
  got,       \* summary.Files
  hup,       \* SIGHUP is pending at PID 1
  pod,       \* [file -> what the pod holds]
  app,       \* [file -> what the running application was started on]
  result,    \* what the loop said of the last cycle: "none", "synced", "failed"
  restarts,  \* of the container
  reset      \* history: the container was restarted since this cycle began
clusterVars == <<sync, target, build, sent, werr, stdin, wire, extractor, got, hup, pod, app, result,
                 restarts, reset>>
podVars == <<stdin, wire, extractor, got, hup, pod, app, restarts>>
sendVars == <<sent, werr>>

Init ==
  /\ sync = "resolve" /\ target = NoTarget /\ build = 0
  /\ sent = 0 /\ werr = FALSE
  /\ stdin = "off" /\ wire = 0 /\ extractor = "off" /\ got = 0 /\ hup = FALSE
  /\ pod = [f \in ToSet(Archive) |-> 0] /\ app = [f \in ToSet(Archive) |-> 0]
  /\ result = "none" /\ restarts = 0 /\ reset = FALSE

-----------------------------------------------------------------------------
(* Which pod *)

\* selectContainer: the one named, or the only one.
selectContainer(p) ==
  IF Container # NoName
  THEN IF Container \in p.containers THEN Container ELSE NoName
  ELSE IF Cardinality(p.containers) = 1 THEN CHOOSE c \in p.containers : TRUE
  ELSE NoName

\* SelectTarget: the first by name of those that run and are not going away.
SelectTarget ==
  LET candidates == {p \in PodList : p.phase = "Running" /\ ~p.deleted}
  IN IF candidates = {} THEN NoTarget
     ELSE LET p == CHOOSE p \in candidates : \A q \in candidates : p.name <= q.name
          IN IF selectContainer(p) = NoName THEN NoTarget ELSE <<p.name, selectContainer(p)>>

\* runClusterDev: no target, or one that would refuse the sync, ends it before
\* anything is built.
ResolveTarget ==
  /\ sync = "resolve"
  /\ target' = SelectTarget
  /\ sync' = IF SelectTarget # NoTarget /\ SelectTarget \in DevMode THEN "prepare" ELSE "ended"
  /\ UNCHANGED <<build, sendVars, podVars, result, reset>>

-----------------------------------------------------------------------------
(* One cycle *)

\* A cycle that fails ends the command if it is the first one, and else is
\* only logged.
CycleFailed ==
  /\ result' = "failed"
  /\ sync' = IF result = "none" THEN "ended" ELSE "watch"

PrepareFailed ==
  /\ sync = "prepare"
  /\ CycleFailed
  /\ UNCHANGED <<target, build, sendVars, podVars, reset>>

\* kubectl exec starts the extractor, which reads nothing before it has found
\* its gate open and its roots there and writable.
Prepared ==
  /\ sync = "prepare" /\ build < MaxBuilds
  /\ build' = build + 1
  /\ sync' = "stream" /\ sent' = 0 /\ werr' = FALSE /\ reset' = FALSE
  /\ stdin' = "open" /\ wire' = 0 /\ got' = 0
  /\ extractor' \in {"reading", "failed"}
  /\ UNCHANGED <<target, hup, pod, app, result, restarts>>

\* WriteTar: one file, whole.  Once the link is cut it writes into a pipe that
\* kubectl may still be reading from.
Send ==
  /\ sync = "stream" /\ sent < Len(Archive)
  /\ sent' = sent + 1
  /\ wire' = IF stdin = "open" THEN wire + 1 ELSE wire
  /\ UNCHANGED <<sync, target, build, werr, stdin, extractor, got, hup, pod, app, result, restarts,
                 reset>>

\* A file that cannot be opened, changes under the copy, or cannot be written:
\* stdin is closed where the stream stands.
SendFails ==
  /\ sync = "stream" /\ sent < Len(Archive)
  /\ werr' = TRUE /\ sync' = "wait"
  /\ stdin' \in IF stdin = "open" THEN {"eof", "torn"} ELSE {stdin}
  /\ UNCHANGED <<target, build, sent, wire, extractor, got, hup, pod, app, result, restarts, reset>>

SendEnds ==
  /\ sync = "stream" /\ sent = Len(Archive)
  /\ sync' = "wait"
  /\ stdin' = IF stdin = "open" THEN "eof" ELSE stdin
  /\ UNCHANGED <<target, build, sendVars, wire, extractor, got, hup, pod, app, result, restarts,
                 reset>>

\* The connection ends while entries are on their way: some never arrive.
LinkCut ==
  /\ stdin = "open"
  /\ wire' \in (IF extractor = "removed" THEN got + 1 ELSE got) .. wire
  /\ stdin' \in {"eof", "torn"}
  /\ UNCHANGED <<sync, target, build, sendVars, extractor, got, hup, pod, app, result, restarts, reset>>

-----------------------------------------------------------------------------
(* pokkum-init __dev-sync *)

\* extractTar takes a stream that ends between two entries for a whole one.
EntryAfter(n) == Archive[n + 1]

\* writeFileIn: the old file is removed, and then the new one written; what is
\* torn is left half-written.
RemoveOld ==
  /\ extractor = "reading"
  /\ got < wire \/ (stdin = "torn" /\ got < Len(Archive))
  /\ pod' = [pod EXCEPT ![EntryAfter(got)] = Missing]
  /\ extractor' = IF got < wire THEN "removed" ELSE "failed"
  /\ UNCHANGED <<sync, target, build, sendVars, stdin, wire, got, hup, app, result, restarts, reset>>

WriteNew ==
  /\ extractor = "removed"
  /\ \/ /\ pod' = [pod EXCEPT ![EntryAfter(got)] = build]
        /\ got' = got + 1 /\ extractor' = "reading"
     \/ extractor' = "failed" /\ UNCHANGED <<pod, got>>
  /\ UNCHANGED <<sync, target, build, sendVars, stdin, wire, hup, app, result, restarts, reset>>

\* runDevSync: SIGHUP to PID 1 after the last entry, and the summary.
Extracted ==
  /\ extractor = "reading" /\ stdin = "eof" /\ got = wire
  /\ hup' = TRUE /\ extractor' = "ok"
  /\ UNCHANGED <<sync, target, build, sendVars, stdin, wire, got, pod, app, result, restarts, reset>>

\* PID 1 restarts the application (Supervisor), on whatever is there by then.
Restart ==
  /\ hup
  /\ hup' = FALSE /\ app' = pod
  /\ UNCHANGED <<sync, target, build, sendVars, stdin, wire, extractor, got, pod, result, restarts,
                 reset>>

\* The kubelet restarts the container: the image's files are back, and with
\* the container goes the extractor.
ContainerRestart ==
  /\ restarts < MaxRestarts
  /\ restarts' = restarts + 1 /\ reset' = TRUE
  /\ pod' = [f \in DOMAIN pod |-> 0] /\ app' = pod' /\ hup' = FALSE
  /\ extractor' = IF extractor \in {"reading", "removed"} THEN "failed" ELSE extractor
  /\ UNCHANGED <<sync, target, build, sendVars, stdin, wire, got, result>>

-----------------------------------------------------------------------------
(* What the cycle says *)

\* Mutant: the counts of the two sides are not compared.
Verdict_noCount ==
  /\ sync = "wait" /\ extractor \in {"ok", "failed"}
  /\ IF ~werr /\ extractor = "ok"
     THEN result' = "synced" /\ sync' = "watch"
     ELSE CycleFailed
  /\ UNCHANGED <<target, build, sendVars, podVars, reset>>

\* Sync, after kubectl has ended: an archive that was not written whole, a
\* command that failed, or a summary that does not add up is an error.  A
\* kubectl whose link was cut may say so, or not.
Verdict ==
  /\ sync = "wait" /\ extractor \in {"ok", "failed"}
  /\ IF ~werr /\ extractor = "ok" /\ got = sent
     THEN \/ result' = "synced" /\ sync' = "watch"
          \/ CycleFailed
     ELSE CycleFailed
  /\ UNCHANGED <<target, build, sendVars, podVars, reset>>

Tick ==
  /\ sync = "watch" /\ build < MaxBuilds
  /\ sync' = "prepare"
  /\ UNCHANGED <<target, build, sendVars, podVars, result, reset>>

Next ==
  \/ ResolveTarget \/ PrepareFailed \/ Prepared \/ Send \/ SendFails \/ SendEnds \/ LinkCut
  \/ RemoveOld \/ WriteNew \/ Extracted \/ Restart \/ ContainerRestart \/ Verdict \/ Tick

Spec == Init /\ [][Next]_clusterVars

-----------------------------------------------------------------------------
\* sync is one of the loop's places, and no count passes the archive's length.
TypeOK ==
  /\ sync \in {"resolve", "prepare", "stream", "wait", "watch", "ended"}
  /\ build \in 0 .. MaxBuilds /\ restarts \in 0 .. MaxRestarts
  /\ sent \in 0 .. Len(Archive) /\ wire \in 0 .. Len(Archive) /\ got \in 0 .. wire
  /\ stdin \in {"off", "open", "eof", "torn"}
  /\ extractor \in {"off", "reading", "removed", "ok", "failed"}
  /\ {werr, hup, reset} \subseteq BOOLEAN
  /\ {pod, app} \subseteq [ToSet(Archive) -> 0 .. MaxBuilds \cup {Missing}]
  /\ result \in {"none", "synced", "failed"}

\* A cycle that is reported as synced left every file of its build in the pod,
\* and the application runs on exactly them or has been told to restart: a
\* link cut between two entries, which the extractor takes for the end of the
\* archive and restarts the application on, is never reported as a success.
ReportedSyncIsWhole ==
  sync = "watch" /\ result = "synced" /\ ~reset =>
    /\ \A f \in DOMAIN pod : pod[f] = build
    /\ hup \/ app = pod

-----------------------------------------------------------------------------
(* The inductive invariant behind it *)

\* What the proofs rest on.
Assumed ==
  /\ Archive \in Seq(ToSet(Archive)) /\ MaxBuilds \in Nat /\ MaxRestarts \in Nat

\* No entry is read that was not sent, and none is written that is not there.
EntriesAreSent ==
  /\ wire <= sent
  /\ extractor = "removed" => got < wire
  /\ sync = "wait" /\ ~werr => sent = Len(Archive)

\* While its container lives, an extractor that has not failed has written what
\* it has read, but for the file it has just removed; at the end PID 1 knows.
WrittenIsThere ==
  extractor \in {"reading", "removed", "ok"} /\ ~reset =>
    /\ \A i \in 1 .. got :
         \/ pod[Archive[i]] = build
         \/ extractor = "removed" /\ Archive[i] = EntryAfter(got)
    /\ extractor = "ok" => hup \/ app = pod

SyncedIsComplete ==
  sync = "watch" /\ result = "synced" => extractor = "ok" /\ got = Len(Archive)

IInv == EntriesAreSent /\ WrittenIsThere /\ SyncedIsComplete
=============================================================================
