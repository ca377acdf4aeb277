----------------------------- MODULE OperatorSide -----------------------------
(***************************************************************************)
(* The commands around a build, the check of signatures, and the programs   *)
(* an image runs, that are both explored by MCOperatorSide and proved about *)
(* in OperatorSideProofs: their constants, their state, and what they       *)
(* promise together.  They share nothing but files and clusters that each   *)
(* of them models on its own side.                                          *)
(***************************************************************************)

(* pokkum upgrade *)

CONSTANTS Upgraders, MaxRelease, MaxStarts, None, Half
VARIABLES release, step, fetched, tmp, targetExisted, binary, backup, applied, starts, overlapped

Up == INSTANCE Upgrade WITH got <- fetched

(* pokkum dev *)

CONSTANTS MaxGenerations, MaxEdits
VARIABLES loop, ctxDone, generation, told, channel, srcTime, topTime, lastMod, reading, image,
          buildFailed, ended, late, unseen

Dev == INSTANCE DevLoop

(* pokkum dev --cluster *)

CONSTANTS Archive, PodList, Container, DevMode, MaxBuilds, MaxRestarts, NoName, NoTarget, Missing
VARIABLES sync, target, build, sent, werr, stdin, wire, extractor, got, hup, pod, app, result,
          restarts, reset

Sync == INSTANCE ClusterDev

(* pokkum-static *)

CONSTANTS Clients, Dirs, maxHandles, DocumentRoots, Paths, sidecars, gone, dirOf, Size, Requests,
          Fallback, NoPath, NoTag
VARIABLES server, ready, request, at, held, whole, cachedDirs, dirCount, extra

Server == INSTANCE StaticServer WITH Roots <- DocumentRoots

(* How the programs that run as PID 1 settle their configuration *)

CONSTANTS Environments, Flags, Argvs
VARIABLES program, given, flags, command, turn, chosen, warned

Boot == INSTANCE Startup WITH Commands <- Argvs

(* pokkum deploy *)

CONSTANTS Deploys, Refs, Configs, Settable, MaxRows, NoRef
VARIABLES deployed, secrets, rows, deploying, cfg, env, ref, toClear

Ship == INSTANCE Deploy WITH Commands <- Deploys, Environments <- Settable, image <- deployed,
                             at <- deploying, told <- toClear

(* Signatures and trust roots *)

CONSTANTS Jobs, SigImages, Attestations, Source, Anchors, CoveredLogs, Preset, Captured, MaxAge,
          Window, Times, MaxWrites, MaxJobs
VARIABLES tag, sig, att, now, writes, job, phase, pulls, memo, seen, done, moved

Evidence == INSTANCE Trust WITH Covers <- CoveredLogs, step <- phase

(* pokkum resolve, apply and rollback *)

CONSTANTS Operators, Workloads, projectOf, beside, MaxVersion, MaxHistory, MaxApplies, NoImage,
          Nothing
VARIABLES code, op, resolved, cached, doc, cluster, saved, applies, stale, derived, ran, excused

K8s == INSTANCE Manifests

(* The startup attestation, with what is proved of it on its own *)

CONSTANTS AppFiles, AppRoots, RootOf, Contents, TreeDigests, NoDigest, Malformed, Trees, Workers,
          Empty, MaxChanges
VARIABLES tree, expected, where, toList, tasks, next, aborted, firstErr, worker, taken, records,
          was, changes

Start == INSTANCE AttestationProofs WITH Files <- AppFiles, Roots <- AppRoots, Blank <- NoDigest,
                                         Manifests <- TreeDigests, at <- worker, job <- taken

-----------------------------------------------------------------------------
\* What each component takes for granted of its constants.
ASSUME OperatorAssumption ==
  /\ Up!Assumed /\ Dev!Assumed /\ Sync!Assumed /\ Server!Assumed /\ Boot!Assumed
  /\ Ship!Assumed /\ Evidence!Assumed /\ K8s!Assumed /\ Start!Assumed
  /\ \A t \in Trees : t \in [AppFiles -> Start!Entries]

\* Every component's state is of its type.
TypeOK ==
  /\ Up!TypeOK /\ Dev!TypeOK /\ Sync!TypeOK /\ Server!TypeOK /\ Boot!TypeOK
  /\ Ship!TypeOK /\ Evidence!TypeOK /\ K8s!TypeOK /\ Start!TypeOK

\* A working and signed binary is there at any time; see Upgrade.
AlwaysAWorkingBinary == Up!AlwaysAWorkingBinary /\ Up!InstalledIsSigned

\* A session ends for a cause and misses no edit; see DevLoop.
DevLoopIsHonest == Dev!DevLoopIsHonest

\* A sync that is reported left a whole build in the pod; see ClusterDev.
ReportedSyncIsWhole == Sync!ReportedSyncIsWhole

\* No more handles than intended are kept, none is lost, no client is sent to
\* a closed port, and a resumed download is of one representation; see
\* StaticServer.  Nor does the environment alone stop it, or the supervisor of
\* another image, or change what runs without being told; see Startup.
ServerIsHonest ==
  /\ Server!HandlesAreBounded /\ Server!DrainsInOrder /\ Server!ResumedDownloadIsWhole
  /\ Boot!EnvironmentNeverStops /\ Boot!IgnoredIsTold /\ Boot!RunsSound

\* What ran can be rolled back to; see Manifests.  A rollout that is reported is
\* one the platform has, of the image it names, and an accepted configuration
\* gets that far; see Deploy.
RolloutsAreHonest ==
  /\ K8s!HistoryRemembers
  /\ Ship!ReportedIsRollingOut /\ Ship!CredentialsAreKept /\ Ship!ValidIsDeployable

\* What is accepted was signed for this image and this request, what is said of
\* an image was earned, and a root that is not warned about holds; a tree that
\* passes its startup attestation was the one that was built; see Trust and
\* Attestation.
EvidenceIsGenuine ==
  /\ Evidence!EvidenceIsGenuine
  /\ Start!VerdictIsEarned /\ Start!SlotsAreFilled /\ Start!MatchesAreKept
=============================================================================
