------------------------------ MODULE BuildSide ------------------------------
(***************************************************************************)
(* The components one build is made of, below the pipeline, that are both   *)
(* explored by MCBuildSide and proved about in BuildSideProofs: their       *)
(* constants, their state, and what they promise together.  They share no   *)
(* state, only the order the pipeline calls them in, and each is left free  *)
(* to start in any situation that order allows.                             *)
(***************************************************************************)

(* core.Build, stages 5 to 10 *)

CONSTANTS Platforms, Concurrency, BuildRequests, NoTask
VARIABLES req, stage, task, cause, cancelled, dirs, scanned, shipped, attached, readBack, outcome

Stages == INSTANCE BuildStages WITH Requests <- BuildRequests

(* bunexec.Compiler.Prepare *)

CONSTANTS Manifests, NoTree, NoStamp, MaxRuns
VARIABLES prep, project, manifest, key, vendor, staged, stamp, routesMirror, served, halfWiped, runs

Bundle == INSTANCE Prepare WITH mirror <- routesMirror

(* Packager.Build, for every platform at once *)

CONSTANTS LayerOrder, Precompressed, Stripped, LayerFiles, filesOf, Nobody
VARIABLES packing, place, doing, dirLock, stripOnce, sidecar, smaller, bytes, memo, layer, temp,
          ioFailed

Pack == INSTANCE Packaging WITH Images <- Platforms, Layers <- LayerOrder, Files <- LayerFiles

(* The cache of compressed layers *)

CONSTANTS Users, Current, Earlier, Junk, Absent
VARIABLES blob, meta, user, seen, handed, read

Cache == INSTANCE LayerCache

(* The base image resolver and the lock *)

CONSTANTS Commands, Bases, Custom, Signed, MaxDigest, Asked, MaxStarts, NoEntry, Torn
VARIABLES tag, mirror, lock, at, want, lf, locked, pulled, mirrorRef, result, starts, relocked

Base == INSTANCE BaseLock

(* Jobs that push to one repository *)

CONSTANTS Jobs, ImageDigests, Pushes, NoDigest
VARIABLES api, manifests, named, attTags, referrers, refTag, job, nth, copy, reported, pointed

Images == INSTANCE Registry WITH Digests <- ImageDigests, at <- job, n <- nth

(* The outputs of a build that are not pushed *)

CONSTANTS Writers, isLayout, Previous, Nothing, ImageIndex, LoadTags, hostPlatforms
VARIABLES dest, archive, staging, backup, writer, had, host, loaded, loading

Outputs == INSTANCE LocalOutputs WITH Index <- ImageIndex, at <- writer

(* --asset-overlay *)

CONSTANTS Builds, Source, None
VARIABLES images, live, current, where, cursor, chain, replaced, merged, left, looked, succeeded

Pages == INSTANCE Overlay

-----------------------------------------------------------------------------
\* Groups of goroutines are waited for and report what went wrong: nothing
\* works on a directory that is being removed, nor installs once Prepare is
\* over, no cancellation is reported in place of the failure behind it, and
\* nobody waits for a slot or a task for ever.
GroupsAreWaitedFor ==
  /\ Stages!NothingOutlivesItsFiles /\ Stages!CauseIsReported /\ Stages!NeverStuck
  /\ Bundle!NoInstallOutlivesPrepare

\* A layer is of a tree nobody rewrites and can be read until it is pushed, the
\* startup attestation is of the files a container sees, and a layer from the
\* cache gives the bytes its digest names; see Packaging and LayerCache.
LayersAreWhatRuns ==
  /\ Pack!NoWriteUnderWalk /\ Pack!LayersStayReadable /\ Pack!AttestsWhatIsMounted
  /\ Cache!ServesWhatItNames

\* A prepared build ships its own dependencies, and was run as the project
\* runs it, and what it ships of builds before it is theirs; see Prepare and
\* Overlay.
ShipsItsOwnDependencies ==
  /\ Bundle!ShipsItsOwnDependencies /\ Bundle!BuildIsTheProjectsOwn
  /\ Pages!OldPagesFindTheirAssets /\ Pages!NothingIsMixed /\ Pages!LineageIsTrue

\* A locked base is the one that is used, and its scan is its own; see BaseLock.
LockIsHonest == Base!LockIsHonest

\* What a push reports is so: its tags were moved, its attachments are found,
\* a local output is whole and runs where it was loaded; see Registry and
\* LocalOutputs.
ReportedIsThere ==
  /\ Images!PushedTagsWereMoved /\ Images!AttachmentsAreFound
  /\ Outputs!OutputsAreWhole /\ Outputs!LoadedRunsHere
=============================================================================
