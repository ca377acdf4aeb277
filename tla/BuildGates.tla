------------------------------ MODULE BuildGates ------------------------------
(***************************************************************************)
(* The gates of a build and what is asked of it, beside the components of   *)
(* BuildSide: the request, the scans for vulnerabilities and for secrets,   *)
(* the routes and the files that are left out.  They are explored by        *)
(* MCBuildSide and proved about in BuildGatesProofs.                        *)
(***************************************************************************)
EXTENDS BuildSide

(* From what a user says to a request *)

CONSTANTS Said, Answers, Unset
VARIABLES said, file, asked, inFile, request, step, generated

Wanted == INSTANCE RequestsProofs WITH read <- inFile

(* One vulnerability scan of a project or an image *)

CONSTANTS Targets, Scans, Osv, Advisories, Today
VARIABLES target, query, phase, found, incomplete, resolved, skipped, packages, bill

Scan == INSTANCE Scanner WITH memo <- packages, Asked <- Scans, Now <- Today

(* The search of a tree for secrets *)

CONSTANTS SearchedTrees, Searches, Window
VARIABLES tree, ask, next, matches, passedBy, held, verdict

Guard == INSTANCE SecretGuard WITH Trees <- SearchedTrees, Asked <- Searches

(* The routes of a project and the excluded ones *)

CONSTANTS Sites, PatternLists
VARIABLES site, patterns, turn, mirrored, routes, category, output, bundle, report

Filter == INSTANCE Routes

(* The walk of a tree into a layer *)

CONSTANTS JunkPatterns, WalkedTrees, PruneOptions
VARIABLES walk, opts, visited, below, layered, pruned

Disposal == INSTANCE Prune

\* What every component of a build counts on.
ASSUME BuildAssumption ==
  /\ Stages!Assumed /\ Pack!Assumed /\ Cache!Assumed /\ Bundle!Assumed /\ Base!Assumed
  /\ Images!Assumed /\ Outputs!Assumed /\ Pages!Assumed
  /\ Wanted!Assumed /\ Scan!Assumed /\ Guard!Assumed /\ Filter!Assumed /\ Disposal!Assumed

-----------------------------------------------------------------------------
\* Every component's state is of its type.
TypeOK ==
  /\ Stages!TypeOK /\ Pack!TypeOK /\ Cache!TypeOK /\ Bundle!TypeOK /\ Base!TypeOK
  /\ Images!TypeOK /\ Outputs!TypeOK /\ Pages!TypeOK
  /\ Wanted!TypeOK /\ Scan!TypeOK /\ Guard!TypeOK /\ Filter!TypeOK /\ Disposal!TypeOK

\* A gate that lets a build pass has looked: what is packaged has been through
\* the post-build scan and nothing is read back before everything is attached,
\* a vulnerability scan that passes has asked about everything that ships, and
\* a tree without a finding holds none; see BuildStages, Scanner, SecretGuard.
GatesHold ==
  /\ Stages!ShippedIsScanned /\ Stages!ReadBackAfterAttach
  /\ Scan!PassIsEarned /\ Scan!OwnAdvisoriesCount /\ Scan!GapsAreSaid
  /\ Scan!ProductionIsListed /\ Scan!BillIsOfTheImage
  /\ Guard!CleanIsClean /\ Guard!MapsAreSearched

\* An accepted request is the one that was asked for, makes an image that
\* starts, and is what a valid file gives; of the routes and the files it asks to
\* leave out none is in the image, and no other is lost; see Requests, Routes and
\* Prune.
RequestIsAsAsked ==
  /\ Wanted!AsksAreHonoured /\ Wanted!AcceptedImagesStart /\ Wanted!ValidFilesBuild
  /\ Filter!ExclusionsHold /\ Filter!OnlyExcludedGoes /\ Filter!MergeIsWhole
  /\ Filter!ReportIsTrue /\ Disposal!NothingIsDropped
=============================================================================
