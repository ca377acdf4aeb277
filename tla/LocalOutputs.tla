----------------------------- MODULE LocalOutputs -----------------------------
(***************************************************************************)
(* The outputs of a build that are not pushed: an OCI layout or a tarball  *)
(* at a path, by several writers of which any may fail or be killed, and   *)
(* the load of one image into a daemon.                                    *)
(*                                                                         *)
(* A layout is known by the writer whose it is; Previous stands for the    *)
(* one that was there.                                                     *)
(***************************************************************************)
EXTENDS Naturals, FiniteSets, Sequences

CONSTANTS
  Writers,
  isLayout,   \* [writer -> whether it writes a layout, or a tarball]
  Previous, Nothing, Torn,
  Index,      \* the children of the index: [platform, digest], runnable ones and others
  LoadTags, hostPlatforms

Unknown == "unknown"

VARIABLES
  dest,     \* the output: what is at the path of a layout
  archive,  \* what is at the path of a tarball
  staging,  \* [writer -> what is in its staging directory or its temporary file]
  backup,   \* [writer -> what it moved aside]
  at,       \* [writer -> where it is]
  had,      \* history: there has been a layout at the path
  host,     \* the platform of the daemon
  loaded,   \* [tag -> the digest the daemon has under it]
  loading   \* how many tags the load has set; Len(LoadTags) + 1 when it has failed

outputVars == <<dest, archive, staging, backup, at>>
daemonVars == <<host, loaded, loading>>
Contents == Writers \cup {Previous, Nothing, Torn}
Tags == {LoadTags[i] : i \in DOMAIN LoadTags}
Digests == {Index[i].digest : i \in DOMAIN Index}

\* What the three markers and the index are; MCBuildSide checks it with TypeOK.
Assumed ==
  /\ Previous # Nothing /\ Previous # Torn /\ Nothing # Torn
  /\ {Previous, Nothing, Torn} \cap Writers = {}
  /\ Index \in Seq([platform : {Index[i].platform : i \in DOMAIN Index}, digest : Digests])
  /\ LoadTags \in Seq(Tags) /\ Nothing \notin Digests

Init ==
  /\ dest \in {Previous, Nothing} /\ archive \in {Previous, Nothing}
  /\ staging = [w \in Writers |-> Nothing] /\ backup = [w \in Writers |-> Nothing]
  /\ at = [w \in Writers |-> "write"]
  /\ had = (dest = Previous) /\ host \in hostPlatforms
  /\ loaded = [t \in Tags |-> Nothing] /\ loading = 0

Goto(w, where) == at' = [at EXCEPT ![w] = where]

-----------------------------------------------------------------------------
(* Adapter.WriteOCILayout and Adapter.Write *)

\* Attestations are children of an unknown platform.
Runnable == {i \in DOMAIN Index : Index[i].platform # Unknown}

\* The output is written beside its path, and is torn until it is complete.
BeginStaging(w) ==
  /\ at[w] = "write" /\ staging[w] = Nothing
  /\ staging' = [staging EXCEPT ![w] = Torn]
  /\ UNCHANGED <<dest, archive, backup, at, daemonVars>>

Staged(w) ==
  /\ at[w] = "write" /\ staging[w] = Torn
  /\ isLayout[w] \/ Runnable # {}
  /\ staging' = [staging EXCEPT ![w] = w] /\ Goto(w, "look")
  /\ UNCHANGED <<dest, archive, backup, daemonVars>>

\* A tarball takes the place of the one that is there.
RenameArchive(w) ==
  /\ at[w] = "look" /\ ~isLayout[w]
  /\ archive' = staging[w] /\ staging' = [staging EXCEPT ![w] = Nothing]
  /\ Goto(w, "written") /\ UNCHANGED <<dest, backup, daemonVars>>

\* A directory cannot be replaced: what is at the path is moved aside first.
LookAtDest(w) ==
  /\ at[w] = "look" /\ isLayout[w]
  /\ Goto(w, IF dest = Nothing THEN "install" ELSE "aside")
  /\ UNCHANGED <<dest, archive, staging, backup, daemonVars>>

MoveAside(w) ==
  /\ at[w] = "aside" /\ dest # Nothing
  /\ backup' = [backup EXCEPT ![w] = dest] /\ dest' = Nothing
  /\ Goto(w, "install") /\ UNCHANGED <<archive, staging, daemonVars>>

\* Renaming a directory over one that is not empty fails, and so may any rename.
Install(w) ==
  /\ at[w] = "install" /\ dest = Nothing
  /\ dest' = staging[w] /\ staging' = [staging EXCEPT ![w] = Nothing]
  /\ Goto(w, "removeBackup") /\ UNCHANGED <<archive, backup, daemonVars>>

\* What was moved aside is put back, if it can be.
Restore(w) ==
  /\ at[w] = "install"
  /\ \/ /\ backup[w] # Nothing /\ dest = Nothing
        /\ dest' = backup[w] /\ backup' = [backup EXCEPT ![w] = Nothing]
     \/ UNCHANGED <<dest, backup>>
  /\ Goto(w, "cleanUp") /\ UNCHANGED <<archive, staging, daemonVars>>

RemoveBackup(w) ==
  /\ at[w] = "removeBackup"
  /\ backup' = [backup EXCEPT ![w] = Nothing]
  /\ Goto(w, "written") /\ UNCHANGED <<dest, archive, staging, daemonVars>>

\* Any call may fail before the new output is in place.
Fails(w) ==
  /\ at[w] \in {"write", "look", "aside"}
  /\ Goto(w, "cleanUp") /\ UNCHANGED <<dest, archive, staging, backup, daemonVars>>

CleanUp(w) ==
  /\ at[w] = "cleanUp"
  /\ staging' = [staging EXCEPT ![w] = Nothing]
  /\ Goto(w, "failed") /\ UNCHANGED <<dest, archive, backup, daemonVars>>

Killed(w) ==
  /\ at[w] \notin {"written", "failed", "killed"}
  /\ Goto(w, "killed") /\ UNCHANGED <<dest, archive, staging, backup, daemonVars>>

-----------------------------------------------------------------------------
(* The children of an index *)


\* A tarball has one tag per platform and tag, for the last child of that
\* platform, and needs at least one image.
flattenIndexTags(tags) ==
  [x \in tags \X {Index[i].platform : i \in Runnable} |->
     Index[CHOOSE i \in Runnable : /\ Index[i].platform = x[2]
                             /\ \A k \in Runnable : Index[k].platform = x[2] => k <= i].digest]

\* The daemon gets the first child of the platform, if there is one.
Matches(want) == {i \in Runnable : Index[i].platform = want}
selectIndexChild(want) ==
  IF Matches(want) = {} THEN Nothing
  ELSE Index[CHOOSE i \in Matches(want) : \A k \in Matches(want) : i <= k].digest

(* Adapter.Load *)

LoadFailed == Len(LoadTags) + 1

\* The image is written under the first tag, and tagged with the others.
Load ==
  /\ loading < Len(LoadTags)
  /\ selectIndexChild(host) # Nothing
  /\ loaded' = [loaded EXCEPT ![LoadTags[loading + 1]] =
                  IF loading = 0 THEN selectIndexChild(host) ELSE loaded[LoadTags[1]]]
  /\ loading' = loading + 1
  /\ UNCHANGED <<host, outputVars>>

LoadFails ==
  /\ loading < Len(LoadTags)
  /\ loading' = LoadFailed /\ UNCHANGED <<host, loaded, outputVars>>

-----------------------------------------------------------------------------
WriterStep(w) ==
  \/ BeginStaging(w) \/ Staged(w) \/ RenameArchive(w) \/ LookAtDest(w) \/ MoveAside(w)
  \/ Install(w) \/ Restore(w) \/ RemoveBackup(w) \/ Fails(w) \/ CleanUp(w) \/ Killed(w)

Next ==
  /\ (\E w \in Writers : WriterStep(w)) \/ Load \/ LoadFails
  /\ had' = (had \/ dest' # Nothing)

Spec == Init /\ [][Next]_<<outputVars, had, daemonVars>>

-----------------------------------------------------------------------------
\* The type of the state.
TypeOK ==
  /\ dest \in Contents /\ archive \in Contents
  /\ staging \in [Writers -> Contents] /\ backup \in [Writers -> Contents]
  /\ at \in [Writers -> {"write", "look", "aside", "install", "removeBackup", "cleanUp", "written",
                         "failed", "killed"}]
  /\ had \in BOOLEAN
  /\ host \in hostPlatforms /\ loading \in 0 .. LoadFailed
  /\ loaded \in [Tags -> Digests \cup {Nothing}]

\* What is at the path is whole at any time, and a layout is lost to no writer:
\* once there was one, one is at the path or moved aside, through renames that
\* fail, kills between two of them and writers side by side.
OutputsAreWhole ==
  /\ dest # Torn /\ archive # Torn
  /\ had => dest # Nothing \/ \E w \in Writers : backup[w] \notin {Nothing, Torn}

\* What the daemon is given runs on it, under every tag that is set, and a tag
\* of a tarball names an image of the platform it says.
LoadedRunsHere ==
  /\ LET archived == flattenIndexTags(Tags) IN
       \A x \in DOMAIN archived :
         \E i \in DOMAIN Index : Index[i] = [platform |-> x[2], digest |-> archived[x]]
  /\ \A t \in DOMAIN loaded :
    loaded[t] # Nothing => \E i \in DOMAIN Index : Index[i] = [platform |-> host, digest |-> loaded[t]]

-----------------------------------------------------------------------------
(* The invariants that OutputsAreWhole and LoadedRunsHere follow from *)

\* A writer that has written its output holds it whole, and nobody moves a torn
\* one aside.
StagedIsWhole ==
  \A w \in Writers : /\ at[w] \in {"look", "aside", "install"} => staging[w] = w
                     /\ backup[w] # Torn

\* What was moved aside is kept by a writer that has not put its own in place.
AsideIsKept ==
  had /\ dest = Nothing =>
    \E w \in Writers : at[w] # "removeBackup" /\ backup[w] # Nothing

IInv == StagedIsWhole /\ AsideIsKept /\ OutputsAreWhole /\ LoadedRunsHere
=============================================================================
