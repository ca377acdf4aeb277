------------------------------- MODULE Upgrade -------------------------------
(***************************************************************************)
(* pokkum upgrade: a release's checksums, their signature and an archive   *)
(* are fetched one after the other, the binary is unpacked beside the one  *)
(* that runs, and takes its place by way of a backup.  Commands may be     *)
(* started at the same time, and killed at any step.                       *)
(*                                                                         *)
(* A binary is the number of the release it is from; the assets of a       *)
(* release are replaced one by one while commands fetch them.              *)
(***************************************************************************)
EXTENDS Integers, FiniteSets

CONSTANTS Upgraders, MaxRelease, MaxStarts, None, Half

Assets == {"checksums", "sig", "archive"}
Binary == 1 .. MaxRelease

VARIABLES
  release,  \* [asset -> the release it is of]
  step,     \* [upgrader -> where runUpgrade is]
  got,      \* [upgrader -> [asset -> what was fetched]]
  tmp,      \* [upgrader -> its temporary file]
  targetExisted, \* [upgrader -> its local of that name]
  binary,   \* what is at execPath: a binary, Half of one, or None
  backup,   \* what is at execPath + backupSuffix
  applied,  \* what the commands said they installed
  starts,
  overlapped \* history: a command replaced the binary while another did, or what an
             \* interrupted one had half copied

upgradeVars == <<release, step, got, tmp, targetExisted, binary, backup, applied, starts, overlapped>>
fileVars == <<tmp, targetExisted, binary, backup>>

Init ==
  /\ release = [a \in Assets |-> 2]
  /\ step = [u \in Upgraders |-> "off"]
  /\ got = [u \in Upgraders |-> [a \in Assets |-> 0]]
  /\ tmp = [u \in Upgraders |-> None] /\ targetExisted = [u \in Upgraders |-> FALSE]
  /\ binary = 1 /\ backup = None /\ applied = {} /\ starts = 0 /\ overlapped = FALSE

Goto(u, where) == step' = [step EXCEPT ![u] = where]
Replacing(u) == step[u] \in {"install", "copying", "restore", "clean"}

-----------------------------------------------------------------------------
(* The release *)

Publish(a) ==
  /\ release[a] < MaxRelease
  /\ release' = [release EXCEPT ![a] = @ + 1]
  /\ UNCHANGED <<step, got, fileVars, applied, starts, overlapped>>

-----------------------------------------------------------------------------
(* runUpgrade, to the unpacked binary *)

\* The command is the binary it replaces.
Start(u) ==
  /\ step[u] = "off" /\ starts < MaxStarts /\ binary \in Binary
  /\ starts' = starts + 1
  /\ Goto(u, "checksums")
  /\ UNCHANGED <<release, got, fileVars, applied, overlapped>>

Fetch(u, a, next) ==
  /\ step[u] = a
  /\ got' = [got EXCEPT ![u][a] = release[a]]
  /\ Goto(u, next)
  /\ UNCHANGED <<release, fileVars, applied, starts, overlapped>>

\* VerifyArtifactSignature over the checksums.  --check, a release that is not
\* newer, or a path that checkUpgradeTarget refuses ends the command here too.
Verified(u) ==
  /\ step[u] = "verify"
  /\ \/ got[u].sig = got[u].checksums /\ Goto(u, "archive")
     \/ Goto(u, "off")
  /\ UNCHANGED <<release, got, fileVars, applied, starts, overlapped>>

\* VerifyChecksum, and the binary written to a temporary file, which an error
\* removes.
Unpack(u) ==
  /\ step[u] = "unpack"
  /\ \/ /\ got[u].archive = got[u].checksums
        /\ Goto(u, "backup") /\ tmp' = [tmp EXCEPT ![u] = got[u].archive]
     \/ Goto(u, "off") /\ UNCHANGED tmp
  /\ UNCHANGED <<release, got, targetExisted, binary, backup, applied, starts, overlapped>>

-----------------------------------------------------------------------------
(* replaceBinary *)

\* Mutant: the backup is removed before the new binary is in its place.
BackUp_removes(u) ==
  /\ step[u] = "backup"
  /\ binary' = None /\ backup' = None
  /\ targetExisted' = [targetExisted EXCEPT ![u] = binary # None]
  /\ Goto(u, "install")
  /\ UNCHANGED <<release, got, tmp, applied, starts, overlapped>>

\* The running binary becomes the backup; nothing there is not an error.
BackUp(u) ==
  /\ step[u] = "backup"
  /\ \/ /\ binary # None
        /\ backup' = binary /\ binary' = None
        /\ targetExisted' = [targetExisted EXCEPT ![u] = TRUE]
        /\ Goto(u, "install") /\ UNCHANGED tmp
     \/ /\ binary = None
        /\ targetExisted' = [targetExisted EXCEPT ![u] = FALSE]
        /\ Goto(u, "install") /\ UNCHANGED <<tmp, binary, backup>>
     \/ /\ Goto(u, "off") /\ tmp' = [tmp EXCEPT ![u] = None]
        /\ UNCHANGED <<targetExisted, binary, backup>>
  /\ overlapped' = (overlapped \/ binary = Half \/ \E v \in Upgraders : Replacing(v))
  /\ UNCHANGED <<release, got, applied, starts>>

\* renameOrCopyFile: the rename, or, across devices, a copy that must find
\* nothing in its place.
Install(u) ==
  /\ step[u] = "install"
  /\ \/ /\ binary' = tmp[u] /\ tmp' = [tmp EXCEPT ![u] = None]
        /\ Goto(u, "clean")
     \/ /\ binary = None
        /\ binary' = Half /\ Goto(u, "copying") /\ UNCHANGED tmp
     \/ /\ Goto(u, "restore") /\ UNCHANGED <<binary, tmp>>
  /\ UNCHANGED <<release, got, targetExisted, backup, applied, starts, overlapped>>

Copied(u) ==
  /\ step[u] = "copying"
  /\ \/ /\ binary' = tmp[u] /\ tmp' = [tmp EXCEPT ![u] = None]
        /\ Goto(u, "clean")
     \/ /\ binary' = None /\ Goto(u, "restore") /\ UNCHANGED tmp
  /\ UNCHANGED <<release, got, targetExisted, backup, applied, starts, overlapped>>

\* The backup goes back; if that fails too it stays where it is.
Restore(u) ==
  /\ step[u] = "restore"
  /\ \/ /\ targetExisted[u] /\ backup # None
        /\ binary' = backup /\ backup' = None
     \/ UNCHANGED <<binary, backup>>
  /\ tmp' = [tmp EXCEPT ![u] = None]
  /\ Goto(u, "off")
  /\ UNCHANGED <<release, got, targetExisted, applied, starts, overlapped>>

\* The backup is removed, if it can be, and only if this command made it.
CleanUp(u) ==
  /\ step[u] = "clean"
  /\ backup' \in (IF targetExisted[u] THEN {None, backup} ELSE {backup})
  /\ applied' = applied \cup {got[u].checksums}
  /\ Goto(u, "off")
  /\ UNCHANGED <<release, got, tmp, targetExisted, binary, starts, overlapped>>

\* Killed: its temporary file and the backup stay behind.
Killed(u) ==
  /\ step[u] # "off"
  /\ Goto(u, "off")
  /\ UNCHANGED <<release, got, fileVars, applied, starts, overlapped>>

Next ==
  \/ \E a \in Assets : Publish(a)
  \/ \E u \in Upgraders :
       \/ Start(u) \/ Verified(u) \/ Unpack(u)
       \/ Fetch(u, "checksums", "sig") \/ Fetch(u, "sig", "verify") \/ Fetch(u, "archive", "unpack")
       \/ BackUp(u) \/ Install(u) \/ Copied(u) \/ Restore(u) \/ CleanUp(u) \/ Killed(u)

Spec == Init /\ [][Next]_upgradeVars

-----------------------------------------------------------------------------
\* A file is a binary, half of one, or not there.
TypeOK ==
  /\ release \in [Assets -> Binary] /\ got \in [Upgraders -> [Assets -> {0} \cup Binary]]
  /\ step \in [Upgraders -> {"off", "checksums", "sig", "verify", "archive", "unpack", "backup",
                             "install", "copying", "restore", "clean"}]
  /\ {binary, backup} \subseteq Binary \cup {Half, None}
  /\ tmp \in [Upgraders -> Binary \cup {None}] /\ targetExisted \in [Upgraders -> BOOLEAN]
  /\ applied \subseteq Binary /\ starts \in 0 .. MaxStarts /\ overlapped \in BOOLEAN

\* However often it fails or is killed, an upgrade leaves a whole binary at
\* its path or beside it.  Two commands that replace it at the same time may not:
\* the clean-up of one removes the backup the other needs, and what one has
\* half copied the other takes for the binary to back up.
AlwaysAWorkingBinary == ~overlapped => {binary, backup} \cap Binary # {}

\* What is installed is what signed checksums name, though the assets of a
\* release change between the fetches.
InstalledIsSigned ==
  \A u \in Upgraders : step[u] \in {"backup", "install", "copying"} =>
                         tmp[u] = got[u].checksums /\ tmp[u] = got[u].sig

-----------------------------------------------------------------------------
(* The inductive invariant behind it *)

\* What the proofs rest on: there is a release to upgrade to, and neither half a
\* binary nor none is one.
Assumed ==
  /\ MaxRelease \in Nat \ {0, 1} /\ MaxStarts \in Nat
  /\ {None, Half} \cap Binary = {} /\ None # Half

\* What a command has fetched is of a release, and goes on only if it is signed.
FetchedIsSigned ==
  \A u \in Upgraders :
    /\ step[u] \notin {"off", "checksums"} => got[u].checksums \in Binary
    /\ step[u] \notin {"off", "checksums", "sig", "verify"} => got[u].sig = got[u].checksums
    /\ step[u] \in {"backup", "install", "copying"} => tmp[u] = got[u].checksums

\* One command at a time replaces the binary, and until it has, the backup is whole.
BackupUntilReplaced ==
  ~overlapped =>
    /\ \A u, v \in Upgraders : Replacing(u) /\ Replacing(v) => u = v
    /\ \A u \in Upgraders :
         /\ step[u] \in {"install", "restore"} => binary = None
         /\ step[u] \in {"install", "copying", "restore"} => backup \in Binary
         /\ step[u] = "clean" => binary \in Binary

IInv == FetchedIsSigned /\ BackupUntilReplaced /\ AlwaysAWorkingBinary
=============================================================================
