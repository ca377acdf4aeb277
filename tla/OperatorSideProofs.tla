-------------------------- MODULE OperatorSideProofs --------------------------
(***************************************************************************)
(* The commands around a build, the server of a static image and the check *)
(* of signatures, for every number of processes, files, clients and edits: *)
(* the theorems of Upgrade, DevLoop, ClusterDev, StaticServer, Startup,    *)
(* Deploy, Trust and Manifests, and with them those of Attestation.        *)
(***************************************************************************)
EXTENDS OperatorSide, Integers, FiniteSets, Sequences, FiniteSetTheorems, WellFoundedInduction,
        TLAPS

-----------------------------------------------------------------------------
(* pokkum upgrade *)

LEMMA UpgradeInit == Up!Assumed /\ Up!Init => Up!TypeOK /\ Up!IInv
  <1> SUFFICES ASSUME Up!Assumed, Up!Init PROVE Up!TypeOK /\ Up!IInv
    OBVIOUS
  <1>1. {1, 2} \subseteq Up!Binary
    BY DEF Up!Assumed, Up!Binary
  <1>2. Up!TypeOK
    <2>1. starts \in 0 .. MaxStarts
      BY DEF Up!Assumed, Up!Init
    <2>2. QED
      BY <1>1, <2>1 DEF Up!Init, Up!TypeOK, Up!Assets
  <1>3. Up!IInv
    BY <1>1 DEF Up!Init, Up!IInv, Up!FetchedIsSigned, Up!BackupUntilReplaced, Up!Replacing,
                Up!AlwaysAWorkingBinary
  <1>4. QED
    BY <1>2, <1>3

\* The release and the way to an unpacked binary touch no file but a temporary one.
LEMMA FetchStep ==
  ASSUME Up!Assumed, Up!TypeOK, Up!IInv,
         \/ \E a \in Up!Assets : Up!Publish(a)
         \/ \E u \in Upgraders :
              \/ Up!Start(u) \/ Up!Verified(u) \/ Up!Unpack(u) \/ Up!Killed(u)
              \/ Up!Fetch(u, "checksums", "sig") \/ Up!Fetch(u, "sig", "verify")
              \/ Up!Fetch(u, "archive", "unpack")
  PROVE  Up!TypeOK' /\ Up!IInv'
  <1> USE DEF Up!TypeOK, Up!IInv, Up!FetchedIsSigned, Up!BackupUntilReplaced, Up!Replacing,
              Up!AlwaysAWorkingBinary, Up!Goto, Up!fileVars, Up!Assets
  <1>1. CASE \E a \in Up!Assets : Up!Publish(a)
    <2>1. PICK a \in Up!Assets : Up!Publish(a)
      BY <1>1
    <2>2. release[a] + 1 \in Up!Binary
      BY <2>1 DEF Up!Publish, Up!Binary, Up!Assumed
    <2>3. QED
      BY <2>1, <2>2 DEF Up!Publish
  <1>2. ASSUME NEW u \in Upgraders, Up!Start(u) PROVE Up!TypeOK' /\ Up!IInv'
    <2>1. starts' \in 0 .. MaxStarts
      BY <1>2 DEF Up!Start, Up!Assumed
    <2>2. QED
      BY <1>2, <2>1 DEF Up!Start
  <1>3. ASSUME NEW u \in Upgraders, Up!Verified(u) PROVE Up!TypeOK' /\ Up!IInv'
    BY SMTT(60), <1>3 DEF Up!Verified
  <1>4. ASSUME NEW u \in Upgraders, Up!Unpack(u) PROVE Up!TypeOK' /\ Up!IInv'
    BY <1>4 DEF Up!Unpack
  <1>5. ASSUME NEW u \in Upgraders, Up!Killed(u) PROVE Up!TypeOK' /\ Up!IInv'
    BY <1>5 DEF Up!Killed
  <1>6. ASSUME NEW u \in Upgraders,
               \/ Up!Fetch(u, "checksums", "sig") \/ Up!Fetch(u, "sig", "verify")
               \/ Up!Fetch(u, "archive", "unpack")
        PROVE  Up!TypeOK' /\ Up!IInv'
    BY SMTT(60), <1>6 DEF Up!Fetch
  <1>7. QED
    BY <1>1, <1>2, <1>3, <1>4, <1>5, <1>6

\* The steps of replaceBinary.
LEMMA ReplaceStep ==
  ASSUME Up!Assumed, Up!TypeOK, Up!IInv, NEW u \in Upgraders,
         Up!BackUp(u) \/ Up!Install(u) \/ Up!Copied(u) \/ Up!Restore(u) \/ Up!CleanUp(u)
  PROVE  Up!TypeOK' /\ Up!IInv'
  <1> USE DEF Up!TypeOK, Up!IInv, Up!FetchedIsSigned, Up!BackupUntilReplaced, Up!Replacing,
              Up!AlwaysAWorkingBinary, Up!Goto, Up!Assets, Up!Assumed
  <1>1. CASE Up!BackUp(u)
    <2>1. Up!TypeOK'
      <3>1. \/ /\ binary # None /\ backup' = binary /\ binary' = None /\ tmp' = tmp
               /\ targetExisted' = [targetExisted EXCEPT ![u] = TRUE]
            \/ /\ UNCHANGED <<binary, backup, tmp>>
               /\ targetExisted' = [targetExisted EXCEPT ![u] = FALSE]
            \/ tmp' = [tmp EXCEPT ![u] = None] /\ UNCHANGED <<targetExisted, binary, backup>>
        BY <1>1 DEF Up!BackUp
      <3>2. PICK s \in {"install", "off"} : step' = [step EXCEPT ![u] = s]
        BY <1>1 DEF Up!BackUp
      <3>3. overlapped' \in BOOLEAN /\ UNCHANGED <<release, fetched, applied, starts>>
        BY <1>1 DEF Up!BackUp
      <3>4. /\ {binary', backup'} \subseteq Up!Binary \cup {Half, None}
            /\ tmp' \in [Upgraders -> Up!Binary \cup {None}]
            /\ targetExisted' \in [Upgraders -> BOOLEAN]
        <4>1. /\ {binary, backup} \subseteq Up!Binary \cup {Half, None}
              /\ tmp \in [Upgraders -> Up!Binary \cup {None}]
              /\ targetExisted \in [Upgraders -> BOOLEAN]
          OBVIOUS
        <4> HIDE DEF Up!TypeOK, Up!IInv
        <4>2. {binary', backup'} \subseteq Up!Binary \cup {Half, None}
          BY <3>1, <4>1
        <4>3. tmp' \in [Upgraders -> Up!Binary \cup {None}]
          BY <3>1, <4>1
        <4>4. targetExisted' \in [Upgraders -> BOOLEAN]
          BY <3>1, <4>1
        <4>5. QED
          BY <4>2, <4>3, <4>4
      <3>5. step' \in [Upgraders -> {"off", "checksums", "sig", "verify", "archive", "unpack",
                                     "backup", "install", "copying", "restore", "clean"}]
        BY <3>2
      <3>6. QED
        BY <3>3, <3>4, <3>5
    <2>2. Up!FetchedIsSigned'
      BY <1>1 DEF Up!BackUp
    <2>3. Up!BackupUntilReplaced'
      <3>1. SUFFICES ASSUME ~overlapped' PROVE Up!BackupUntilReplaced'
        OBVIOUS
      <3>2. ~overlapped /\ binary # Half /\ \A v \in Upgraders : ~Up!Replacing(v)
        BY <1>1, <3>1 DEF Up!BackUp
      <3>3. \A v \in Upgraders : v # u => step'[v] = step[v]
        BY <1>1 DEF Up!BackUp
      <3>4. step'[u] = "install" => binary' = None /\ backup' \in Up!Binary
        BY <1>1, <3>2 DEF Up!BackUp
      <3>5. step'[u] \in {"install", "off"}
        BY <1>1 DEF Up!BackUp
      <3>6. QED
        BY <3>2, <3>3, <3>4, <3>5
    <2>4. Up!AlwaysAWorkingBinary'
      BY <1>1 DEF Up!BackUp
    <2>5. QED
      BY <2>1, <2>2, <2>3, <2>4
  <1>2. CASE Up!Install(u)
    <2>1. Up!TypeOK'
      BY <1>2 DEF Up!Install
    <2>2. Up!FetchedIsSigned'
      BY <1>2 DEF Up!Install
    <2>3. Up!BackupUntilReplaced'
      BY <1>2 DEF Up!Install
    <2>4. Up!AlwaysAWorkingBinary'
      BY <1>2 DEF Up!Install
    <2>5. QED
      BY <2>1, <2>2, <2>3, <2>4
  <1>3. CASE Up!Copied(u)
    <2>1. Up!TypeOK'
      BY SMTT(60), <1>3 DEF Up!Copied
    <2>2. Up!FetchedIsSigned'
      BY <1>3 DEF Up!Copied
    <2>3. Up!BackupUntilReplaced'
      BY <1>3 DEF Up!Copied
    <2>4. Up!AlwaysAWorkingBinary'
      BY <1>3 DEF Up!Copied
    <2>5. QED
      BY <2>1, <2>2, <2>3, <2>4
  <1>4. CASE Up!Restore(u)
    BY <1>4 DEF Up!Restore
  <1>5. CASE Up!CleanUp(u)
    BY <1>5 DEF Up!CleanUp
  <1>6. QED
    BY <1>1, <1>2, <1>3, <1>4, <1>5

\* However many commands upgrade, fail or are killed, one after the other: there is
\* a whole binary at its path or in its backup.  And whatever else runs beside it, a
\* command installs what the checksums it verified name.
THEOREM AWorkingBinaryIsThere ==
  ASSUME Up!Assumed
  PROVE  Up!Spec => [](Up!TypeOK /\ AlwaysAWorkingBinary)
  <1>1. Up!TypeOK /\ Up!IInv /\ [Up!Next]_(Up!upgradeVars) => (Up!TypeOK /\ Up!IInv)'
    <2>1. ASSUME Up!TypeOK, Up!IInv, UNCHANGED Up!upgradeVars PROVE Up!TypeOK' /\ Up!IInv'
      BY <2>1 DEF Up!upgradeVars, Up!TypeOK, Up!IInv, Up!FetchedIsSigned,
                  Up!BackupUntilReplaced, Up!Replacing, Up!AlwaysAWorkingBinary
    <2>2. ASSUME Up!TypeOK, Up!IInv, Up!Next PROVE Up!TypeOK' /\ Up!IInv'
      BY <2>2, FetchStep, ReplaceStep DEF Up!Next
    <2>3. QED
      BY <2>1, <2>2
  <1>2. Up!IInv => AlwaysAWorkingBinary
    BY DEF AlwaysAWorkingBinary, Up!IInv, Up!FetchedIsSigned, Up!InstalledIsSigned
  <1>3. QED
    BY <1>1, <1>2, UpgradeInit, PTL DEF Up!Spec

-----------------------------------------------------------------------------
(* pokkum dev *)

Run == {g \in Dev!Generations : generation[g] # "none"}

\* The next number is that of no generation that was run.
LEMMA NextGeneration ==
  ASSUME NEW k \in Nat, Run = 1 .. k
  PROVE  Dev!Cardinality({g \in Dev!Generations : generation[g] # "none"}) = k
  <1>1. \A S : Dev!Cardinality(S) = Cardinality(S)
    BY DEF Dev!Cardinality, Cardinality
  <1>2. Cardinality(1 .. k) = k
    BY FS_Interval
  <1>3. QED
    BY <1>1, <1>2 DEF Run

LEMMA DevInit == Dev!Assumed /\ Dev!Init => Dev!TypeOK /\ Dev!IInv
  <1> SUFFICES ASSUME Dev!Assumed, Dev!Init PROVE Dev!TypeOK /\ Dev!IInv
    OBVIOUS
  <1>1. Dev!GenerationsInOrder
    <2>1. {g \in Dev!Generations : generation[g] # "none"} = 1 .. 0
      BY DEF Dev!Init
    <2>2. 0 \in 0 .. MaxGenerations
      BY DEF Dev!Assumed
    <2>3. QED
      BY <2>1, <2>2 DEF Dev!Init, Dev!GenerationsInOrder, Dev!Watching
  <1>2. 1 \in Dev!Generations /\ {0, 1} \subseteq 0 .. MaxEdits
    BY DEF Dev!Assumed, Dev!Generations
  <1>3. Dev!TypeOK
    BY <1>2 DEF Dev!Init, Dev!TypeOK
  <1>4. QED
    BY <1>1, <1>3 DEF Dev!Init, Dev!IInv, Dev!ToldIsLate, Dev!NotedIsRead, Dev!EndsForCause

USE DEF Dev!Watching, Dev!containers, Dev!sources, Dev!Returns

\* The sources change and a container ends, in no order with the loop.
LEMMA BesideTheLoop ==
  ASSUME Dev!Assumed, Dev!TypeOK, Dev!IInv,
         \/ \E g \in Dev!Generations : Dev!Reports(g)
         \/ \E top \in BOOLEAN : Dev!Edit(top)
         \/ Dev!CtrlC
  PROVE  Dev!TypeOK' /\ Dev!IInv'
  <1> USE DEF Dev!TypeOK, Dev!IInv, Dev!ToldIsLate, Dev!NotedIsRead, Dev!EndsForCause
  <1>1. PICK k \in 0 .. MaxGenerations :
          /\ {g \in Dev!Generations : generation[g] # "none"} = 1 .. k
          /\ told \subseteq 1 .. k
          /\ loop \in {"idle", "first", "launch"} => k = 0
          /\ loop \in {"stop", "rebuild"} => k < MaxGenerations
          /\ Dev!Watching => channel \in 1 .. k
    BY DEF Dev!GenerationsInOrder
  <1>2. ASSUME NEW g \in Dev!Generations, Dev!Reports(g) PROVE Dev!TypeOK' /\ Dev!IInv'
    <2>1. {h \in Dev!Generations : generation'[h] # "none"} = 1 .. k
      BY <1>1, <1>2 DEF Dev!Reports
    <2>2. Dev!GenerationsInOrder'
      BY <1>1, <1>2, <2>1 DEF Dev!Reports, Dev!GenerationsInOrder
    <2>3. QED
      BY <1>2, <2>2 DEF Dev!Reports
  <1>3. ASSUME NEW top \in BOOLEAN, Dev!Edit(top) PROVE Dev!TypeOK' /\ Dev!IInv'
    <2>1. Dev!GenerationsInOrder'
      BY <1>1, <1>3 DEF Dev!Edit, Dev!GenerationsInOrder
    <2>2. srcTime' = srcTime + 1 /\ srcTime' \in 0 .. MaxEdits /\ topTime' \in {topTime, srcTime'}
      BY <1>3 DEF Dev!Edit, Dev!Assumed
    <2>3. Dev!TypeOK'
      BY <1>3, <2>2 DEF Dev!Edit
    <2>4. Dev!NotedIsRead'
      BY <1>3, <2>2 DEF Dev!Edit
    <2>5. QED
      BY <1>3, <2>1, <2>3, <2>4 DEF Dev!Edit
  <1>4. CASE Dev!CtrlC
    <2>1. Dev!GenerationsInOrder'
      BY <1>1, <1>4 DEF Dev!CtrlC, Dev!GenerationsInOrder
    <2>2. QED
      BY <1>4, <2>1 DEF Dev!CtrlC
  <1>5. QED
    BY <1>2, <1>3, <1>4

\* The loop's own steps.
LEMMA LoopStep ==
  ASSUME Dev!Assumed, Dev!TypeOK, Dev!IInv,
         \/ Dev!StartDev \/ Dev!FirstBuild \/ Dev!Launch
         \/ Dev!Interrupted \/ Dev!Exited \/ Dev!Modified \/ Dev!Stopped \/ Dev!Rebuilt
  PROVE  Dev!TypeOK' /\ Dev!IInv'
  <1> USE DEF Dev!TypeOK, Dev!IInv, Dev!ToldIsLate, Dev!NotedIsRead, Dev!EndsForCause,
              Dev!Assumed
  <1>1. PICK k \in 0 .. MaxGenerations :
          /\ {g \in Dev!Generations : generation[g] # "none"} = 1 .. k
          /\ told \subseteq 1 .. k
          /\ loop \in {"idle", "first", "launch"} => k = 0
          /\ loop \in {"stop", "rebuild"} => k < MaxGenerations
          /\ Dev!Watching => channel \in 1 .. k
    BY DEF Dev!GenerationsInOrder
  <1>2. CASE Dev!StartDev \/ Dev!FirstBuild
    <2>1. Dev!GenerationsInOrder'
      BY <1>1, <1>2 DEF Dev!StartDev, Dev!FirstBuild, Dev!GenerationsInOrder
    <2>2. QED
      BY <1>2, <2>1 DEF Dev!StartDev, Dev!FirstBuild
  <1>3. CASE Dev!Launch
    <2>1. {g \in Dev!Generations : generation'[g] # "none"} = 1 .. 1 /\ 1 \in Dev!Generations
      BY <1>1, <1>3 DEF Dev!Launch, Dev!Generations
    <2>2. Dev!GenerationsInOrder'
      BY <1>1, <1>3, <2>1 DEF Dev!Launch, Dev!GenerationsInOrder
    <2>3. QED
      BY <1>1, <1>3, <2>1, <2>2 DEF Dev!Launch
  <1>4. CASE Dev!Interrupted
    <2>1. Dev!GenerationsInOrder'
      BY <1>1, <1>4 DEF Dev!Interrupted, Dev!GenerationsInOrder
    <2>2. QED
      BY <1>4, <2>1 DEF Dev!Interrupted
  <1>5. CASE Dev!Exited
    <2>1. {g \in Dev!Generations : generation'[g] # "none"} = 1 .. k
      BY <1>1, <1>5 DEF Dev!Exited
    <2>2. Dev!GenerationsInOrder'
      BY <1>1, <1>5, <2>1 DEF Dev!Exited, Dev!GenerationsInOrder
    <2>3. QED
      BY <1>5, <2>2 DEF Dev!Exited
  <1>6. CASE Dev!Modified
    <2>1. Dev!Cardinality({g \in Dev!Generations : generation[g] # "none"}) = k
      BY <1>1, NextGeneration DEF Run
    <2>2. k < MaxGenerations
      BY <1>6, <2>1 DEF Dev!Modified
    <2>3. Dev!GenerationsInOrder'
      BY <1>1, <1>6, <2>2 DEF Dev!Modified, Dev!GenerationsInOrder
    <2>4. Dev!TypeOK'
      BY <1>6 DEF Dev!Modified
    <2>5. Dev!ToldIsLate' /\ Dev!NotedIsRead' /\ Dev!EndsForCause' /\ ended' = "no"
      BY <1>6 DEF Dev!Modified
    <2>6. QED
      BY <2>3, <2>4, <2>5
  <1>7. CASE Dev!Stopped
    <2>1. {g \in Dev!Generations : generation'[g] # "none"} = 1 .. k
      BY <1>1, <1>7 DEF Dev!Stopped
    <2>2. Dev!GenerationsInOrder'
      BY <1>1, <1>7, <2>1 DEF Dev!Stopped, Dev!GenerationsInOrder
    <2>3. Dev!TypeOK'
      BY <1>7 DEF Dev!Stopped
    <2>4. Dev!ToldIsLate'
      <3>1. channel' = channel /\ told' = told /\ loop' \in {"rebuild", "returned"}
        BY <1>7 DEF Dev!Stopped
      <3>2. CASE generation' = [generation EXCEPT ![channel] = "read"]
        BY <3>1, <3>2
      <3>3. CASE late' = (generation[channel] # "read") /\ generation' = generation
        BY <3>1, <3>3
      <3>4. QED
        BY <1>7, <3>2, <3>3 DEF Dev!Stopped
    <2>5. Dev!NotedIsRead' /\ Dev!EndsForCause' /\ (loop' # "returned" => ended' = "no")
      BY <1>7 DEF Dev!Stopped
    <2>6. QED
      BY <2>2, <2>3, <2>4, <2>5
  <1>8. CASE Dev!Rebuilt
    <2>1. Dev!Cardinality({g \in Dev!Generations : generation[g] # "none"}) = k
      BY <1>1, NextGeneration DEF Run
    <2>2. CASE /\ image' = reading /\ buildFailed' = FALSE
               /\ channel' = 1 + k /\ generation' = [generation EXCEPT ![channel'] = "runs"]
               /\ late' = FALSE
      <3>1. channel' \in Dev!Generations /\ channel' \notin told /\ k + 1 \in 0 .. MaxGenerations
        BY <1>1, <1>8, <2>2 DEF Dev!Rebuilt, Dev!Generations
      <3>2. {g \in Dev!Generations : generation'[g] # "none"} = 1 .. (k + 1)
        BY <1>1, <2>2, <3>1 DEF Dev!Generations
      <3>3. Dev!GenerationsInOrder'
        BY <1>1, <1>8, <2>2, <3>1, <3>2 DEF Dev!Rebuilt, Dev!GenerationsInOrder
      <3>4. Dev!TypeOK'
        <4>1. generation' \in [Dev!Generations -> {"none", "runs", "reported", "read"}]
          BY <2>2, <3>1
        <4>2. UNCHANGED <<ctxDone, unseen, told, srcTime, topTime, lastMod, reading, ended>>
          BY <1>8 DEF Dev!Rebuilt
        <4>3. loop' = "select"
          BY <1>8 DEF Dev!Rebuilt
        <4>4. QED
          BY <2>2, <3>1, <4>1, <4>2, <4>3
      <3>5. Dev!ToldIsLate' /\ Dev!NotedIsRead' /\ Dev!EndsForCause' /\ ended' = "no"
        BY <1>1, <1>8, <2>2, <3>1 DEF Dev!Rebuilt
      <3>6. QED
        BY <3>3, <3>4, <3>5
    <2>3. CASE buildFailed' = TRUE /\ UNCHANGED <<image, channel, generation, late>>
      <3>1. Dev!GenerationsInOrder'
        BY <1>1, <1>8, <2>3 DEF Dev!Rebuilt, Dev!GenerationsInOrder
      <3>2. QED
        BY <1>8, <2>3, <3>1 DEF Dev!Rebuilt
    <2>4. QED
      BY <1>8, <2>1, <2>2, <2>3 DEF Dev!Rebuilt
  <1>9. QED
    BY <1>2, <1>3, <1>4, <1>5, <1>6, <1>7, <1>8

\* However many edits, generations and failed builds a session has: it ends for a
\* cause, and at its select it has built what it has seen.
THEOREM SessionsAreHonest ==
  ASSUME Dev!Assumed
  PROVE  Dev!Spec => [](Dev!TypeOK /\ DevLoopIsHonest)
  <1>1. Dev!TypeOK /\ Dev!IInv /\ [Dev!Next]_(Dev!devVars) => (Dev!TypeOK /\ Dev!IInv)'
    <2>1. ASSUME Dev!TypeOK, Dev!IInv, UNCHANGED Dev!devVars PROVE Dev!TypeOK' /\ Dev!IInv'
      BY <2>1 DEF Dev!devVars, Dev!TypeOK, Dev!IInv, Dev!GenerationsInOrder, Dev!ToldIsLate,
                  Dev!NotedIsRead, Dev!EndsForCause
    <2>2. ASSUME Dev!TypeOK, Dev!IInv, Dev!Next PROVE Dev!TypeOK' /\ Dev!IInv'
      BY <2>2, BesideTheLoop, LoopStep DEF Dev!Next
    <2>3. QED
      BY <2>1, <2>2
  <1>2. Dev!TypeOK /\ Dev!IInv => DevLoopIsHonest
    BY DEF DevLoopIsHonest, Dev!TypeOK, Dev!IInv, Dev!NotedIsRead, Dev!NoEditIsMissed, Dev!DevLoopIsHonest
  <1>3. QED
    BY <1>1, <1>2, DevInit, PTL DEF Dev!Spec

-----------------------------------------------------------------------------
(* pokkum dev --cluster *)

Files == {Archive[i] : i \in DOMAIN Archive}

LEMMA ArchiveOfFiles ==
  ASSUME Sync!Assumed
  PROVE  /\ Sync!ToSet(Archive) = Files /\ Archive \in Seq(Files) /\ Len(Archive) \in Nat
         /\ DOMAIN Archive = 1 .. Len(Archive)
         /\ \A i \in 1 .. Len(Archive) : Archive[i] \in Files
  <1>1. Sync!ToSet(Archive) = Files
    BY DEF Sync!ToSet, Files
  <1>2. Archive \in Seq(Files)
    BY <1>1 DEF Sync!Assumed
  <1>3. QED
    BY <1>1, <1>2 DEF Files

LEMMA SyncInit == Sync!Assumed /\ Sync!Init => Sync!TypeOK /\ Sync!IInv
  <1> SUFFICES ASSUME Sync!Assumed, Sync!Init PROVE Sync!TypeOK /\ Sync!IInv
    OBVIOUS
  <1>1. 0 \in 0 .. MaxBuilds /\ 0 \in 0 .. MaxRestarts /\ 0 \in 0 .. Len(Archive)
    BY ArchiveOfFiles DEF Sync!Assumed
  <1>2. Sync!TypeOK
    <2>1. Sync!ToSet(Archive) = Files
      BY ArchiveOfFiles
    <2>2. {pod, app} \subseteq [Files -> 0 .. MaxBuilds \cup {Missing}]
      BY <1>1, <2>1 DEF Sync!Init
    <2>3. 0 \in 0 .. 0
      OBVIOUS
    <2>4. QED
      BY <1>1, <2>1, <2>2, <2>3 DEF Sync!Init, Sync!TypeOK
  <1>3. Sync!IInv
    BY DEF Sync!Init, Sync!IInv, Sync!EntriesAreSent, Sync!WrittenIsThere, Sync!SyncedIsComplete
  <1>4. QED
    BY <1>2, <1>3

USE DEF Sync!podVars, Sync!sendVars, Sync!CycleFailed, Sync!EntryAfter

\* The loop's side: what it sends, and what it says.
LEMMA SenderStep ==
  ASSUME Sync!Assumed, Sync!TypeOK, Sync!IInv,
         \/ Sync!ResolveTarget \/ Sync!PrepareFailed \/ Sync!Prepared \/ Sync!Send
         \/ Sync!SendFails \/ Sync!SendEnds \/ Sync!Verdict \/ Sync!Tick
  PROVE  Sync!TypeOK' /\ Sync!IInv'
  <1> USE DEF Sync!TypeOK, Sync!IInv, Sync!EntriesAreSent, Sync!WrittenIsThere,
              Sync!SyncedIsComplete
  <1>a. /\ Sync!ToSet(Archive) = Files /\ Len(Archive) \in Nat
        /\ \A i \in 1 .. Len(Archive) : Archive[i] \in Files
    BY ArchiveOfFiles
  <1>b. /\ wire \in Nat /\ got \in Nat /\ sent \in Nat /\ got <= wire /\ wire <= sent /\ sent <= Len(Archive)
        /\ build \in Nat /\ build <= MaxBuilds /\ restarts \in Nat /\ restarts <= MaxRestarts
        /\ MaxBuilds \in Nat /\ MaxRestarts \in Nat
    BY <1>a DEF Sync!Assumed
  <1> USE <1>a, <1>b
  <1>1. CASE Sync!ResolveTarget
    BY <1>1 DEF Sync!ResolveTarget
  <1>2. CASE Sync!PrepareFailed
    BY <1>2 DEF Sync!PrepareFailed
  <1>3. CASE Sync!Prepared
    <2>1. build' \in 0 .. MaxBuilds /\ 0 \in 0 .. Len(Archive) /\ 0 \in 0 .. 0 /\ 1 .. 0 = {}
      BY <1>3 DEF Sync!Prepared, Sync!Assumed
    <2>2. Sync!TypeOK'
      BY <1>3, <2>1 DEF Sync!Prepared
    <2>3. Sync!IInv'
      BY <1>3, <2>1 DEF Sync!Prepared
    <2>4. QED
      BY <2>2, <2>3
  <1>4. CASE Sync!Send
    BY <1>4 DEF Sync!Send
  <1>5. CASE Sync!SendFails
    BY <1>5 DEF Sync!SendFails
  <1>6. CASE Sync!SendEnds
    BY <1>6 DEF Sync!SendEnds
  <1>7. CASE Sync!Verdict
    BY <1>7 DEF Sync!Verdict
  <1>8. CASE Sync!Tick
    BY <1>8 DEF Sync!Tick
  <1>9. QED
    BY <1>1, <1>2, <1>3, <1>4, <1>5, <1>6, <1>7, <1>8

\* The pod's side, and the link between the two.
LEMMA PodStep ==
  ASSUME Sync!Assumed, Sync!TypeOK, Sync!IInv,
         \/ Sync!LinkCut \/ Sync!RemoveOld \/ Sync!WriteNew \/ Sync!Extracted
         \/ Sync!Restart \/ Sync!ContainerRestart
  PROVE  Sync!TypeOK' /\ Sync!IInv'
  <1> USE DEF Sync!TypeOK, Sync!IInv, Sync!EntriesAreSent, Sync!WrittenIsThere,
              Sync!SyncedIsComplete
  <1>a. /\ Sync!ToSet(Archive) = Files /\ Len(Archive) \in Nat
        /\ \A i \in 1 .. Len(Archive) : Archive[i] \in Files
    BY ArchiveOfFiles
  <1>b. /\ wire \in Nat /\ got \in Nat /\ sent \in Nat /\ got <= wire /\ wire <= sent /\ sent <= Len(Archive)
        /\ build \in Nat /\ build <= MaxBuilds /\ restarts \in Nat /\ restarts <= MaxRestarts
        /\ MaxBuilds \in Nat /\ MaxRestarts \in Nat
    BY <1>a DEF Sync!Assumed
  <1> USE <1>a, <1>b
  <1>1. CASE Sync!LinkCut
    <2>1. wire' \in got .. wire /\ (extractor = "removed" => got < wire')
      BY <1>1 DEF Sync!LinkCut
    <2>2. wire' \in 0 .. Len(Archive) /\ got \in 0 .. wire' /\ wire' <= sent
      BY <2>1
    <2>3. QED
      BY <1>1, <2>1, <2>2 DEF Sync!LinkCut
  <1>2. CASE Sync!RemoveOld
    <2>1. got + 1 \in 1 .. Len(Archive) /\ pod' = [pod EXCEPT ![Archive[got + 1]] = Missing]
      BY <1>2 DEF Sync!RemoveOld
    <2>2. pod' \in [Files -> 0 .. MaxBuilds \cup {Missing}]
      BY <2>1
    <2>3. \A i \in 1 .. got : pod[Archive[i]] = build => pod'[Archive[i]] = build \/ Archive[i] = Archive[got + 1]
      BY <2>1
    <2>4. UNCHANGED <<sync, target, build, sent, werr, stdin, wire, got, hup, app, result, restarts, reset>>
      BY <1>2 DEF Sync!RemoveOld
    <2>5. extractor = "reading" /\ extractor' \in {"removed", "failed"} /\ (extractor' = "removed" => got < wire)
      BY <1>2 DEF Sync!RemoveOld
    <2>6. Sync!TypeOK'
      BY <2>2, <2>4, <2>5
    <2>7. Sync!IInv'
      BY <2>3, <2>4, <2>5
    <2>8. QED
      BY <2>6, <2>7
  <1>3. CASE Sync!WriteNew
    <2>1. UNCHANGED <<sync, target, build, sent, werr, stdin, wire, hup, app, result, restarts, reset>>
      BY <1>3 DEF Sync!WriteNew
    <2>2. CASE extractor' = "failed" /\ UNCHANGED <<pod, got>>
      BY <1>3, <2>1, <2>2 DEF Sync!WriteNew
    <2>3. CASE /\ pod' = [pod EXCEPT ![Archive[got + 1]] = build]
               /\ got' = got + 1 /\ extractor' = "reading"
      <3>1. extractor = "removed" /\ got' \in 1 .. wire /\ got' \in 1 .. Len(Archive)
        BY <1>3, <2>3 DEF Sync!WriteNew
      <3>2. pod' \in [Files -> 0 .. MaxBuilds \cup {Missing}]
        BY <2>3, <3>1
      <3>3. \A i \in 1 .. got' : i \in 1 .. got \/ i = got + 1
        BY <2>3
      <3>4. ~reset => \A i \in 1 .. got' : pod'[Archive[i]] = build
        BY <2>3, <3>1, <3>3
      <3>5. Sync!TypeOK'
        BY <2>1, <2>3, <3>1, <3>2
      <3>6. Sync!IInv'
        BY <2>1, <2>3, <3>1, <3>4
      <3>7. QED
        BY <3>5, <3>6
    <2>4. QED
      BY <1>3, <2>2, <2>3 DEF Sync!WriteNew
  <1>4. CASE Sync!Extracted
    BY <1>4 DEF Sync!Extracted
  <1>5. CASE Sync!Restart
    <2>1. hup /\ hup' = FALSE /\ app' = pod
      BY <1>5 DEF Sync!Restart
    <2>2. UNCHANGED <<sync, target, build, sent, werr, stdin, wire, extractor, got, pod, result,
                      restarts, reset>>
      BY <1>5 DEF Sync!Restart
    <2>3. Sync!TypeOK'
      BY <2>1, <2>2
    <2>4. Sync!IInv'
      BY <2>1, <2>2
    <2>5. QED
      BY <2>3, <2>4
  <1>6. CASE Sync!ContainerRestart
    <2>1. restarts' \in 0 .. MaxRestarts /\ 0 \in 0 .. MaxBuilds
      BY <1>6 DEF Sync!ContainerRestart, Sync!Assumed
    <2>2. pod' \in [Files -> 0 .. MaxBuilds \cup {Missing}]
      BY <1>6, <2>1 DEF Sync!ContainerRestart
    <2>3. Sync!TypeOK'
      BY <1>6, <2>1, <2>2 DEF Sync!ContainerRestart
    <2>4. Sync!IInv'
      BY <1>6 DEF Sync!ContainerRestart
    <2>5. QED
      BY <2>3, <2>4
  <1>7. QED
    BY <1>1, <1>2, <1>3, <1>4, <1>5, <1>6

\* Whatever the files and wherever the link is cut: a cycle that is reported left the
\* whole of its build in the pod, unless the container was restarted since.
THEOREM SyncsAreWhole ==
  ASSUME Sync!Assumed
  PROVE  Sync!Spec => [](Sync!TypeOK /\ ReportedSyncIsWhole)
  <1>1. Sync!TypeOK /\ Sync!IInv /\ [Sync!Next]_(Sync!clusterVars) => (Sync!TypeOK /\ Sync!IInv)'
    <2>1. ASSUME Sync!TypeOK, Sync!IInv, UNCHANGED Sync!clusterVars
          PROVE  Sync!TypeOK' /\ Sync!IInv'
      BY <2>1 DEF Sync!clusterVars, Sync!TypeOK, Sync!IInv, Sync!EntriesAreSent,
                  Sync!WrittenIsThere, Sync!SyncedIsComplete
    <2>2. ASSUME Sync!TypeOK, Sync!IInv, Sync!Next PROVE Sync!TypeOK' /\ Sync!IInv'
      BY <2>2, SenderStep, PodStep DEF Sync!Next
    <2>3. QED
      BY <2>1, <2>2
  <1>2. ASSUME Sync!TypeOK, Sync!IInv PROVE ReportedSyncIsWhole
    <2>1. SUFFICES ASSUME sync = "watch", result = "synced", ~reset
                   PROVE  (\A f \in DOMAIN pod : pod[f] = build) /\ (hup \/ app = pod)
      BY DEF ReportedSyncIsWhole, Sync!ReportedSyncIsWhole
    <2>2. extractor = "ok" /\ got = Len(Archive) /\ DOMAIN pod = Files
      BY <1>2, <2>1, ArchiveOfFiles DEF Sync!IInv, Sync!SyncedIsComplete, Sync!TypeOK
    <2>3. QED
      BY <1>2, <2>1, <2>2, ArchiveOfFiles DEF Sync!IInv, Sync!WrittenIsThere, Files
  <1>3. QED
    BY <1>1, <1>2, SyncInit, PTL DEF Sync!Spec

-----------------------------------------------------------------------------
(* pokkum-static *)

\* The clients whose request is at one of these places, and how many.
Among(S) == {c \in Clients : at[c] \in S}
Count(S) == Cardinality(Among(S))
Places == {"idle", "open", "count", "store", "add", "serve"}

LEMMA ClientsAreFinite ==
  ASSUME Server!Assumed
  PROVE  /\ IsFiniteSet(Clients) /\ IsFiniteSet(Dirs)
         /\ Cardinality(Clients) \in Nat /\ Cardinality(Dirs) \in Nat
         /\ \A S : Server!Cardinality(S) = Cardinality(S)
  <1>1. \A S : /\ Server!IsFiniteSet(S) <=> IsFiniteSet(S)
               /\ Server!Cardinality(S) = Cardinality(S)
    BY DEF Server!IsFiniteSet, IsFiniteSet, Server!Cardinality, Cardinality
  <1>2. IsFiniteSet(Clients) /\ IsFiniteSet(Dirs)
    BY <1>1 DEF Server!Assumed
  <1>3. QED
    BY <1>1, <1>2, FS_CardinalityType, Zenon

LEMMA CountIsANumber ==
  ASSUME Server!Assumed, NEW S
  PROVE  IsFiniteSet(Among(S)) /\ Count(S) \in Nat /\ Count(S) <= Cardinality(Clients)
  <1>1. IsFiniteSet(Clients) /\ Among(S) \subseteq Clients
    BY ClientsAreFinite DEF Among
  <1>2. IsFiniteSet(Among(S)) /\ Cardinality(Among(S)) <= Cardinality(Clients)
    BY <1>1, FS_Subset, Zenon
  <1>3. QED
    BY <1>2, FS_CardinalityType, Zenon DEF Count

\* A request that moves is counted at its new place and no longer at its old one.
LEMMA CountMoves ==
  ASSUME Server!Assumed, at \in [Clients -> Places], NEW c \in Clients, NEW w \in Places,
         at' = [at EXCEPT ![c] = w], NEW S
  PROVE  /\ at' \in [Clients -> Places]
         /\ Count(S)' = Count(S) + (IF w \in S THEN 1 ELSE 0) - (IF at[c] \in S THEN 1 ELSE 0)
  <1> DEFINE Others == {x \in Clients \ {c} : at[x] \in S}
  <1>1. IsFiniteSet(Others) /\ Cardinality(Others) \in Nat
    <2>1. IsFiniteSet(Clients) /\ Others \subseteq Clients
      BY ClientsAreFinite
    <2>2. IsFiniteSet(Others)
      BY <2>1, FS_Subset, Zenon
    <2>3. QED
      BY <2>2, FS_CardinalityType, Zenon
  <1>2. Cardinality(Others \cup {c}) = Cardinality(Others) + 1
    <2>1. c \notin Others
      OBVIOUS
    <2>2. QED
      BY <1>1, <2>1, FS_AddElement
  <1>3. /\ Among(S) = IF at[c] \in S THEN Others \cup {c} ELSE Others
        /\ Among(S)' = IF w \in S THEN Others \cup {c} ELSE Others
    BY DEF Among
  <1>4. /\ Count(S) = Cardinality(Others) + IF at[c] \in S THEN 1 ELSE 0
        /\ Count(S)' = Cardinality(Others) + IF w \in S THEN 1 ELSE 0
    <2> HIDE DEF Others
    <2>1. QED
      BY <1>1, <1>2, <1>3 DEF Count
  <1> HIDE DEF Others
  <1>5. QED
    BY <1>1, <1>4

\* What the invariant says of the handles, in these counts.
HandlesAdd ==
  /\ at \in [Clients -> Places] /\ cachedDirs \subseteq Dirs /\ dirCount \in Nat
  /\ extra = Count({"store"})
  /\ dirCount = Cardinality(cachedDirs) - Count({"add"})
  /\ dirCount + Count({"store", "add"}) < maxHandles + Cardinality(Clients)

LEMMA HandlesAreCounted ==
  ASSUME Server!Assumed
  PROVE  /\ HandlesAdd => /\ dirCount \in 0 .. Cardinality(Dirs) /\ extra \in Nat
                          /\ Server!HandlesAreBounded /\ Server!PassedTheBound
         /\ Server!TypeOK /\ Server!HandlesAreBounded /\ Server!PassedTheBound => HandlesAdd
  <1>1. /\ {c \in Clients : at[c] = "store"} = Among({"store"})
        /\ {c \in Clients : at[c] = "add"} = Among({"add"})
        /\ {c \in Clients : at[c] \in {"store", "add"}} = Among({"store", "add"})
    BY DEF Among
  <1>2. /\ Server!HandlesAreBounded <=>
             /\ Cardinality(cachedDirs) < maxHandles + Cardinality(Clients)
             /\ extra = Count({"store"})
             /\ dirCount = Cardinality(cachedDirs) - Count({"add"})
        /\ Server!PassedTheBound <=>
             dirCount + Count({"store", "add"}) < maxHandles + Cardinality(Clients)
    BY SMTT(60), <1>1, ClientsAreFinite DEF Server!HandlesAreBounded, Server!PassedTheBound, Count
  <1>3. /\ Count({"store"}) \in Nat /\ Count({"add"}) \in Nat /\ Count({"store", "add"}) \in Nat
        /\ Count({"add"}) <= Count({"store", "add"})
    <2>1. Among({"add"}) \subseteq Among({"store", "add"})
      BY DEF Among
    <2>2. IsFiniteSet(Among({"store", "add"}))
      BY CountIsANumber
    <2>3. Cardinality(Among({"add"})) <= Cardinality(Among({"store", "add"}))
      BY <2>1, <2>2, FS_Subset, Zenon
    <2>4. QED
      BY <2>3, CountIsANumber DEF Count
  <1>4. ASSUME cachedDirs \subseteq Dirs
        PROVE  /\ Cardinality(cachedDirs) \in Nat /\ Cardinality(cachedDirs) <= Cardinality(Dirs)
    <2>1. IsFiniteSet(Dirs)
      BY ClientsAreFinite
    <2>2. IsFiniteSet(cachedDirs) /\ Cardinality(cachedDirs) <= Cardinality(Dirs)
      BY <1>4, <2>1, FS_Subset, Zenon
    <2>3. QED
      BY <2>2, FS_CardinalityType, Zenon
  <1>5. Server!TypeOK => /\ at \in [Clients -> Places] /\ cachedDirs \subseteq Dirs
                         /\ dirCount \in Nat
    BY ClientsAreFinite DEF Server!TypeOK, Places
  <1>6. ASSUME HandlesAdd
        PROVE  /\ dirCount \in 0 .. Cardinality(Dirs) /\ extra \in Nat
               /\ Cardinality(cachedDirs) < maxHandles + Cardinality(Clients)
    BY <1>3, <1>4, <1>6, ClientsAreFinite DEF HandlesAdd, Server!Assumed
  <1>7. QED
    BY <1>2, <1>5, <1>6 DEF HandlesAdd

\* The steps of a request that are about handles keep the counts.
LEMMA HandleStep ==
  ASSUME Server!Assumed, Server!TypeOK, Server!IInv, NEW c \in Clients,
         \/ \E q \in Requests : Server!Ask(c, q)
         \/ Server!openAt(c) \/ Server!cacheDir(c) \/ Server!LoadOrStore(c) \/ Server!AddCount(c)
         \/ Server!Serve(c)
  PROVE  HandlesAdd'
  <1> DEFINE w == at'[c]
  <1>1. HandlesAdd
    BY HandlesAreCounted DEF Server!IInv
  <1>2. /\ w \in Places /\ at' = [at EXCEPT ![c] = w] /\ at[c] # w
        /\ at[c] = "store" <=> Server!LoadOrStore(c)
        /\ at[c] = "add" <=> Server!AddCount(c)
    BY <1>1
    DEF Server!Ask, Server!openAt, Server!cacheDir, Server!LoadOrStore, Server!AddCount,
        Server!Serve, Server!Goto, HandlesAdd, Places
  <1>3. \A S : /\ Count(S)' = Count(S) + (IF w \in S THEN 1 ELSE 0) - (IF at[c] \in S THEN 1 ELSE 0)
               /\ Count(S) \in Nat
    BY <1>1, <1>2, CountMoves, CountIsANumber DEF HandlesAdd
  <1>4. at' \in [Clients -> Places]
    BY <1>1, <1>2 DEF HandlesAdd
  <1>5. CASE at[c] \notin {"store", "add"} /\ w # "store"
    <2>1. w # "add" /\ UNCHANGED <<cachedDirs, dirCount, extra>>
      BY <1>2, <1>5
      DEF Server!Ask, Server!openAt, Server!cacheDir, Server!LoadOrStore, Server!AddCount,
          Server!Serve, Server!Goto, Server!dirVars, Server!TypeOK
    <2>2. UNCHANGED <<Count({"store"}), Count({"add"}), Count({"store", "add"})>>
      BY <1>3, <1>5, <2>1
    <2>3. QED
      BY <1>1, <1>4, <2>1, <2>2 DEF HandlesAdd
  <1>6. CASE at[c] \notin {"store", "add"} /\ w = "store"
    <2>1. Server!cacheDir(c) /\ dirCount \in Nat
      BY <1>1, <1>2, <1>6
      DEF Server!Ask, Server!openAt, Server!LoadOrStore, Server!AddCount, Server!Serve,
          Server!Goto, HandlesAdd
    <2>2. /\ dirCount < maxHandles /\ extra' = extra + 1 /\ UNCHANGED <<cachedDirs, dirCount>>
      BY <1>6, <2>1 DEF Server!cacheDir, Server!Goto, Server!Assumed, Server!TypeOK
    <2>3. /\ Count({"store"})' = Count({"store"}) + 1 /\ Count({"add"})' = Count({"add"})
          /\ Count({"store", "add"})' = Count({"store", "add"}) + 1
      BY <1>3, <1>6
    <2>4. Count({"store", "add"})' <= Cardinality(Clients)
      <3>1. Among({"store", "add"})' \subseteq Clients
        BY DEF Among
      <3>2. IsFiniteSet(Clients)
        BY ClientsAreFinite
      <3>3. Cardinality(Among({"store", "add"})') <= Cardinality(Clients)
        BY <3>1, <3>2, FS_Subset, Zenon
      <3>4. QED
        BY <3>3 DEF Count
    <2>5. QED
      BY <1>1, <1>3, <1>4, <2>2, <2>3, <2>4, ClientsAreFinite DEF HandlesAdd, Server!Assumed
  <1>7. CASE at[c] = "store"
    <2> DEFINE d == dirOf[request[c].path]
    <2>1. d \in Dirs
      BY <1>7 DEF Server!IInv, Server!ServedIsAsked, Server!Assumed, Server!AllRequests
    <2>2. /\ extra' = extra - 1 /\ dirCount' = dirCount
          /\ IF d \in cachedDirs THEN w = "serve" /\ UNCHANGED cachedDirs
                                 ELSE w = "add" /\ cachedDirs' = cachedDirs \cup {d}
      BY <1>2, <1>7 DEF Server!LoadOrStore, Server!Goto, Server!TypeOK
    <2>3. Cardinality(cachedDirs') = Cardinality(cachedDirs) + (IF d \in cachedDirs THEN 0 ELSE 1)
      <3>1. IsFiniteSet(cachedDirs)
        BY <1>1, ClientsAreFinite, FS_Subset DEF HandlesAdd
      <3>2. Cardinality(cachedDirs) \in Nat
        BY <3>1, FS_CardinalityType, Zenon
      <3>3. d \notin cachedDirs => Cardinality(cachedDirs \cup {d}) = Cardinality(cachedDirs) + 1
        BY <3>1, FS_AddElement
      <3>4. cachedDirs' = IF d \in cachedDirs THEN cachedDirs ELSE cachedDirs \cup {d}
        BY <2>2
      <3> HIDE DEF d
      <3>5. QED
        BY <3>2, <3>3, <3>4
    <2>4. Cardinality(cachedDirs) \in Nat
      BY <1>1, ClientsAreFinite, FS_Subset, FS_CardinalityType DEF HandlesAdd
    <2>5. /\ Count({"store"})' = Count({"store"}) - 1
          /\ Count({"add"})' = Count({"add"}) + (IF d \in cachedDirs THEN 0 ELSE 1)
          /\ Count({"store", "add"})' = Count({"store", "add"}) - (IF d \in cachedDirs THEN 1 ELSE 0)
      BY <1>3, <1>7, <2>2
    <2> HIDE DEF d
    <2>6. cachedDirs' \subseteq Dirs
      BY <1>1, <2>1, <2>2 DEF HandlesAdd
    <2>7. QED
      BY <1>1, <1>3, <1>4, <2>2, <2>3, <2>4, <2>5, <2>6, ClientsAreFinite
      DEF HandlesAdd, Server!Assumed
  <1>8. CASE at[c] = "add"
    <2>1. dirCount' = dirCount + 1 /\ w = "serve" /\ UNCHANGED <<cachedDirs, extra>>
      BY <1>2, <1>8 DEF Server!AddCount, Server!Goto, Server!TypeOK
    <2>2. /\ Count({"store"})' = Count({"store"}) /\ Count({"add"})' = Count({"add"}) - 1
          /\ Count({"store", "add"})' = Count({"store", "add"}) - 1
      BY <1>3, <1>8, <2>1
    <2>3. Cardinality(cachedDirs) \in Nat
      BY <1>1, ClientsAreFinite, FS_Subset, FS_CardinalityType DEF HandlesAdd
    <2>4. QED
      BY <1>1, <1>3, <1>4, <2>1, <2>2, <2>3, ClientsAreFinite DEF HandlesAdd, Server!Assumed
  <1>9. QED
    BY <1>5, <1>6, <1>7, <1>8

\* A request: it goes on being one the clients make, and what it gets is of the
\* representation its client has the start of.
LEMMA RequestStep ==
  ASSUME Server!Assumed, Server!TypeOK, Server!IInv, NEW c \in Clients,
         \/ \E q \in Requests : Server!Ask(c, q)
         \/ Server!openAt(c) \/ Server!cacheDir(c) \/ Server!LoadOrStore(c) \/ Server!AddCount(c)
         \/ Server!Serve(c)
  PROVE  Server!TypeOK' /\ Server!IInv'
  <1>1. HandlesAdd'
    BY HandleStep
  <1>2. /\ dirCount' \in 0 .. Cardinality(Dirs) /\ extra' \in Nat
        /\ Server!HandlesAreBounded' /\ Server!PassedTheBound'
    <2>1. (/\ dirCount \in 0 .. Cardinality(Dirs) /\ extra \in Nat
           /\ Server!HandlesAreBounded /\ Server!PassedTheBound)'
      BY <1>1, HandlesAreCounted, PTL
    <2>2. QED
      BY <2>1
  <1> USE DEF Server!Goto, Server!dirVars
  <1>3. server' = server /\ ready' = ready
    BY DEF Server!Ask, Server!openAt, Server!cacheDir, Server!LoadOrStore, Server!AddCount,
           Server!Serve
  <1>4. PICK q \in Server!AllRequests \cup {Server!NoRequest}, w \in Places :
          /\ request' = [request EXCEPT ![c] = q] /\ at' = [at EXCEPT ![c] = w]
          /\ w # "idle" => q \in Requests
          /\ w # "idle" /\ q.range # <<>> /\ q.range[1] > 0 => q.cond = "ifRange"
          /\ q \in Requests \cup {Server!NoRequest}
    <2>1. CASE \E q \in Requests : Server!Ask(c, q)
      BY <2>1 DEF Server!Ask, Server!Assumed, Places
    <2>2. CASE Server!Serve(c)
      BY <2>2 DEF Server!Serve, Places
    <2>3. CASE Server!openAt(c) \/ Server!cacheDir(c) \/ Server!LoadOrStore(c) \/ Server!AddCount(c)
      <3>1. /\ request' = request /\ at[c] # "idle"
            /\ at'[c] \in Places /\ at' = [at EXCEPT ![c] = at'[c]]
        BY <2>3 DEF Server!openAt, Server!cacheDir, Server!LoadOrStore, Server!AddCount, Places,
                    Server!TypeOK
      <3>2. request[c] \in Requests /\ request[c] \in Server!AllRequests
        BY <3>1 DEF Server!IInv, Server!ServedIsAsked, Server!Assumed
      <3>3. request' = [request EXCEPT ![c] = request[c]]
        BY <3>1 DEF Server!TypeOK
      <3>4. QED
        BY <3>1, <3>2, <3>3 DEF Server!IInv, Server!RestNamesTheStart
    <2>4. QED
      BY <2>1, <2>2, <2>3
  <1>5. Server!ServedIsAsked' /\ Server!RestNamesTheStart'
    <2>1. ASSUME NEW x \in Clients, at'[x] # "idle"
          PROVE  /\ request'[x] \in Requests
                 /\ request'[x].range # <<>> /\ request'[x].range[1] > 0 =>
                      request'[x].cond = "ifRange"
      <3>1. CASE x = c
        <4>1. at'[x] = w /\ request'[x] = q
          BY <1>4, <3>1 DEF Server!TypeOK
        <4>2. w # "idle"
          BY <2>1, <4>1
        <4>3. q \in Requests /\ (q.range # <<>> /\ q.range[1] > 0 => q.cond = "ifRange")
          BY <1>4, <4>2, Zenon
        <4> HIDE <1>4
        <4>4. QED
          BY <4>1, <4>3, Zenon
      <3>2. CASE x # c
        <4>1. at'[x] = at[x] /\ request'[x] = request[x]
          BY <1>4, <3>2 DEF Server!TypeOK
        <4>2. QED
          BY <2>1, <4>1 DEF Server!IInv, Server!ServedIsAsked, Server!RestNamesTheStart
      <3>3. QED
        BY <3>1, <3>2
    <2>2. QED
      BY <2>1 DEF Server!ServedIsAsked, Server!RestNamesTheStart
  <1>6. /\ request' \in [Clients -> Requests \cup {Server!NoRequest}]
        /\ at' \in [Clients -> Places]
    BY <1>4 DEF Server!TypeOK, Places
  <1>7. whole' = whole
    <2>1. CASE Server!Serve(c)
      <3> DEFINE a == Server!serveFile(request[c], held[c])
      <3>1. request[c] \in Server!AllRequests /\ at[c] = "serve"
        BY <2>1 DEF Server!Serve, Server!IInv, Server!ServedIsAsked, Server!Assumed
      <3>2. a.status = 206 => /\ a.first = request[c].range[1] /\ request[c].range # <<>>
                              /\ request[c].cond = "ifRange" => a.body = held[c]
        BY DEF Server!serveFile, Server!parseSingleRange
      <3>3. a.status = 206 /\ a.first > 0 => a.body = held[c]
        BY <3>1, <3>2 DEF Server!IInv, Server!RestNamesTheStart
      <3>4. whole' = [whole EXCEPT ![c] = IF a.status = 206 /\ a.first > 0 THEN a.body = held[c] ELSE @]
        BY <2>1 DEF Server!Serve
      <3> HIDE DEF a
      <3>5. whole[c] = TRUE
        BY DEF Server!IInv, Server!ResumedDownloadIsWhole, Server!TypeOK
      <3>6. whole' = [whole EXCEPT ![c] = TRUE]
        BY <3>3, <3>4, <3>5
      <3>7. QED
        BY <3>5, <3>6 DEF Server!TypeOK
    <2>2. CASE ~Server!Serve(c)
      BY <2>2 DEF Server!Ask, Server!openAt, Server!cacheDir, Server!LoadOrStore, Server!AddCount
    <2>3. QED
      BY <2>1, <2>2
  <1>8. Server!TypeOK'
    BY <1>1, <1>2, <1>3, <1>6, <1>7, ClientsAreFinite DEF HandlesAdd, Server!TypeOK, Places
  <1>9. Server!DrainsInOrder' /\ Server!ResumedDownloadIsWhole'
    BY <1>3, <1>7 DEF Server!IInv, Server!DrainsInOrder, Server!ResumedDownloadIsWhole
  <1>10. QED
    BY <1>2, <1>5, <1>8, <1>9 DEF Server!IInv

LEMMA NoHandles ==
  ASSUME Server!Assumed
  PROVE  at = [c \in Clients |-> "idle"] /\ cachedDirs = {} /\ dirCount = 0 /\ extra = 0 => HandlesAdd
  <1>1. SUFFICES ASSUME at = [c \in Clients |-> "idle"], cachedDirs = {}, dirCount = 0, extra = 0
                 PROVE  HandlesAdd
    OBVIOUS
  <1>2. Among({"store"}) = {} /\ Among({"add"}) = {} /\ Among({"store", "add"}) = {}
    BY <1>1 DEF Among
  <1>3. Cardinality({}) = 0
    BY FS_EmptySet
  <1>4. QED
    <2>1. Count({"store"}) = 0 /\ Count({"add"}) = 0 /\ Count({"store", "add"}) = 0
      BY <1>2, <1>3 DEF Count
    <2>2. at \in [Clients -> Places]
      BY <1>1 DEF Places
    <2>3. 0 < maxHandles + Cardinality(Clients)
      BY ClientsAreFinite DEF Server!Assumed
    <2>4. QED
      BY <1>1, <1>3, <2>1, <2>2, <2>3 DEF HandlesAdd

LEMMA ServerInit == Server!Assumed /\ Server!Init => Server!TypeOK /\ Server!IInv
  <1> SUFFICES ASSUME Server!Assumed, Server!Init PROVE Server!TypeOK /\ Server!IInv
    OBVIOUS
  <1>1. /\ dirCount \in 0 .. Cardinality(Dirs) /\ extra \in Nat
        /\ Server!HandlesAreBounded /\ Server!PassedTheBound
    BY NoHandles, HandlesAreCounted DEF Server!Init
  <1>2. Server!TypeOK
    BY <1>1, ClientsAreFinite DEF Server!Init, Server!TypeOK
  <1>3. QED
    BY <1>1, <1>2 DEF Server!Init, Server!IInv, Server!ServedIsAsked, Server!RestNamesTheStart,
                      Server!DrainsInOrder, Server!ResumedDownloadIsWhole

\* main: the drain.
LEMMA DrainStep ==
  ASSUME Server!Assumed, Server!TypeOK, Server!IInv,
         Server!Told \/ Server!Unready \/ Server!Shutdown \/ Server!Exit
  PROVE  Server!TypeOK' /\ Server!IInv'
  <1> USE DEF Server!TypeOK, Server!IInv, Server!ServedIsAsked, Server!RestNamesTheStart,
              Server!DrainsInOrder, Server!ResumedDownloadIsWhole, Server!dirVars
  <1>1. CASE Server!Told \/ Server!Unready \/ Server!Shutdown
    <2>1. UNCHANGED <<request, at, held, whole, cachedDirs, dirCount, extra>>
      BY <1>1 DEF Server!Told, Server!Unready, Server!Shutdown
    <2>2. Server!HandlesAreBounded' /\ Server!PassedTheBound'
      BY <2>1 DEF Server!HandlesAreBounded, Server!PassedTheBound
    <2>3. /\ server' \in {"told", "draining"} /\ ready' \in BOOLEAN
          /\ server' = "draining" => ~ready'
      <3>1. CASE Server!Told
        BY <3>1 DEF Server!Told
      <3>2. CASE Server!Unready
        BY <3>2 DEF Server!Unready
      <3>3. CASE Server!Shutdown
        BY <3>3 DEF Server!Shutdown
      <3>4. QED
        BY <1>1, <3>1, <3>2, <3>3
    <2>4. Server!TypeOK'
      BY <2>1, <2>3
    <2>5. Server!IInv'
      BY <2>1, <2>2, <2>3
    <2>6. QED
      BY <2>4, <2>5
  <1>2. CASE Server!Exit
    <2>1. HandlesAdd'
      <3>1. (at = [c \in Clients |-> "idle"] /\ cachedDirs = {} /\ dirCount = 0 /\ extra = 0)'
        BY <1>2 DEF Server!Exit
      <3>2. QED
        BY <3>1, NoHandles, PTL
    <2>2. (/\ dirCount \in 0 .. Cardinality(Dirs) /\ extra \in Nat
           /\ Server!HandlesAreBounded /\ Server!PassedTheBound)'
      BY <2>1, HandlesAreCounted, PTL
    <2>3. /\ request' = [c \in Clients |-> Server!NoRequest] /\ at' = [c \in Clients |-> "idle"]
          /\ server' = "exited" /\ server = "draining" /\ cachedDirs' = {}
          /\ UNCHANGED <<ready, held, whole>>
      BY <1>2 DEF Server!Exit
    <2>4. QED
      BY <2>2, <2>3, ClientsAreFinite
  <1>3. QED
    BY <1>1, <1>2

\* However many clients and directories there are: no more handles than the bound
\* and one per client less one are kept, and none is lost; the server is unready
\* before it drains; and no resumed download mixes two representations.
THEOREM ServerIsSound ==
  ASSUME Server!Assumed
  PROVE  Server!Spec => [](/\ Server!TypeOK /\ Server!HandlesAreBounded
                           /\ Server!DrainsInOrder /\ Server!ResumedDownloadIsWhole)
  <1>1. Server!TypeOK /\ Server!IInv /\ [Server!Next]_(Server!staticVars)
          => (Server!TypeOK /\ Server!IInv)'
    <2>1. ASSUME Server!TypeOK, Server!IInv, UNCHANGED Server!staticVars
          PROVE  Server!TypeOK' /\ Server!IInv'
      BY <2>1 DEF Server!staticVars, Server!TypeOK, Server!IInv, Server!ServedIsAsked,
                  Server!RestNamesTheStart, Server!PassedTheBound, Server!HandlesAreBounded,
                  Server!DrainsInOrder, Server!ResumedDownloadIsWhole
    <2>2. ASSUME Server!TypeOK, Server!IInv, Server!Next PROVE Server!TypeOK' /\ Server!IInv'
      BY <2>2, RequestStep, DrainStep DEF Server!Next
    <2>3. QED
      BY <2>1, <2>2
  <1>2. Server!IInv =>
          Server!HandlesAreBounded /\ Server!DrainsInOrder /\ Server!ResumedDownloadIsWhole
    BY DEF Server!IInv
  <1>3. QED
    BY <1>1, <1>2, ServerInit, PTL DEF Server!Spec

-----------------------------------------------------------------------------
(* How the programs that run as PID 1 settle their configuration *)

\* What a raw value is, wherever it comes from.
LEMMA Raws ==
  ASSUME Boot!Assumed, Boot!TypeOK
  PROVE  \A e \in {given, flags} : \A s \in DOMAIN e :
    /\ e[s].form \in {"good", "junk", "out", "blank", "empty"}
    /\ s \in {"port", "probe"} => (e[s].form = "good" <=> e[s].val \in Boot!Ports)
    /\ s = "timeout" => e[s].val \in Nat /\ (e[s].form = "good" => e[s].val > 0)
                        /\ (e[s].form = "out" => e[s].val = 0)
    /\ s = "roots" => /\ e[s].form # "junk" /\ (e[s].form = "good" => e[s].val \notin {"relative", "none"})
                      /\ (e[s].form = "out" => e[s].val = "relative")
    /\ s \in {"require", "fallback"} => e[s].form \in {"good", "blank", "empty"}
    /\ s \in {"dev", "version"} => e[s].val \in BOOLEAN /\ (s = "version" => e[s].form = "good")
  BY DEF Boot!Assumed, Boot!TypeOK

LEMMA BootInit == Boot!Init => Boot!TypeOK /\ Boot!IInv
  <1> SUFFICES ASSUME Boot!Init PROVE Boot!TypeOK /\ Boot!IInv
    OBVIOUS
  <1>1. Boot!TypeOK
    BY DEF Boot!Init, Boot!TypeOK
  <1>2. Boot!IInv
    BY DEF Boot!Init, Boot!IInv, Boot!EnvironmentIsIn, Boot!FlagsAreIn, Boot!Validated
  <1>3. QED
    BY <1>1, <1>2

LEMMA ReadsEnvironment ==
  ASSUME Boot!Assumed, Boot!TypeOK, Boot!IInv, Boot!ReadEnvironment
  PROVE  Boot!TypeOK' /\ Boot!IInv'
  <1>1. /\ turn' = "flags" /\ UNCHANGED <<program, given, flags, command>>
        /\ chosen' = [s \in DOMAIN Boot!Default |->
                        IF s \in Boot!Read THEN Boot!envValue(s) ELSE Boot!Default[s]]
        /\ warned' = {s \in Boot!Read : Boot!Told(s, given[s])} \cup (IF chosen'.dev THEN {"dev"} ELSE {})
    BY DEF Boot!ReadEnvironment
  <1>2. chosen'.dev => "dev" \in Boot!Read
    <2>1. "dev" \in DOMAIN Boot!Default /\ Boot!Default["dev"] = FALSE
      BY DEF Boot!Default
    <2>2. chosen'["dev"] = IF "dev" \in Boot!Read THEN Boot!envValue("dev") ELSE FALSE
      BY <1>1, <2>1
    <2>3. QED
      BY <2>2
  <1>3. Boot!TypeOK'
    BY <1>1, <1>2 DEF Boot!TypeOK, Boot!Read, Boot!FromEnvironment, Boot!FromFlags
  <1>4. Boot!EnvironmentIsIn'
    BY <1>1 DEF Boot!EnvironmentIsIn, Boot!Read, Boot!envValue, Boot!Told
  <1>5. Boot!FlagsAreIn' /\ Boot!Validated'
    BY <1>1 DEF Boot!FlagsAreIn, Boot!Validated
  <1>6. QED
    BY <1>3, <1>4, <1>5 DEF Boot!IInv

LEMMA ParsesFlags ==
  ASSUME Boot!Assumed, Boot!TypeOK, Boot!IInv, Boot!ParseFlags
  PROVE  Boot!TypeOK' /\ Boot!IInv'
  <1> DEFINE untyped == {s \in DOMAIN flags \cap {"port", "probe", "timeout"} : flags[s].form \notin {"good", "out"}}
             noLevel == "level" \in DOMAIN flags /\ flags["level"].form # "good"
  <1>1. /\ turn = "flags" /\ UNCHANGED <<program, given, flags, command>>
        /\ turn' \in {"refused", "version", "validate"}
        /\ turn' = "validate" => untyped = {} /\ "version" \notin DOMAIN flags /\ ~noLevel
        /\ turn' = "refused" => DOMAIN flags # {}
    BY DEF Boot!ParseFlags
  <1>2. IF turn' = "validate"
        THEN /\ chosen' = [s \in DOMAIN chosen |-> IF s \in Boot!Overriding THEN flags[s].val ELSE chosen[s]]
             /\ warned' = warned \cup (Boot!Typed \ Boot!Overriding)
        ELSE chosen' = chosen /\ warned' = warned
    BY DEF Boot!ParseFlags
  <1>3. DOMAIN chosen = DOMAIN Boot!Default
    BY DEF Boot!TypeOK
  <1>4. Boot!Overriding \subseteq DOMAIN flags /\ Boot!Typed \subseteq DOMAIN flags
        /\ "dev" \notin DOMAIN flags /\ Boot!Typed \ Boot!Overriding \subseteq {"roots"}
        /\ DOMAIN flags \subseteq DOMAIN Boot!Default \cup {"version"}
    BY DEF Boot!TypeOK, Boot!Overriding, Boot!Typed, Boot!FromFlags, Boot!FromEnvironment, Boot!Default
  <1>5. Boot!TypeOK'
    <2>1. "roots" \in DOMAIN flags => "roots" \in Boot!FromEnvironment(program)
      BY DEF Boot!TypeOK, Boot!FromFlags, Boot!FromEnvironment
    <2>2. DOMAIN chosen' = DOMAIN Boot!Default
      BY <1>2, <1>3
    <2>3. warned' \subseteq Boot!FromEnvironment(program)
      BY <2>1, <1>2, <1>4 DEF Boot!TypeOK
    <2>4. QED
      BY <1>1, <2>2, <2>3 DEF Boot!TypeOK, Boot!FromFlags, Boot!FromEnvironment
  <1>6. Boot!EnvironmentIsIn'
    <2>1. /\ \A s \in DOMAIN Boot!Default :
               chosen[s] = IF s \in Boot!Read THEN Boot!envValue(s) ELSE Boot!Default[s]
          /\ {s \in Boot!Read : Boot!Told(s, given[s])} \subseteq warned
          /\ chosen.dev => "dev" \in warned
      BY <1>1 DEF Boot!IInv, Boot!EnvironmentIsIn
    <2>2. \A s \in DOMAIN Boot!Default : s \notin Boot!Overriding \/ turn' # "validate" => chosen'[s] = chosen[s]
      BY <1>2, <1>3
    <2>3. chosen'.dev = chosen.dev /\ warned \subseteq warned'
      BY <1>2, <1>3, <1>4 DEF Boot!Default
    <2>4. /\ turn' = "refused" \/ turn' = "version" \/ turn' = "validate"
          /\ UNCHANGED <<Boot!Read, Boot!Overriding>> /\ \A s : Boot!envValue(s)' = Boot!envValue(s)
          /\ Boot!Default' = Boot!Default
      BY <1>1 DEF Boot!Read, Boot!Overriding, Boot!Typed, Boot!envValue, Boot!Default
    <2>5. \A s \in DOMAIN Boot!Default :
               turn' \in {"flags", "version"} \/ s \notin Boot!Overriding
                 => chosen'[s] = IF s \in Boot!Read THEN Boot!envValue(s) ELSE Boot!Default[s]
      BY <2>1, <2>2, <2>4
    <2>6. QED
      BY <1>1, <2>1, <2>3, <2>4, <2>5 DEF Boot!EnvironmentIsIn, Boot!Read, Boot!Told
  <1>7. Boot!FlagsAreIn'
    <2>1. turn' = "validate" => \A s \in Boot!Overriding : chosen'[s] = flags[s].val
      BY <1>1, <1>2, <1>3, <1>4
    <2>2. QED
      BY <1>1, <1>2, <2>1 DEF Boot!FlagsAreIn, Boot!Overriding, Boot!Typed
  <1>8. Boot!Validated'
    BY <1>1 DEF Boot!Validated
  <1>9. QED
    BY <1>5, <1>6, <1>7, <1>8 DEF Boot!IInv

LEMMA Validates ==
  ASSUME Boot!TypeOK, Boot!IInv, Boot!Validate
  PROVE  Boot!TypeOK' /\ Boot!IInv'
  <1>1. /\ turn = "validate" /\ UNCHANGED <<program, given, flags, command, chosen>>
        /\ turn' = (IF Boot!validate THEN "runs" ELSE "refused")
        /\ warned' = IF Boot!validate /\ chosen.port = chosen.probe THEN warned \cup {"probe"} ELSE warned
    BY DEF Boot!Validate
  <1>2. Boot!TypeOK'
    BY <1>1 DEF Boot!TypeOK, Boot!FromEnvironment, Boot!FromFlags
  <1>3. Boot!EnvironmentIsIn'
    BY <1>1 DEF Boot!IInv, Boot!EnvironmentIsIn, Boot!Read, Boot!Told, Boot!envValue, Boot!Overriding,
                Boot!Typed
  <1>4. Boot!FlagsAreIn'
    BY <1>1 DEF Boot!IInv, Boot!FlagsAreIn, Boot!Overriding, Boot!Typed
  <1>5. Boot!Validated'
    <2>1. Boot!validate' <=> Boot!validate
      BY <1>1 DEF Boot!validate, Boot!Unmet
    <2>2. QED
      BY <1>1, <2>1 DEF Boot!Validated
  <1>6. QED
    BY <1>2, <1>3, <1>4, <1>5 DEF Boot!IInv

\* What the environment gives, once it has been read.
LEMMA FromTheEnvironment ==
  ASSUME Boot!Assumed, Boot!TypeOK, Boot!IInv, turn # "environment", turn \notin {"flags", "version"}
  PROVE  /\ \A s \in {"port", "probe"} : s \notin Boot!Overriding => chosen[s] \in Boot!Ports
         /\ "timeout" \notin Boot!Overriding => chosen.timeout \in Nat /\ chosen.timeout > 0
         /\ "roots" \notin Boot!Overriding => chosen.roots \notin {"relative", "none"}
                                        \/ ("roots" \in Boot!Read /\ given["roots"].form = "out")
         /\ chosen.dev => /\ "dev" \in Boot!Read /\ given["dev"].form = "good" /\ "dev" \in warned
         /\ program = "pokkum-static" => "timeout" \notin Boot!Overriding
         /\ program = "pokkum-init" => "roots" \notin Boot!Overriding /\ "roots" \notin Boot!Read
  <1>1. \A s \in DOMAIN Boot!Default : s \notin Boot!Overriding =>
          chosen[s] = IF s \in Boot!Read THEN Boot!envValue(s) ELSE Boot!Default[s]
    BY DEF Boot!IInv, Boot!EnvironmentIsIn
  <1>2. /\ DOMAIN Boot!Default = {"level", "port", "probe", "timeout", "require", "dev", "digest",
                                   "ready", "roots", "fallback"}
        /\ Boot!Default["port"] = 3000 /\ Boot!Default["probe"] = 8081 /\ Boot!Default["timeout"] = 30
        /\ Boot!Default["roots"] = "app" /\ Boot!Default["dev"] = FALSE
    BY DEF Boot!Default
  <1>3. /\ Boot!Overriding \subseteq Boot!FromFlags(program) /\ Boot!Read \subseteq Boot!FromEnvironment(program)
    BY DEF Boot!TypeOK, Boot!Overriding, Boot!Typed, Boot!Read
  <1>4. /\ "dev" \notin Boot!Overriding
        /\ program = "pokkum-static" => "timeout" \notin Boot!Overriding
        /\ program = "pokkum-init" => "roots" \notin Boot!Overriding /\ "roots" \notin Boot!Read
    BY <1>3 DEF Boot!FromFlags, Boot!FromEnvironment
  <1>5. \A s \in {"port", "probe", "timeout", "roots", "dev"} : s \in Boot!Read =>
          IF Boot!Usable(s, given[s]) THEN Boot!envValue(s) = given[s].val ELSE Boot!envValue(s) = Boot!Default[s]
    BY DEF Boot!envValue
  <1>6. \A s \in {"port", "probe", "timeout", "dev"} : s \in Boot!Read =>
          (Boot!Usable(s, given[s]) <=> given[s].form = "good")
    BY DEF Boot!Usable
  <1>7. \A s \in {"port", "probe"} : s \notin Boot!Overriding => chosen[s] \in Boot!Ports
    <2>1. 3000 \in Boot!Ports /\ 8081 \in Boot!Ports
      BY DEF Boot!Ports
    <2>2. \A s \in {"port", "probe"} : s \in Boot!Read /\ given[s].form = "good" => given[s].val \in Boot!Ports
      BY Raws DEF Boot!Read
    <2>3. QED
      BY <1>1, <1>2, <1>5, <1>6, <2>1, <2>2
  <1>8. "timeout" \notin Boot!Overriding => chosen.timeout \in Nat /\ chosen.timeout > 0
    <2>1. "timeout" \in Boot!Read /\ given["timeout"].form = "good" =>
            given["timeout"].val \in Nat /\ given["timeout"].val > 0
      BY Raws DEF Boot!Read
    <2>2. QED
      BY <1>1, <1>2, <1>5, <1>6, <2>1
  <1>9. "roots" \notin Boot!Overriding => chosen.roots \notin {"relative", "none"}
                                     \/ ("roots" \in Boot!Read /\ given["roots"].form = "out")
    <2>1. "roots" \in Boot!Read /\ Boot!Usable("roots", given["roots"]) =>
            given["roots"].form = "out" \/ given["roots"].val \notin {"relative", "none"}
      BY Raws DEF Boot!Read, Boot!Usable
    <2>2. QED
      BY <1>1, <1>2, <1>5, <2>1
  <1>10. chosen.dev => /\ "dev" \in Boot!Read /\ given["dev"].form = "good" /\ "dev" \in warned
    <2>1. chosen.dev => "dev" \in warned
      BY DEF Boot!IInv, Boot!EnvironmentIsIn
    <2>2. chosen["dev"] => "dev" \in Boot!Read /\ given["dev"].form = "good"
      BY <1>1, <1>2, <1>4, <1>5, <1>6
    <2>3. QED
      BY <2>1, <2>2
  <1>11. QED
    BY <1>4, <1>7, <1>8, <1>9, <1>10

\* What is promised of a configuration.
LEMMA Promises ==
  ASSUME Boot!Assumed, Boot!TypeOK, Boot!IInv
  PROVE  Boot!EnvironmentNeverStops /\ Boot!IgnoredIsTold /\ Boot!RunsSound
  <1>1. Boot!EnvironmentNeverStops
    <2> SUFFICES ASSUME turn = "refused", flags = <<>>, command = "given"
                 PROVE  IF program = "pokkum-init" THEN Boot!Unmet # {}
                        ELSE \/ chosen.port = chosen.probe
                             \/ "roots" \in Boot!Read /\ given["roots"].form = "out"
      BY DEF Boot!EnvironmentNeverStops
    <2>1. DOMAIN flags = {}
      OBVIOUS
    <2>2. Boot!Overriding = {} /\ ~Boot!validate
      BY <2>1 DEF Boot!Overriding, Boot!Typed, Boot!IInv, Boot!Validated
    <2>3. /\ chosen.port \in Boot!Ports /\ chosen.probe \in Boot!Ports
          /\ chosen.timeout > 0
          /\ chosen.roots \notin {"relative", "none"} \/ ("roots" \in Boot!Read /\ given["roots"].form = "out")
      BY <2>2, FromTheEnvironment
    <2>4. QED
      BY <2>2, <2>3 DEF Boot!validate, Boot!TypeOK
  <1>2. Boot!IgnoredIsTold
    <2> SUFFICES ASSUME turn = "runs", NEW s \in Boot!Read \cup Boot!Typed
                 PROVE  chosen[s] = Boot!Asked(s).val \/ s \in warned \/ s = "dev" \/ Boot!Asked(s).form = "blank"
      BY DEF Boot!IgnoredIsTold
    <2>1. CASE s \in Boot!Typed
      <3>1. Boot!Asked(s) = flags[s]
        BY <2>1 DEF Boot!Asked
      <3>2. QED
        BY <2>1, <3>1 DEF Boot!IInv, Boot!FlagsAreIn
    <2>2. CASE s \notin Boot!Typed
      <3>1. Boot!Asked(s) = given[s] /\ s \in Boot!Read /\ s \notin Boot!Overriding
        BY <2>2 DEF Boot!Asked, Boot!Overriding
      <3>2. s \in DOMAIN Boot!Default
        BY <3>1 DEF Boot!TypeOK, Boot!Read, Boot!FromEnvironment, Boot!Default
      <3>3. chosen[s] = Boot!envValue(s) /\ (Boot!Told(s, given[s]) => s \in warned)
        BY <3>1, <3>2 DEF Boot!IInv, Boot!EnvironmentIsIn
      <3>4. QED
        BY <3>1, <3>3 DEF Boot!envValue, Boot!Told
    <2>3. QED
      BY <2>1, <2>2
  <1>3. Boot!RunsSound
    <2> SUFFICES ASSUME turn = "runs"
                 PROVE  /\ \A s \in DOMAIN flags : flags[s].form \in {"good", "blank", "empty"}
                        /\ chosen.timeout > 0 /\ {chosen.port, chosen.probe} \subseteq Boot!Ports
                        /\ chosen.roots \notin {"relative", "none"}
                        /\ chosen.dev => "dev" \in DOMAIN given /\ given["dev"].form = "good" /\ "dev" \in warned
                        /\ chosen.port = chosen.probe => program = "pokkum-init" /\ "probe" \in warned
                        /\ program = "pokkum-init" => chosen.require \subseteq DOMAIN given
      BY DEF Boot!RunsSound
    <2>1. Boot!validate /\ (chosen.port = chosen.probe => "probe" \in warned)
      BY DEF Boot!IInv, Boot!Validated
    <2>2. /\ \A s \in Boot!Overriding : chosen[s] = flags[s].val
          /\ "version" \notin DOMAIN flags
          /\ \A s \in DOMAIN flags \cap {"port", "probe", "timeout"} : flags[s].form \in {"good", "out"}
          /\ "level" \in DOMAIN flags => flags["level"].form = "good"
      BY DEF Boot!IInv, Boot!FlagsAreIn
    <2>3. /\ {chosen.port, chosen.probe} \subseteq Boot!Ports
          /\ program = "pokkum-init" => chosen.timeout > 0 /\ Boot!Unmet = {}
          /\ program = "pokkum-static" => chosen.port # chosen.probe /\ chosen.roots \notin {"relative", "none"}
          /\ program \in {"pokkum-init", "pokkum-static"}
      BY <2>1 DEF Boot!validate, Boot!TypeOK
    <2>4. /\ program = "pokkum-static" => chosen.timeout > 0
          /\ program = "pokkum-init" => chosen.roots \notin {"relative", "none"}
          /\ chosen.dev => "dev" \in DOMAIN given /\ given["dev"].form = "good" /\ "dev" \in warned
      BY FromTheEnvironment DEF Boot!Read
    <2>5. program = "pokkum-init" => chosen.require \subseteq DOMAIN given
      BY <2>3 DEF Boot!Unmet
    <2>6. ASSUME NEW s \in DOMAIN flags
          PROVE  flags[s].form \in {"good", "blank", "empty"}
      <3>1. s \in {"level", "port", "probe", "timeout", "require", "roots", "fallback"}
            /\ (s = "timeout" => program = "pokkum-init")
            /\ (s = "roots" => program = "pokkum-static")
        BY <2>2 DEF Boot!TypeOK, Boot!FromFlags, Boot!FromEnvironment
      <3>2. CASE s \in {"port", "probe", "timeout", "roots"}
        <4>1. s # "roots" \/ flags[s].form \notin {"blank", "empty"} => chosen[s] = flags[s].val
          BY <2>2, <3>2 DEF Boot!Overriding, Boot!Typed
        <4>2. CASE flags[s].form = "out"
          BY <4>1, <4>2, <2>3, <3>1, <3>2, Raws
        <4>3. QED
          BY <4>2, <3>1, <3>2, <2>2, Raws
      <3>3. CASE s \in {"level", "require", "fallback"}
        BY <3>3, <2>2, Raws
      <3>4. QED
        BY <3>1, <3>2, <3>3
    <2>7. QED
      BY <2>1, <2>3, <2>4, <2>5, <2>6
  <1>4. QED
    BY <1>1, <1>2, <1>3

\* Whatever is set and typed: with no flag nothing but a missing requirement, or a
\* root or a port that is read before it is judged, keeps a container from
\* starting; what is ignored is told; and nothing that runs was set up wrong.
THEOREM ConfigurationIsHonest ==
  ASSUME Boot!Assumed
  PROVE  Boot!Spec => [](/\ Boot!TypeOK /\ Boot!EnvironmentNeverStops
                         /\ Boot!IgnoredIsTold /\ Boot!RunsSound)
  <1>1. Boot!TypeOK /\ Boot!IInv /\ [Boot!Next]_(Boot!startupVars) => (Boot!TypeOK /\ Boot!IInv)'
    <2>1. ASSUME Boot!TypeOK, Boot!IInv, UNCHANGED Boot!startupVars
          PROVE  Boot!TypeOK' /\ Boot!IInv'
      <3>1. UNCHANGED <<program, given, flags, command, turn, chosen, warned>>
        BY <2>1 DEF Boot!startupVars
      <3>2. Boot!TypeOK'
        BY <2>1, <3>1 DEF Boot!TypeOK, Boot!FromEnvironment, Boot!FromFlags
      <3>3. Boot!EnvironmentIsIn'
        BY <2>1, <3>1 DEF Boot!IInv, Boot!EnvironmentIsIn, Boot!Read, Boot!Told, Boot!envValue,
                          Boot!Overriding, Boot!Typed
      <3>4. Boot!FlagsAreIn' /\ Boot!Validated'
        BY <2>1, <3>1 DEF Boot!IInv, Boot!FlagsAreIn, Boot!Overriding, Boot!Typed, Boot!Validated,
                          Boot!validate, Boot!Unmet
      <3>5. QED
        BY <3>2, <3>3, <3>4 DEF Boot!IInv
    <2>2. ASSUME Boot!TypeOK, Boot!IInv, Boot!Next PROVE Boot!TypeOK' /\ Boot!IInv'
      BY <2>2, ReadsEnvironment, ParsesFlags, Validates DEF Boot!Next
    <2>3. QED
      BY <2>1, <2>2
  <1>2. Boot!TypeOK /\ Boot!IInv =>
          Boot!EnvironmentNeverStops /\ Boot!IgnoredIsTold /\ Boot!RunsSound
    BY Promises
  <1>3. QED
    BY <1>1, <1>2, BootInit, PTL DEF Boot!Spec

\* The static server keeps its promises and was configured as its image and its
\* operator say.
THEOREM ServersAreHonest ==
  ASSUME Server!Assumed, Boot!Assumed
  PROVE  Server!Spec /\ Boot!Spec => []ServerIsHonest
  <1>1. Server!Spec => [](/\ Server!TypeOK /\ Server!HandlesAreBounded
                          /\ Server!DrainsInOrder /\ Server!ResumedDownloadIsWhole)
    BY ServerIsSound
  <1>2. Boot!Spec => [](/\ Boot!TypeOK /\ Boot!EnvironmentNeverStops
                        /\ Boot!IgnoredIsTold /\ Boot!RunsSound)
    BY ConfigurationIsHonest
  <1>3. QED
    BY <1>1, <1>2, PTL DEF ServerIsHonest

-----------------------------------------------------------------------------
(* pokkum deploy *)

\* A finite set with an element more, or one for another, is finite.
LEMMA FiniteWithOne ==
  ASSUME NEW S, IsFiniteSet(S), NEW x, NEW y
  PROVE  IsFiniteSet(S \cup {x}) /\ IsFiniteSet((S \ {y}) \cup {x})
  <1>1. IsFiniteSet({x})
    BY FS_Singleton, Zenon
  <1>2. IsFiniteSet(S \ {y})
    BY FS_Difference, Zenon
  <1>3. QED
    BY <1>1, <1>2, FS_Union, Zenon

\* A rollout that is queued is one that the platform lists.
LEMMA Queued ==
  ASSUME Ship!Assumed, Ship!TypeOK, NEW c \in Deploys, Ship!Queue(c)
  PROVE  /\ rows \subseteq rows' /\ rows' \subseteq Ship!Row /\ Ship!IsFiniteSet(rows')
         /\ \E r \in rows' : r.by = c
  <1> DEFINE row == [by |-> c, of |-> ref[c], image |-> deployed, status |-> "idle",
                     created |-> Cardinality(rows) + 1]
  <1>1. IsFiniteSet(rows)
    BY DEF Ship!TypeOK, Ship!IsFiniteSet, IsFiniteSet
  <1>2. Cardinality(rows) \in Nat
    BY <1>1, FS_CardinalityType, Zenon
  <1>3. Ship!Cardinality(rows) = Cardinality(rows)
    BY DEF Ship!Cardinality, Cardinality
  <1>4. Cardinality(rows) < MaxRows /\ rows' = rows \cup {row}
    BY <1>3 DEF Ship!Queue
  <1>5. row \in Ship!Row
    BY <1>2, <1>4 DEF Ship!TypeOK, Ship!Row, Ship!Assumed
  <1>6. IsFiniteSet(rows \cup {row})
    BY <1>1, FiniteWithOne
  <1>7. row \in rows' /\ row.by = c
    BY <1>4
  <1> HIDE DEF row
  <1>8. Ship!IsFiniteSet(rows')
    BY <1>4, <1>6 DEF Ship!IsFiniteSet, IsFiniteSet
  <1>9. QED
    BY <1>4, <1>5, <1>7, <1>8 DEF Ship!TypeOK

\* What the platform lists stays listed while it is worked on.
LEMMA Progresses ==
  ASSUME Ship!TypeOK, NEW r \in rows, Ship!Progress(r)
  PROVE  /\ rows' \subseteq Ship!Row /\ Ship!IsFiniteSet(rows')
         /\ \A q \in rows : \E p \in rows' : p.by = q.by /\ p.of = q.of
  <1>1. PICK s \in {"running", "done", "error"} : rows' = (rows \ {r}) \cup {[r EXCEPT !.status = s]}
    BY DEF Ship!Progress
  <1>2. r \in Ship!Row
    BY DEF Ship!TypeOK
  <1>3. /\ [r EXCEPT !.status = s] \in Ship!Row
        /\ [r EXCEPT !.status = s].by = r.by /\ [r EXCEPT !.status = s].of = r.of
    BY <1>2 DEF Ship!Row
  <1>4. IsFiniteSet(rows)
    BY DEF Ship!TypeOK, Ship!IsFiniteSet, IsFiniteSet
  <1>5. IsFiniteSet(rows')
    BY <1>1, <1>4, FiniteWithOne
  <1>6. Ship!IsFiniteSet(rows')
    BY <1>5 DEF Ship!IsFiniteSet, IsFiniteSet
  <1>7. QED
    BY <1>1, <1>3, <1>6 DEF Ship!TypeOK

LEMMA DeployInit ==
  ASSUME Ship!Assumed
  PROVE  Ship!Init => Ship!TypeOK /\ Ship!IInv
  <1> SUFFICES ASSUME Ship!Init PROVE Ship!TypeOK /\ Ship!IInv
    OBVIOUS
  <1>1. (CHOOSE x \in Configs : TRUE) \in Ship!Config
    BY DEF Ship!Assumed
  <1>2. IsFiniteSet({})
    BY FS_EmptySet
  <1>3. Ship!IsFiniteSet(rows)
    BY <1>2 DEF Ship!Init, Ship!IsFiniteSet, IsFiniteSet
  <1>4. Ship!TypeOK
    BY <1>1, <1>3 DEF Ship!Init, Ship!TypeOK
  <1>5. Ship!IInv
    BY DEF Ship!Init, Ship!IInv, Ship!SavesAreAskedFor, Ship!ReportedIsRollingOut, Ship!CredentialsAreKept
  <1>6. QED
    BY <1>4, <1>5

LEMMA CommandStep ==
  ASSUME Ship!Assumed, Ship!TypeOK, Ship!IInv, NEW c \in Deploys,
         \/ Ship!Start(c) \/ Ship!AutoDeploy(c) \/ Ship!Resolve(c) \/ Ship!Check(c)
         \/ Ship!saveDockerProvider(c) \/ Ship!triggerDeploy(c) \/ Ship!confirmRollout(c) \/ Ship!Rebuild(c)
  PROVE  Ship!TypeOK' /\ Ship!IInv'
  <1> USE DEF Ship!IInv, Ship!SavesAreAskedFor, Ship!ReportedIsRollingOut, Ship!CredentialsAreKept,
              Ship!Goto, Ship!platformVars, Ship!TypeOK
  <1>1. CASE Ship!Start(c) \/ Ship!AutoDeploy(c)
    <2>1. PICK k \in Configs, r \in Refs \cup {NoRef}, stop \in {"failed", "resolve"} :
            /\ cfg' = [cfg EXCEPT ![c] = k] /\ ref' = [ref EXCEPT ![c] = r]
            /\ deploying' = [deploying EXCEPT ![c] = stop] /\ toClear' = (toClear \/ Ship!Destructive(k))
            /\ UNCHANGED <<deployed, secrets, rows>>
      BY <1>1 DEF Ship!Start, Ship!AutoDeploy
    <2>2. k \in Ship!Config
      BY DEF Ship!Assumed
    <2>3. Ship!Destructive(k) \in BOOLEAN
      BY DEF Ship!Destructive
    <2>4. Ship!TypeOK'
      BY <2>1, <2>2, <2>3 DEF Ship!IsFiniteSet
    <2>5. Ship!SavesAreAskedFor'
      BY <2>1, <2>3 DEF Ship!Destructive, Ship!UpdateImage
    <2>6. QED
      BY <2>1, <2>4, <2>5
  <1>2. CASE Ship!Resolve(c) \/ Ship!Check(c)
    <2>1. PICK stop \in {"failed", "rebuild", "save", "trigger"} :
            /\ deploying' = [deploying EXCEPT ![c] = stop]
            /\ stop = "save" => Ship!UpdateImage(cfg[c])
      BY <1>2 DEF Ship!Resolve, Ship!Check
    <2>2. /\ deploying[c] # "off"
          /\ UNCHANGED <<deployed, secrets, rows, cfg, env, ref, toClear>>
      BY <1>2 DEF Ship!Resolve, Ship!Check
    <2>3. Ship!TypeOK'
      BY <2>1, <2>2 DEF Ship!IsFiniteSet
    <2>4. Ship!SavesAreAskedFor'
      BY <2>1, <2>2 DEF Ship!Destructive, Ship!UpdateImage
    <2>5. QED
      BY <2>1, <2>2, <2>3, <2>4
  <1>3. CASE Ship!saveDockerProvider(c)
    <2>1. cfg[c] \in Ship!Config /\ ref[c] \in Refs \cup {NoRef}
      OBVIOUS
    <2>2. ~cfg[c].userEnv => toClear
      BY <1>3 DEF Ship!saveDockerProvider, Ship!Destructive, Ship!UpdateImage
    <2>3. cfg[c].userEnv \in BOOLEAN
      BY <2>1 DEF Ship!Config
    <2>4. QED
      BY <1>3, <2>1, <2>2, <2>3
      DEF Ship!saveDockerProvider, Ship!Destructive, Ship!UpdateImage, Ship!IsFiniteSet
  <1>4. CASE Ship!triggerDeploy(c) \/ Ship!Rebuild(c)
    <2>1. PICK stop \in {"done", "confirm", "failed"} :
            /\ deploying' = [deploying EXCEPT ![c] = stop] /\ UNCHANGED <<deployed, secrets, cfg, ref, toClear>>
            /\ Ship!Queue(c) \/ (UNCHANGED rows /\ stop # "done")
      BY <1>4 DEF Ship!triggerDeploy, Ship!Rebuild
    <2>2. /\ rows \subseteq rows' /\ rows' \subseteq Ship!Row /\ Ship!IsFiniteSet(rows')
          /\ stop = "done" => \E r \in rows' : r.by = c
      BY <2>1, Queued DEF Ship!IsFiniteSet
    <2>3. deploying[c] \in {"trigger", "rebuild"}
      BY <1>4 DEF Ship!triggerDeploy, Ship!Rebuild
    <2>4. Ship!TypeOK' /\ Ship!SavesAreAskedFor' /\ Ship!CredentialsAreKept'
      BY <2>1, <2>2, <2>3 DEF Ship!Destructive, Ship!UpdateImage
    <2>5. Ship!ReportedIsRollingOut'
      BY <2>1, <2>2
    <2>6. QED
      BY <2>4, <2>5
  <1>5. CASE Ship!confirmRollout(c)
    BY <1>5 DEF Ship!confirmRollout, Ship!deploymentFor, Ship!Destructive, Ship!UpdateImage, Ship!IsFiniteSet
  <1>6. QED
    BY <1>1, <1>2, <1>3, <1>4, <1>5

LEMMA PlatformStep ==
  ASSUME Ship!TypeOK, Ship!IInv, NEW r \in rows, Ship!Progress(r)
  PROVE  Ship!TypeOK' /\ Ship!IInv'
  <1>1. UNCHANGED <<deployed, secrets, deploying, cfg, env, ref, toClear>>
    BY DEF Ship!Progress
  <1>2. Ship!TypeOK'
    BY <1>1, Progresses DEF Ship!TypeOK
  <1>3. Ship!SavesAreAskedFor' /\ Ship!CredentialsAreKept'
    BY <1>1 DEF Ship!IInv, Ship!SavesAreAskedFor, Ship!CredentialsAreKept, Ship!Destructive, Ship!UpdateImage
  <1>4. Ship!ReportedIsRollingOut'
    BY <1>1, Progresses DEF Ship!IInv, Ship!ReportedIsRollingOut
  <1>5. QED
    BY <1>2, <1>3, <1>4 DEF Ship!IInv

\* A configuration that the validation accepts is refused for nothing but a
\* variable that is not set or an image that is not named.
LEMMA ValidDeploys == Ship!TypeOK => Ship!ValidIsDeployable
  <1> SUFFICES ASSUME NEW k \in Ship!Config, Ship!ValidateDeployConfig(k),
                      NEW set, set = Ship!Variables, NEW r, ~(Ship!UpdateImage(k) /\ r = NoRef)
               PROVE  Ship!ResolveDeployRequest(k, set, r)
    BY DEF Ship!TypeOK, Ship!ValidIsDeployable
  <1>1. Ship!Needed(k) \subseteq set
    BY DEF Ship!Needed, Ship!Variables
  <1>2. Ship!Endpoint(k, set) = "url"
    BY DEF Ship!Endpoint, Ship!Variables, Ship!ValidateDeployConfig, Ship!Config, Ship!Blank
  <1>3. QED
    BY <1>1, <1>2 DEF Ship!ResolveDeployRequest, Ship!ValidateDeployConfig, Ship!UpdateImage

\* However many commands there are, whatever they are configured with and whichever
\* replies are lost: a rollout that is reported is one the platform has, of that
\* command or of the image it names; an application loses its credentials only to
\* an operator who was told; and a valid configuration can be deployed.
THEOREM RolloutsAreReal ==
  ASSUME Ship!Assumed
  PROVE  Ship!Spec => [](/\ Ship!TypeOK /\ Ship!ReportedIsRollingOut /\ Ship!CredentialsAreKept
                         /\ Ship!ValidIsDeployable)
  <1>1. Ship!TypeOK /\ Ship!IInv /\ [Ship!Next]_<<Ship!platformVars, deploying, cfg, env, ref, toClear>>
          => (Ship!TypeOK /\ Ship!IInv)'
    <2>1. ASSUME Ship!TypeOK, Ship!IInv,
                 UNCHANGED <<Ship!platformVars, deploying, cfg, env, ref, toClear>>
          PROVE  Ship!TypeOK' /\ Ship!IInv'
      BY <2>1 DEF Ship!platformVars, Ship!TypeOK, Ship!IInv, Ship!SavesAreAskedFor, Ship!UpdateImage,
                  Ship!Destructive, Ship!ReportedIsRollingOut, Ship!CredentialsAreKept, Ship!IsFiniteSet
    <2>2. ASSUME Ship!TypeOK, Ship!IInv, Ship!Next PROVE Ship!TypeOK' /\ Ship!IInv'
      BY <2>2, CommandStep, PlatformStep DEF Ship!Next
    <2>3. QED
      BY <2>1, <2>2
  <1>2. Ship!IInv => Ship!ReportedIsRollingOut /\ Ship!CredentialsAreKept
    BY DEF Ship!IInv
  <1>3. QED
    BY <1>1, <1>2, DeployInit, ValidDeploys, PTL DEF Ship!Spec

-----------------------------------------------------------------------------
(* Signatures and trust roots *)

\* A set of natural numbers has a least one.
LEMMA LeastOf ==
  ASSUME NEW T \in SUBSET Nat, T # {}
  PROVE  \E x \in T : \A y \in T : x <= y
  <1> DEFINE R == {ss \in Nat \X Nat : ss[1] < ss[2]}
  <1>1. IsWellFoundedOn(R, Nat)
    BY NatLessThanWellFounded DEF OpToRel
  <1>2. PICK x \in T : \A y \in T : ~ (<<y, x>> \in R)
    <2> HIDE DEF R
    <2>1. QED
      BY <1>1, WFMin
  <1>3. x \in Nat
    OBVIOUS
  <1>4. ASSUME NEW y \in T
        PROVE  x <= y
    <2>1. ~ (<<y, x>> \in R)
      <3> HIDE DEF R
      <3>1. QED
        BY <1>2
    <2>2. y \in Nat /\ <<y, x>> \in Nat \X Nat
      BY <1>3
    <2>3. ~ (<<y, x>>[1] < <<y, x>>[2])
      BY <2>1, <2>2
    <2>4. QED
      BY <2>2, <2>3, <1>3
  <1>5. QED
    <2> HIDE DEF R
    <2>1. QED
      BY <1>3, <1>4

\* The first of the keys that are set is the one that is used.
LEMMA FirstThatIsSet ==
  ASSUME NEW n \in Nat, NEW set \in SUBSET (1 .. n), set # {}
  PROVE  LET first == CHOOSE i \in set : \A h \in set : i <= h
         IN first \in set /\ \A h \in 1 .. first - 1 : h \in 1 .. n \ set
  <1> DEFINE first == CHOOSE i \in set : \A h \in set : i <= h
  <1>1. set \in SUBSET Nat
    OBVIOUS
  <1>2. first \in set /\ \A h \in set : first <= h
    BY <1>1, LeastOf
  <1>3. first \in 1 .. n
    BY <1>2
  <1> HIDE DEF first
  <1>4. \A h \in 1 .. first - 1 : h \in 1 .. n /\ ~(first <= h)
    BY <1>3
  <1>5. \A h \in 1 .. first - 1 : h \in 1 .. n \ set
    BY <1>2, <1>4
  <1>6. QED
    BY <1>2, <1>5 DEF first

LEMMA FirstKeyIsFirst ==
  ASSUME NEW keys, NEW n \in Nat, DOMAIN keys = 1 .. n, Evidence!ResolveFirst(keys) # ""
  PROVE  \E i \in DOMAIN keys : /\ keys[i] = Evidence!ResolveFirst(keys)
                                /\ \A h \in 1 .. i - 1 : keys[h] = ""
  <1> DEFINE set == {i \in DOMAIN keys : keys[i] # ""}
             first == CHOOSE i \in set : \A h \in set : i <= h
  <1>1. set # {} /\ Evidence!ResolveFirst(keys) = keys[first]
    BY DEF Evidence!ResolveFirst
  <1>2. set \in SUBSET (1 .. n)
    OBVIOUS
  <1>3. first \in set /\ \A h \in 1 .. first - 1 : h \in 1 .. n \ set
    <2> HIDE DEF set
    <2>1. QED
      BY <1>1, <1>2, FirstThatIsSet
  <1> HIDE DEF first
  <1>4. QED
    BY <1>1, <1>3

\* An embedded root that is not stale holds for the whole of the window.
LEMMA FreshRootHolds ==
  ASSUME Evidence!Assumed, now \in Nat, ~Evidence!Stale("embedded")
  PROVE  \A t \in now .. now + Window :
           /\ \E c \in Anchors["embedded"].cas : Evidence!activeAt(c, t) /\ t <= c.certs
           /\ \E l \in Anchors["embedded"].logs : Evidence!activeAt(l, t)
  <1> DEFINE root == Anchors["embedded"]
  <1>1. /\ \A c \in root.cas : {c.from, c.till, c.certs} \subseteq Nat
        /\ \A l \in root.logs : {l.from, l.till} \subseteq Nat
        /\ Window \in Nat
    BY DEF Evidence!Assumed
  <1>2. /\ ~ \E c \in root.cas : /\ Evidence!activeAt(c, now)
                                 /\ Evidence!expiryProblem(c.till) \/ Evidence!expiryProblem(c.certs)
        /\ \E c \in root.cas : Evidence!activeAt(c, now) /\ ~(now > c.certs)
        /\ ~Evidence!assessLogs(root.logs)
    BY DEF Evidence!Stale, Evidence!assessAnchors
  <1>3. /\ \E l \in root.logs : Evidence!activeAt(l, now)
        /\ \A l \in root.logs : Evidence!activeAt(l, now) => ~Evidence!expiryProblem(l.till)
    BY <1>2 DEF Evidence!assessLogs
  <1> HIDE DEF root
  <1>4. PICK c \in root.cas : Evidence!activeAt(c, now) /\ ~(now > c.certs)
    BY <1>2
  <1>5. PICK l \in root.logs : Evidence!activeAt(l, now)
    BY <1>3
  <1>6. \A t \in now .. now + Window : Evidence!activeAt(c, t) /\ t <= c.certs
    BY <1>1, <1>2, <1>4 DEF Evidence!activeAt, Evidence!expiryProblem
  <1>7. \A t \in now .. now + Window : Evidence!activeAt(l, t)
    BY <1>1, <1>3, <1>5 DEF Evidence!activeAt, Evidence!expiryProblem
  <1>8. QED
    BY <1>6, <1>7 DEF root

\* What was fetched is kept, so what it showed once it shows ever after.
LEMMA EvidenceIsKept ==
  ASSUME \A d \in Evidence!Digests : seen[d] \subseteq seen'[d]
  PROVE  /\ \A d \in Evidence!Digests : Evidence!Layers(d) \subseteq Evidence!Layers(d)'
         /\ \A j : j.digest \in Evidence!Digests =>
              /\ Evidence!ByKey(j) => Evidence!ByKey(j)'
              /\ \A id : Evidence!ByIdentity(j, id) => Evidence!ByIdentity(j, id)'
              /\ Evidence!About(j) \subseteq Evidence!About(j)'
  <1>1. \A d \in Evidence!Digests : Evidence!Layers(d) \subseteq Evidence!Layers(d)'
    BY DEF Evidence!Layers
  <1>2. ASSUME NEW j, j.digest \in Evidence!Digests
        PROVE  /\ Evidence!ByKey(j) => Evidence!ByKey(j)'
               /\ \A id : Evidence!ByIdentity(j, id) => Evidence!ByIdentity(j, id)'
               /\ Evidence!About(j) \subseteq Evidence!About(j)'
    <2>1. Evidence!ByKey(j) => Evidence!ByKey(j)'
      BY <1>1, <1>2 DEF Evidence!ByKey
    <2>2. \A id : Evidence!ByIdentity(j, id) => Evidence!ByIdentity(j, id)'
      BY <1>1, <1>2 DEF Evidence!ByIdentity
    <2>3. Evidence!About(j) \subseteq Evidence!About(j)'
      BY <1>2 DEF Evidence!About, Evidence!Layers
    <2>4. QED
      BY <2>1, <2>2, <2>3
  <1>3. QED
    BY <1>1, <1>2

LEMMA GenuineIsKept ==
  ASSUME Evidence!TypeOK, Evidence!MemoIsEarned, Evidence!EvidenceIsGenuine,
         \A d \in Evidence!Digests : seen[d] \subseteq seen'[d]
  PROVE  /\ memo' = memo => Evidence!MemoIsEarned'
         /\ \A j \in done : j.digest \in Evidence!Digests /\ Evidence!IsSigned(j)'
                            /\ (j.kind = "verify" => Evidence!IsEarned(j)')
                            /\ Evidence!RootHolds(j)'
         /\ done' = done => Evidence!EvidenceIsGenuine'
  <1>1. memo' = memo => Evidence!MemoIsEarned'
    BY EvidenceIsKept DEF Evidence!MemoIsEarned
  <1>2. ASSUME NEW j \in done
        PROVE  j.digest \in Evidence!Digests /\ Evidence!IsSigned(j)'
               /\ (j.kind = "verify" => Evidence!IsEarned(j)') /\ Evidence!RootHolds(j)'
    <2>1. j.digest \in Evidence!Digests
      BY DEF Evidence!TypeOK
    <2>2. Evidence!IsSigned(j)'
      BY <2>1, EvidenceIsKept
      DEF Evidence!EvidenceIsGenuine, Evidence!AcceptedIsSigned, Evidence!IsSigned
    <2>3. j.kind = "verify" => Evidence!IsEarned(j)'
      BY <2>1, EvidenceIsKept
      DEF Evidence!EvidenceIsGenuine, Evidence!VerdictIsEarned, Evidence!IsEarned
    <2>4. Evidence!RootHolds(j)'
      BY DEF Evidence!EvidenceIsGenuine, Evidence!UnwarnedRootHolds, Evidence!RootHolds, Evidence!activeAt
    <2>5. QED
      BY <2>1, <2>2, <2>3, <2>4
  <1>3. done' = done => Evidence!EvidenceIsGenuine'
    BY <1>2 DEF Evidence!EvidenceIsGenuine, Evidence!AcceptedIsSigned, Evidence!VerdictIsEarned,
                Evidence!UnwarnedRootHolds
  <1>4. QED
    BY <1>1, <1>2, <1>3

\* The registry moves a tag or puts something under one: it changes what is
\* found next, and nothing of what was found.
LEMMA RegistryStep ==
  ASSUME Evidence!Assumed, Evidence!TypeOK, Evidence!IInv, Evidence!Registry
  PROVE  Evidence!TypeOK' /\ Evidence!IInv'
  <1>1. /\ UNCHANGED <<now, job, phase, pulls, memo, seen, done>>
        /\ \/ UNCHANGED <<tag, moved>>
           \/ moved' = (moved \/ phase # "idle")
    BY DEF Evidence!Registry, Evidence!Push, Evidence!WriteSig, Evidence!WriteAtt,
           Evidence!resolverVars
  <1>2. writes' \in 0 .. MaxWrites /\ tag' \in Evidence!Digests
    <2>1. MaxWrites \in Nat
      BY DEF Evidence!Assumed
    <2>2. writes < MaxWrites /\ writes' = writes + 1 /\ tag' \in Evidence!Digests
      BY DEF Evidence!Registry, Evidence!Push, Evidence!WriteSig, Evidence!WriteAtt, Evidence!TypeOK
    <2>3. QED
      BY <2>1, <2>2 DEF Evidence!TypeOK
  <1>3. /\ sig' \in [Evidence!Digests -> SigImages \cup {{}}]
        /\ att' \in [Evidence!Digests -> SUBSET Attestations]
    <2>1. ASSUME NEW d \in Evidence!Digests, Evidence!Push(d)
          PROVE  sig' = sig /\ att' = att
      BY <2>1 DEF Evidence!Push
    <2>2. ASSUME NEW d \in Evidence!Digests, NEW img \in SigImages, Evidence!WriteSig(d, img)
          PROVE  sig' \in [Evidence!Digests -> SigImages \cup {{}}] /\ att' = att
      BY <2>2 DEF Evidence!WriteSig, Evidence!TypeOK
    <2>3. ASSUME NEW d \in Evidence!Digests, NEW a \in Attestations, Evidence!WriteAtt(d, a)
          PROVE  sig' = sig /\ att' \in [Evidence!Digests -> SUBSET Attestations]
      <3>1. {a} \in SUBSET Attestations
        OBVIOUS
      <3>2. QED
        BY <2>3, <3>1 DEF Evidence!WriteAtt, Evidence!TypeOK
    <2>4. QED
      BY <2>1, <2>2, <2>3 DEF Evidence!Registry, Evidence!TypeOK
  <1>4. Evidence!TypeOK'
    BY <1>1, <1>2, <1>3 DEF Evidence!TypeOK, Evidence!NoJob
  <1>5. Evidence!JobIsAsked'
    BY <1>1 DEF Evidence!IInv, Evidence!JobIsAsked, Evidence!RootHolds, Evidence!activeAt,
                Evidence!FirstKeyIs
  <1>6. Evidence!MemoIsEarned' /\ Evidence!EvidenceIsGenuine'
    BY <1>1, GenuineIsKept DEF Evidence!IInv
  <1>7. Evidence!FindingsAreEarned'
    <2>1. moved \in BOOLEAN /\ (phase \in Evidence!StepsOf("verify") => phase # "idle")
      BY DEF Evidence!TypeOK, Evidence!StepsOf
    <2>2. \A d \in Evidence!Digests : seen[d] \subseteq seen'[d]
      BY <1>1
    <2>3. phase' \in Evidence!StepsOf("verify") /\ phase' # "verify" /\ ~moved' => job'.digest = tag'
      BY <1>1, <2>1 DEF Evidence!IInv, Evidence!FindingsAreEarned
    <2>4. /\ \A j : Evidence!ByKey(j)' = Evidence!ByKey(j)
          /\ \A j, id : Evidence!ByIdentity(j, id)' = Evidence!ByIdentity(j, id)
          /\ \A j : Evidence!About(j)' = Evidence!About(j)
      BY <1>1 DEF Evidence!ByKey, Evidence!ByIdentity, Evidence!About, Evidence!Layers
    <2>5. QED
      BY <1>1, <2>3, <2>4 DEF Evidence!IInv, Evidence!FindingsAreEarned
  <1>8. QED
    BY <1>4, <1>5, <1>6, <1>7 DEF Evidence!IInv

\* What is asked is asked with a first key and a root.
LEMMA AskStep ==
  ASSUME Evidence!Assumed, Evidence!TypeOK, Evidence!IInv, NEW j \in Jobs, Evidence!Ask(j)
  PROVE  Evidence!TypeOK' /\ Evidence!IInv'
  <1>1. PICK root : job' =
          [kind |-> j.kind, up |-> j.up, mode |-> j.mode, preset |-> j.preset, id |-> j.id,
           keys |-> j.keys, expect |-> j.expect, allow |-> j.allow, rebuilt |-> j.rebuilt,
           root |-> root, warned |-> root = "embedded" /\ Evidence!Stale(root),
           key |-> Evidence!ResolveFirst(j.keys), digest |-> 0, at |-> now,
           signed |-> FALSE, attested |-> FALSE, verdict |-> "", moved |-> FALSE,
           source |-> "", verified |-> FALSE]
    BY DEF Evidence!Ask
  <1>2. /\ phase' = j.kind /\ moved' = FALSE /\ j.kind \in {"base", "cache", "verify"}
        /\ UNCHANGED <<tag, sig, att, now, writes, pulls, memo, seen, done>>
    <2>1. j.kind \in {"base", "cache", "verify"}
      BY DEF Evidence!Assumed, Evidence!CanBeAsked
    <2>2. QED
      BY <2>1 DEF Evidence!Ask, Evidence!registryVars, Evidence!resolverVars
  <1>3. DOMAIN job' = Evidence!Fields
    BY <1>1 DEF Evidence!Fields
  <1>4. job' # Evidence!NoJob
    <2>1. DOMAIN Evidence!NoJob = {"kind"} /\ "up" \in Evidence!Fields
      BY DEF Evidence!NoJob, Evidence!Fields
    <2>2. QED
      BY <1>3, <2>1
  <1>5. Evidence!TypeOK'
    BY <1>2, <1>4 DEF Evidence!TypeOK, Evidence!NoJob
  <1>6. Evidence!RootHolds(job)'
    <2>1. job'.root = root /\ job'.at = now /\ now \in Nat
      BY <1>1 DEF Evidence!TypeOK, Evidence!Assumed
    <2>2. root = "embedded" /\ ~job'.warned => ~Evidence!Stale("embedded")
      BY <1>1
    <2>3. QED
      BY <2>1, <2>2, FreshRootHolds DEF Evidence!RootHolds, Evidence!activeAt
  <1>7. job'.key # "" => Evidence!FirstKeyIs(job'.keys, job'.key)
    <2>1. job'.key = Evidence!ResolveFirst(j.keys) /\ job'.keys = j.keys
      BY <1>1
    <2>2. j.keys \in Seq(STRING)
      BY DEF Evidence!Assumed, Evidence!CanBeAsked
    <2> DEFINE keys == j.keys
    <2>3. Len(keys) \in Nat /\ DOMAIN keys = 1 .. Len(keys)
      BY <2>2
    <2> HIDE DEF keys
    <2>4. Evidence!ResolveFirst(keys) # "" =>
            \E i \in DOMAIN keys : /\ keys[i] = Evidence!ResolveFirst(keys)
                                  /\ \A h \in 1 .. i - 1 : keys[h] = ""
      BY <2>3, FirstKeyIsFirst
    <2>5. QED
      BY <2>1, <2>4 DEF Evidence!FirstKeyIs, keys
  <1>8. Evidence!JobIsAsked'
    <2>1. /\ job'.kind = j.kind /\ job'.up = j.up /\ job'.mode = j.mode /\ job'.preset = j.preset
          /\ job'.verdict = "" /\ ~job'.signed /\ ~job'.attested
      BY <1>1
    <2>2. /\ j.up \in {"up", "fork"}
          /\ j.kind = "base" => j.mode \in Evidence!Modes \cup {"auto"}
                                /\ Preset[j.preset].mode \in Evidence!Modes
      BY DEF Evidence!Assumed, Evidence!CanBeAsked
    <2>3. phase' \in Evidence!StepsOf(job'.kind)
      BY <1>2, <2>1 DEF Evidence!StepsOf
    <2>4. QED
      BY <1>2, <1>3, <1>6, <1>7, <2>1, <2>2, <2>3 DEF Evidence!JobIsAsked
  <1>9. Evidence!MemoIsEarned' /\ Evidence!EvidenceIsGenuine'
    BY <1>2, GenuineIsKept DEF Evidence!IInv
  <1>10. Evidence!FindingsAreEarned'
    BY <1>1, <1>2 DEF Evidence!FindingsAreEarned, Evidence!StepsOf
  <1>11. QED
    BY <1>5, <1>8, <1>9, <1>10 DEF Evidence!IInv

\* What is fetched joins what was fetched; a layer is not an attestation.
LEMMA FetchedIsKept ==
  ASSUME Evidence!Assumed, Evidence!TypeOK, NEW d \in Evidence!Digests, job.digest = d, NEW found,
         Evidence!Fetched(found)
  PROVE  /\ \A e \in Evidence!Digests : seen[e] \subseteq seen'[e]
         /\ DOMAIN seen' = Evidence!Digests /\ found \subseteq seen'[d]
         /\ found = sig[d] => found \subseteq Evidence!Layers(d)'
         /\ found = att[d] => found \subseteq seen'[d] \ Evidence!Layers(d)'
  <1>1. /\ \A e \in Evidence!Digests : seen[e] \subseteq seen'[e]
        /\ DOMAIN seen' = Evidence!Digests /\ found \subseteq seen'[d]
    BY DEF Evidence!Fetched, Evidence!TypeOK
  <1>2. ASSUME found = sig[d] PROVE \A l \in found : "typed" \in DOMAIN l
    BY <1>2 DEF Evidence!TypeOK, Evidence!Assumed
  <1>3. ASSUME found = att[d] PROVE \A a \in found : "typed" \notin DOMAIN a
    BY <1>3 DEF Evidence!TypeOK, Evidence!Assumed
  <1>4. QED
    BY <1>1, <1>2, <1>3 DEF Evidence!Layers

\* A job that ends leaves what is remembered earned if it was earned itself.
LEMMA EndedStep ==
  ASSUME Evidence!TypeOK, Evidence!IInv, NEW j, j = job, NEW how, Evidence!Ended(how),
         \A d \in Evidence!Digests : seen[d] \subseteq seen'[d], DOMAIN seen' = Evidence!Digests,
         UNCHANGED <<tag, sig, att, now, writes, pulls, moved>>,
         memo' = memo \/ Evidence!MemoIsEarned',
         phase # "idle", j.digest \in Evidence!Digests \/ how # "accepted",
         how = "accepted" => Evidence!IsSigned(j)' /\ (j.kind = "verify" => Evidence!IsEarned(j)')
  PROVE  Evidence!TypeOK' /\ Evidence!IInv'
  <1>1. /\ phase' = "idle" /\ job' = Evidence!NoJob
        /\ \/ done' = done
           \/ how = "accepted" /\ done' = done \cup {j}
    BY DEF Evidence!Ended
  <1>2. Evidence!TypeOK'
    <2>1. \A k \in done' : k.digest \in Evidence!Digests
      BY <1>1 DEF Evidence!TypeOK
    <2>2. QED
      BY <1>1, <2>1 DEF Evidence!TypeOK, Evidence!NoJob
  <1>3. Evidence!JobIsAsked' /\ Evidence!FindingsAreEarned'
    BY <1>1 DEF Evidence!JobIsAsked, Evidence!FindingsAreEarned, Evidence!StepsOf
  <1>4. Evidence!MemoIsEarned'
    BY GenuineIsKept DEF Evidence!IInv
  <1>5. Evidence!EvidenceIsGenuine'
    <2>1. \A k \in done : /\ Evidence!IsSigned(k)' /\ (k.kind = "verify" => Evidence!IsEarned(k)')
                          /\ Evidence!RootHolds(k)'
      BY GenuineIsKept DEF Evidence!IInv
    <2>2. Evidence!RootHolds(j)'
      <3>1. Evidence!RootHolds(j)
        BY DEF Evidence!IInv, Evidence!JobIsAsked
      <3>2. QED
        BY <3>1 DEF Evidence!RootHolds, Evidence!activeAt
    <2>3. QED
      BY <1>1, <2>1, <2>2 DEF Evidence!EvidenceIsGenuine, Evidence!AcceptedIsSigned,
                              Evidence!VerdictIsEarned, Evidence!UnwarnedRootHolds
  <1>6. QED
    BY <1>2, <1>3, <1>4, <1>5 DEF Evidence!IInv

\* A job that goes on keeps what was asked.
LEMMA GoesOnStep ==
  ASSUME Evidence!TypeOK, Evidence!IInv, phase # "idle", phase' \in Evidence!StepsOf(job.kind),
         DOMAIN job' = DOMAIN job,
         job'.kind = job.kind /\ job'.up = job.up /\ job'.mode = job.mode,
         job'.preset = job.preset /\ job'.keys = job.keys /\ job'.key = job.key,
         job'.root = job.root /\ job'.warned = job.warned /\ job'.at = job.at,
         job.kind # "verify" =>
           job'.verdict = job.verdict /\ job'.signed = job.signed /\ job'.attested = job.attested,
         job'.digest \in Evidence!Digests,
         \A d \in Evidence!Digests : seen[d] \subseteq seen'[d], DOMAIN seen' = Evidence!Digests,
         UNCHANGED <<tag, sig, att, now, writes, memo, done, moved>>,
         pulls' \in [{"up", "fork"} -> Evidence!Digests \cup {0}],
         Evidence!FindingsAreEarned'
  PROVE  Evidence!TypeOK' /\ Evidence!IInv'
  <1>1. DOMAIN job = Evidence!Fields /\ job.kind \in {"base", "cache", "verify"}
    BY DEF Evidence!IInv, Evidence!JobIsAsked
  <1>2. job' # Evidence!NoJob
    <2>1. DOMAIN Evidence!NoJob = {"kind"} /\ "up" \in Evidence!Fields
      BY DEF Evidence!NoJob, Evidence!Fields
    <2>2. QED
      BY <1>1, <2>1
  <1>3. phase' \in {"base", "verifyBase", "cache", "verifyCandidate", "verify", "signature",
                    "attestation", "decide", "compare", "report"}
    BY <1>1 DEF Evidence!StepsOf
  <1>4. Evidence!TypeOK'
    BY <1>2, <1>3 DEF Evidence!TypeOK, Evidence!NoJob
  <1>5. Evidence!RootHolds(job)'
    BY DEF Evidence!IInv, Evidence!JobIsAsked, Evidence!RootHolds, Evidence!activeAt
  <1>6. job'.key # "" => Evidence!FirstKeyIs(job'.keys, job'.key)
    <2>1. job.key # "" => Evidence!FirstKeyIs(job.keys, job.key)
      BY DEF Evidence!IInv, Evidence!JobIsAsked
    <2>2. job'.key = job.key /\ job'.keys = job.keys
      OBVIOUS
    <2>3. QED
      BY Zenon, <2>1, <2>2 DEF Evidence!FirstKeyIs
  <1>7. Evidence!JobIsAsked'
    <2>1. phase' \in Evidence!StepsOf(job'.kind)
      OBVIOUS
    <2>2. /\ job.up \in {"up", "fork"}
          /\ job.kind = "base" => job.mode \in Evidence!Modes \cup {"auto"}
                                  /\ Preset[job.preset].mode \in Evidence!Modes
          /\ job.kind # "verify" => job.verdict = "" /\ ~job.signed /\ ~job.attested
      BY DEF Evidence!IInv, Evidence!JobIsAsked
    <2>3. QED
      BY <1>1, <1>5, <1>6, <2>1, <2>2 DEF Evidence!JobIsAsked
  <1>8. Evidence!MemoIsEarned' /\ Evidence!EvidenceIsGenuine'
    BY GenuineIsKept DEF Evidence!IInv
  <1>9. QED
    BY <1>4, <1>7, <1>8 DEF Evidence!IInv

\* The resolver of base images pulls a digest once for each upstream.
LEMMA PullStep ==
  ASSUME Evidence!Assumed, Evidence!TypeOK, Evidence!IInv, Evidence!Pull
  PROVE  Evidence!TypeOK' /\ Evidence!IInv'
  <1>1. PICK d : /\ d = IF pulls[job.up] # 0 THEN pulls[job.up] ELSE tag
                 /\ pulls' = [pulls EXCEPT ![job.up] = d] /\ job' = [job EXCEPT !.digest = d]
                 /\ phase = "base" /\ phase' = "verifyBase"
                 /\ UNCHANGED <<tag, sig, att, now, writes, memo, seen, done, moved>>
    BY DEF Evidence!Pull, Evidence!registryVars
  <1>2. DOMAIN job = Evidence!Fields /\ job.kind = "base" /\ job.up \in {"up", "fork"}
    BY <1>1 DEF Evidence!IInv, Evidence!JobIsAsked, Evidence!StepsOf
  <1>3. d \in Evidence!Digests
    BY <1>1, <1>2 DEF Evidence!TypeOK
  <1>4. /\ DOMAIN job' = DOMAIN job /\ job'.digest = d
        /\ job'.kind = job.kind /\ job'.up = job.up /\ job'.mode = job.mode
        /\ job'.preset = job.preset /\ job'.keys = job.keys /\ job'.key = job.key
        /\ job'.root = job.root /\ job'.warned = job.warned /\ job'.at = job.at
        /\ job'.verdict = job.verdict /\ job'.signed = job.signed /\ job'.attested = job.attested
    BY <1>1, <1>2 DEF Evidence!Fields
  <1>5. pulls' \in [{"up", "fork"} -> Evidence!Digests \cup {0}]
    BY <1>1, <1>2, <1>3 DEF Evidence!TypeOK
  <1>6. phase' \in Evidence!StepsOf(job.kind) /\ ~(phase' \in Evidence!StepsOf("verify"))
    BY <1>1, <1>2 DEF Evidence!StepsOf
  <1>7. Evidence!FindingsAreEarned'
    BY <1>1, <1>6 DEF Evidence!FindingsAreEarned
  <1>8. DOMAIN seen' = Evidence!Digests /\ \A e \in Evidence!Digests : seen[e] \subseteq seen'[e]
    BY <1>1 DEF Evidence!TypeOK
  <1>9. QED
    BY <1>1, <1>3, <1>4, <1>5, <1>6, <1>7, <1>8, GoesOnStep

\* A base image is accepted for a layer that was fetched for it, now or when
\* the same verification was remembered.
LEMMA VerifyBaseStep ==
  ASSUME Evidence!Assumed, Evidence!TypeOK, Evidence!IInv, Evidence!VerifyBase
  PROVE  Evidence!TypeOK' /\ Evidence!IInv'
  <1>1. /\ phase = "verifyBase"
        /\ UNCHANGED <<tag, sig, att, now, writes, pulls, moved>>
    BY DEF Evidence!VerifyBase, Evidence!registryVars
  <1>2. /\ job.kind = "base" /\ job.digest \in Evidence!Digests /\ job.verdict = ""
        /\ job.key # "" => Evidence!FirstKeyIs(job.keys, job.key)
        /\ job.mode \in Evidence!Modes \cup {"auto"} /\ Preset[job.preset].mode \in Evidence!Modes
    BY <1>1 DEF Evidence!IInv, Evidence!JobIsAsked, Evidence!StepsOf
  <1>3. Evidence!BaseMode \in {"static-key", "keyless"}
    BY <1>2 DEF Evidence!BaseMode, Evidence!Modes
  <1>4. /\ ~Evidence!BaseRefused /\ Evidence!BaseMode = "static-key" => job.key # ""
        /\ ~Evidence!BaseRefused /\ Evidence!BaseMode = "keyless" => Evidence!BaseId # Evidence!NoId
    BY DEF Evidence!BaseRefused
  <1>5. ASSUME NEW k, k = job, Evidence!BaseMode = "static-key", Evidence!ByKey(k)'
        PROVE  Evidence!IsSigned(k)'
    BY <1>2, <1>5 DEF Evidence!IsSigned, Evidence!BaseMode
  <1>6. ASSUME NEW k, k = job, NEW id, id = Evidence!BaseId, Evidence!BaseMode = "keyless",
               Evidence!ByIdentity(k, id)'
        PROVE  Evidence!IsSigned(k)'
    BY <1>2, <1>6 DEF Evidence!IsSigned, Evidence!BaseMode, Evidence!BaseId
  <1>7. DOMAIN seen = Evidence!Digests
    BY DEF Evidence!TypeOK
  <1>8. CASE Evidence!Ended("refused") /\ UNCHANGED <<memo, seen>>
    BY <1>1, <1>7, <1>8, EndedStep
  <1>9. CASE /\ ~Evidence!BaseRefused /\ Evidence!verifyKey \in memo
             /\ Evidence!Ended("accepted") /\ UNCHANGED <<memo, seen>>
    <2>1. PICK k : k = job
      OBVIOUS
    <2>2. PICK l \in Evidence!Layers(job.digest) :
            /\ l.typed /\ l.repo = job.up /\ l.digest = job.digest
            /\ IF Evidence!BaseMode = "static-key" THEN l.signer = job.key
               ELSE /\ Evidence!BaseId # Evidence!NoId /\ l.signer = "cert"
                    /\ l.cert.id = Evidence!BaseId /\ l.cert.log \in CoveredLogs[job.root]
      BY <1>3, <1>9 DEF Evidence!IInv, Evidence!MemoIsEarned, Evidence!verifyKey
    <2>3. Evidence!BaseMode = "static-key" => Evidence!ByKey(k)
      BY <1>2, <1>4, <1>9, <2>1, <2>2 DEF Evidence!ByKey, Evidence!Claims
    <2>4. \A id : id = Evidence!BaseId /\ Evidence!BaseMode = "keyless" => Evidence!ByIdentity(k, id)
      BY <2>1, <2>2 DEF Evidence!ByIdentity, Evidence!Claims
    <2>5. \A d \in Evidence!Digests : seen[d] \subseteq seen'[d]
      BY <1>9
    <2>6. Evidence!IsSigned(k)'
      BY <1>2, <1>3, <1>5, <1>6, <2>1, <2>3, <2>4, <2>5, EvidenceIsKept
    <2>7. QED
      BY <1>1, <1>2, <1>7, <1>9, <2>1, <2>5, <2>6, EndedStep
  <1>10. CASE /\ ~Evidence!BaseRefused /\ Evidence!Fetched(sig[job.digest])
              /\ Evidence!Ended("refused") /\ UNCHANGED memo
    BY <1>1, <1>2, <1>10, FetchedIsKept, EndedStep
  <1>11. CASE /\ ~Evidence!BaseRefused /\ Evidence!Fetched(sig[job.digest])
              /\ Evidence!BaseVerified(sig[job.digest])
              /\ Evidence!Ended("accepted") /\ memo' = memo \cup {Evidence!verifyKey}
    <2>1. PICK k : k = job
      OBVIOUS
    <2>2. PICK l \in sig[job.digest] :
            /\ l.typed /\ l.repo = job.up /\ l.digest = job.digest
            /\ IF Evidence!BaseMode = "static-key" THEN l.signer = job.key
               ELSE /\ l.signer = "cert" /\ l.cert.id = Evidence!BaseId
                    /\ l.cert.log \in CoveredLogs[job.root]
      BY <1>11 DEF Evidence!BaseVerified, Evidence!Verify, Evidence!KeylessVerify,
                   Evidence!LogIsKnown, Evidence!checkSimpleSigningClaims
    <2>3. /\ \A d \in Evidence!Digests : seen[d] \subseteq seen'[d]
          /\ DOMAIN seen' = Evidence!Digests /\ l \in Evidence!Layers(k.digest)'
      BY <1>2, <1>11, <2>1, FetchedIsKept
    <2>4. Evidence!BaseMode = "static-key" => Evidence!ByKey(k)'
      BY <1>2, <1>4, <1>11, <2>1, <2>2, <2>3 DEF Evidence!ByKey, Evidence!Claims
    <2>5. \A id : id = Evidence!BaseId /\ Evidence!BaseMode = "keyless" => Evidence!ByIdentity(k, id)'
      BY <1>4, <1>11, <2>1, <2>2, <2>3 DEF Evidence!ByIdentity, Evidence!Claims
    <2>6. Evidence!IsSigned(k)'
      BY <1>3, <1>5, <1>6, <2>1, <2>4, <2>5
    <2>7. Evidence!MemoIsEarned'
      <3>1. \A m \in memo : /\ m[2] \in Evidence!Digests
                            /\ \E x \in Evidence!Layers(m[2])' :
                                 /\ x.typed /\ x.repo = m[1] /\ x.digest = m[2]
                                 /\ IF m[3] = "static-key" THEN x.signer = m[6] /\ m[6] # ""
                                    ELSE /\ m[4] # Evidence!NoId /\ x.signer = "cert"
                                         /\ x.cert.id = m[4] /\ x.cert.log \in CoveredLogs[m[5]]
        BY <2>3, EvidenceIsKept DEF Evidence!IInv, Evidence!MemoIsEarned
      <3>2. PICK m : m = Evidence!verifyKey
        OBVIOUS
      <3>3. /\ m[1] = job.up /\ m[2] = job.digest /\ m[3] = Evidence!BaseMode /\ m[5] = job.root
            /\ Evidence!BaseMode = "static-key" => m[6] = job.key
            /\ Evidence!BaseMode = "keyless" => m[4] = Evidence!BaseId
        BY <1>3, <3>2 DEF Evidence!verifyKey
      <3>4. /\ m[2] \in Evidence!Digests /\ l \in Evidence!Layers(m[2])'
            /\ l.typed /\ l.repo = m[1] /\ l.digest = m[2]
            /\ IF m[3] = "static-key" THEN l.signer = m[6] /\ m[6] # ""
               ELSE /\ m[4] # Evidence!NoId /\ l.signer = "cert"
                    /\ l.cert.id = m[4] /\ l.cert.log \in CoveredLogs[m[5]]
        BY <1>2, <1>3, <1>4, <1>11, <2>1, <2>2, <2>3, <3>3
      <3>5. memo' = memo \cup {m}
        BY <1>11, <3>2
      <3>6. ASSUME NEW q \in memo'
            PROVE  /\ q[2] \in Evidence!Digests
                   /\ \E x \in Evidence!Layers(q[2])' :
                        /\ x.typed /\ x.repo = q[1] /\ x.digest = q[2]
                        /\ IF q[3] = "static-key" THEN x.signer = q[6] /\ q[6] # ""
                           ELSE /\ q[4] # Evidence!NoId /\ x.signer = "cert"
                                /\ x.cert.id = q[4] /\ x.cert.log \in CoveredLogs[q[5]]
        <4>1. CASE q \in memo
          BY Zenon, <3>1, <4>1
        <4>2. CASE q = m
          BY Zenon, <3>4, <4>2
        <4>3. QED
          BY <3>5, <4>1, <4>2
      <3>7. QED
        BY Zenon, <3>6 DEF Evidence!MemoIsEarned, Evidence!Layers
    <2>8. QED
      BY <1>1, <1>2, <1>11, <2>1, <2>3, <2>6, <2>7, EndedStep
  <1>12. QED
    BY <1>8, <1>9, <1>10, <1>11 DEF Evidence!VerifyBase

\* A candidate of the remote cache is the digest under its tag.
LEMMA FindCandidateStep ==
  ASSUME Evidence!Assumed, Evidence!TypeOK, Evidence!IInv, Evidence!FindCandidate
  PROVE  Evidence!TypeOK' /\ Evidence!IInv'
  <1>1. /\ phase = "cache" /\ phase' = "verifyCandidate" /\ job' = [job EXCEPT !.digest = tag]
        /\ UNCHANGED <<tag, sig, att, now, writes, pulls, memo, seen, done, moved>>
    BY DEF Evidence!FindCandidate, Evidence!registryVars, Evidence!resolverVars
  <1>2. DOMAIN job = Evidence!Fields /\ job.kind = "cache"
    BY <1>1 DEF Evidence!IInv, Evidence!JobIsAsked, Evidence!StepsOf
  <1>3. /\ DOMAIN job' = DOMAIN job /\ job'.digest = tag
        /\ job'.kind = job.kind /\ job'.up = job.up /\ job'.mode = job.mode
        /\ job'.preset = job.preset /\ job'.keys = job.keys /\ job'.key = job.key
        /\ job'.root = job.root /\ job'.warned = job.warned /\ job'.at = job.at
        /\ job'.verdict = job.verdict /\ job'.signed = job.signed /\ job'.attested = job.attested
    BY <1>1, <1>2 DEF Evidence!Fields
  <1>4. phase' \in Evidence!StepsOf(job.kind) /\ ~(phase' \in Evidence!StepsOf("verify"))
    BY <1>1, <1>2 DEF Evidence!StepsOf
  <1>5. Evidence!FindingsAreEarned'
    BY <1>1, <1>4 DEF Evidence!FindingsAreEarned
  <1>6. /\ DOMAIN seen' = Evidence!Digests /\ \A e \in Evidence!Digests : seen[e] \subseteq seen'[e]
        /\ tag \in Evidence!Digests /\ pulls' \in [{"up", "fork"} -> Evidence!Digests \cup {0}]
    BY <1>1 DEF Evidence!TypeOK
  <1>7. QED
    BY <1>1, <1>3, <1>4, <1>5, <1>6, GoesOnStep

LEMMA VerifyCandidateStep ==
  ASSUME Evidence!Assumed, Evidence!TypeOK, Evidence!IInv, Evidence!verifyCandidate
  PROVE  Evidence!TypeOK' /\ Evidence!IInv'
  <1>1. phase = "verifyCandidate" /\ UNCHANGED <<tag, sig, att, now, writes, pulls, memo, moved>>
    BY DEF Evidence!verifyCandidate, Evidence!registryVars, Evidence!resolverVars
  <1>2. /\ job.kind = "cache" /\ job.digest \in Evidence!Digests /\ job.verdict = ""
        /\ job.key # "" => Evidence!FirstKeyIs(job.keys, job.key)
    BY <1>1 DEF Evidence!IInv, Evidence!JobIsAsked, Evidence!StepsOf
  <1>3. DOMAIN seen = Evidence!Digests
    BY DEF Evidence!TypeOK
  <1>4. CASE Evidence!Ended("refused") /\ UNCHANGED seen
    BY <1>1, <1>3, <1>4, EndedStep
  <1>5. CASE Evidence!Fetched(sig[job.digest]) /\ Evidence!Ended("refused")
    BY <1>1, <1>2, <1>5, FetchedIsKept, EndedStep
  <1>6. CASE /\ Evidence!Fetched(sig[job.digest]) /\ Evidence!Ended("accepted")
             /\ Evidence!CacheVerified(sig[job.digest], Evidence!CacheMode)
    <2>1. PICK k : k = job
      OBVIOUS
    <2>2. PICK l \in sig[job.digest] :
            /\ l.typed /\ l.repo = job.up /\ l.digest = job.digest
            /\ \/ Evidence!CacheMode = "static-key" /\ job.key # "" /\ l.signer = job.key
               \/ /\ Evidence!CacheMode = "keyless" /\ job.id # Evidence!NoId
                  /\ l.signer = "cert" /\ l.cert.id = job.id /\ l.cert.log \in CoveredLogs[job.root]
      BY <1>6 DEF Evidence!CacheVerified, Evidence!Verify, Evidence!KeylessVerify, Evidence!Complete,
                  Evidence!LogIsKnown, Evidence!checkSimpleSigningClaims
    <2>3. /\ \A d \in Evidence!Digests : seen[d] \subseteq seen'[d]
          /\ DOMAIN seen' = Evidence!Digests /\ l \in Evidence!Layers(k.digest)'
      BY <1>2, <1>6, <2>1, FetchedIsKept
    <2>4. \/ Evidence!CacheMode = "static-key" /\ Evidence!ByKey(k)'
          \/ Evidence!CacheMode = "keyless" /\ Evidence!ByIdentity(k, k.id)'
      BY <1>2, <2>1, <2>2, <2>3 DEF Evidence!ByKey, Evidence!ByIdentity, Evidence!Claims
    <2>5. Evidence!IsSigned(k)'
      BY <1>2, <2>1, <2>4 DEF Evidence!IsSigned, Evidence!CacheMode
    <2>6. QED
      BY <1>1, <1>2, <1>6, <2>1, <2>3, <2>5, EndedStep
  <1>7. QED
    BY <1>4, <1>5, <1>6 DEF Evidence!verifyCandidate

\* What the evidence shows for a job it goes on showing while the job is asked
\* of the same image.
LEMMA FindingsAreKept ==
  ASSUME \A d \in Evidence!Digests : seen[d] \subseteq seen'[d], job.digest \in Evidence!Digests,
         job'.digest = job.digest, job'.up = job.up, job'.keys = job.keys, job'.root = job.root,
         job'.id = job.id
  PROVE  /\ Evidence!ByKey(job) => Evidence!ByKey(job)'
         /\ Evidence!ByIdentity(job, job.id) => Evidence!ByIdentity(job, job.id)'
         /\ Evidence!About(job) \subseteq Evidence!About(job)'
  <1>1. Evidence!Layers(job.digest) \subseteq Evidence!Layers(job.digest)'
    BY DEF Evidence!Layers
  <1>2. Evidence!ByKey(job) => Evidence!ByKey(job)'
    BY <1>1 DEF Evidence!ByKey, Evidence!Claims
  <1>3. Evidence!ByIdentity(job, job.id) => Evidence!ByIdentity(job, job.id)'
    BY <1>1 DEF Evidence!ByIdentity, Evidence!Claims
  <1>4. Evidence!About(job) \subseteq Evidence!About(job)'
    BY DEF Evidence!About, Evidence!Layers
  <1>5. QED
    BY <1>2, <1>3, <1>4

\* `pokkum verify` asks of the digest under the tag, of which nothing is known.
LEMMA DescribeStep ==
  ASSUME Evidence!Assumed, Evidence!TypeOK, Evidence!IInv, Evidence!Describe
  PROVE  Evidence!TypeOK' /\ Evidence!IInv'
  <1>1. phase = "verify" /\ UNCHANGED <<tag, sig, att, now, writes, pulls, memo, seen, moved>>
    BY DEF Evidence!Describe, Evidence!registryVars, Evidence!resolverVars
  <1>2. DOMAIN job = Evidence!Fields /\ job.kind = "verify"
    BY <1>1 DEF Evidence!IInv, Evidence!JobIsAsked, Evidence!StepsOf
  <1>3. /\ DOMAIN seen' = Evidence!Digests /\ \A e \in Evidence!Digests : seen[e] \subseteq seen'[e]
        /\ tag \in Evidence!Digests /\ pulls' \in [{"up", "fork"} -> Evidence!Digests \cup {0}]
    BY <1>1 DEF Evidence!TypeOK
  <1>4. CASE Evidence!Ended("refused")
    BY <1>1, <1>3, <1>4, EndedStep
  <1>5. CASE /\ job' = [job EXCEPT !.digest = tag, !.source = Source[tag]]
             /\ phase' = "signature" /\ UNCHANGED done
    <2>1. /\ DOMAIN job' = DOMAIN job /\ job'.digest = tag
          /\ job'.kind = job.kind /\ job'.up = job.up /\ job'.mode = job.mode
          /\ job'.preset = job.preset /\ job'.keys = job.keys /\ job'.key = job.key
          /\ job'.root = job.root /\ job'.warned = job.warned /\ job'.at = job.at
          /\ job'.verdict = job.verdict /\ job'.signed = job.signed /\ job'.attested = job.attested
          /\ job'.verified = job.verified
      BY <1>2, <1>5 DEF Evidence!Fields
    <2>2. phase' \in Evidence!StepsOf(job.kind)
      BY <1>2, <1>5 DEF Evidence!StepsOf
    <2>3. Evidence!FindingsAreEarned'
      <3>1. ~job'.signed /\ ~job'.attested /\ ~job'.verified /\ job'.verdict = ""
        BY <1>1, <2>1 DEF Evidence!IInv, Evidence!FindingsAreEarned
      <3>2. QED
        BY <1>1, <1>5, <2>1, <3>1 DEF Evidence!FindingsAreEarned
    <2>4. QED
      BY <1>1, <1>3, <1>5, <2>1, <2>2, <2>3, GoesOnStep
  <1>6. QED
    BY <1>4, <1>5 DEF Evidence!Describe

\* The steps of `pokkum verify` that go on leave what was asked alone.
LEMMA ReportGoesOn ==
  ASSUME Evidence!TypeOK, Evidence!IInv, NEW to \in {"attestation", "decide", "compare", "report"},
         phase \in {"signature", "attestation", "decide", "compare"}, phase' = to,
         DOMAIN job' = DOMAIN job,
         \A f \in Evidence!Fields \ {"signed", "attested", "verified", "source", "verdict", "moved"} :
           job'[f] = job[f],
         UNCHANGED <<tag, sig, att, now, writes, pulls, memo, done, moved>>,
         \A d \in Evidence!Digests : seen[d] \subseteq seen'[d], DOMAIN seen' = Evidence!Digests,
         Evidence!FindingsAreEarned'
  PROVE  Evidence!TypeOK' /\ Evidence!IInv'
  <1>1. job.kind = "verify" /\ job.digest \in Evidence!Digests
    BY DEF Evidence!IInv, Evidence!JobIsAsked, Evidence!StepsOf
  <1>2. phase' \in Evidence!StepsOf(job.kind)
    BY <1>1 DEF Evidence!StepsOf
  <1>3. /\ job'.kind = job.kind /\ job'.up = job.up /\ job'.mode = job.mode
        /\ job'.preset = job.preset /\ job'.keys = job.keys /\ job'.key = job.key
        /\ job'.root = job.root /\ job'.warned = job.warned /\ job'.at = job.at
        /\ job'.digest = job.digest
    BY DEF Evidence!Fields
  <1>4. pulls' \in [{"up", "fork"} -> Evidence!Digests \cup {0}]
    BY DEF Evidence!TypeOK
  <1>5. QED
    BY <1>1, <1>2, <1>3, <1>4, GoesOnStep

\* What is known of a job between its steps.
LEMMA AskedToVerify ==
  ASSUME Evidence!TypeOK, Evidence!IInv,
         phase \in {"signature", "attestation", "decide", "compare", "report"}
  PROVE  /\ DOMAIN job = Evidence!Fields /\ job.kind = "verify" /\ job.digest \in Evidence!Digests
         /\ job.key # "" => Evidence!FirstKeyIs(job.keys, job.key)
         /\ job.signed => Evidence!ByKey(job) \/ Evidence!ByIdentity(job, job.id)
         /\ job.attested => Evidence!About(job) # {}
         /\ job.verified => \E a \in Evidence!About(job) : a.source = job.source
         /\ ~moved => job.digest = tag
         /\ phase # "report" => job.verdict = ""
         /\ DOMAIN seen = Evidence!Digests
  BY DEF Evidence!IInv, Evidence!JobIsAsked, Evidence!FindingsAreEarned, Evidence!StepsOf,
         Evidence!TypeOK

\* An image is signed for a layer that was fetched for it.
LEMMA SignatureStep ==
  ASSUME Evidence!Assumed, Evidence!TypeOK, Evidence!IInv, Evidence!verifyCosignSignature
  PROVE  Evidence!TypeOK' /\ Evidence!IInv'
  <1>1. phase = "signature" /\ UNCHANGED <<tag, sig, att, now, writes, pulls, memo, moved>>
    BY DEF Evidence!verifyCosignSignature, Evidence!registryVars, Evidence!resolverVars
  <1> DEFINE valid == \E l \in sig[job.digest] : Evidence!StaticSigned(l) \/ Evidence!KeylessSigned(l)
  <1>2. /\ DOMAIN job = Evidence!Fields /\ job.digest \in Evidence!Digests /\ job.verdict = ""
        /\ job.key # "" => Evidence!FirstKeyIs(job.keys, job.key)
        /\ DOMAIN seen = Evidence!Digests
    BY <1>1, AskedToVerify
  <1>3. CASE Evidence!Fetched(sig[job.digest]) /\ Evidence!Ended("refused")
    BY <1>1, <1>2, <1>3, FetchedIsKept, EndedStep
  <1>4. ASSUME \/ UNCHANGED <<job, seen>>
               \/ Evidence!Fetched(sig[job.digest]) /\ job' = [job EXCEPT !.signed = valid],
               phase' = "attestation", done' = done
        PROVE  Evidence!TypeOK' /\ Evidence!IInv'
    <2>1. /\ DOMAIN job' = DOMAIN job /\ job'.verified = job.verified /\ job'.attested = job.attested
          /\ job'.verdict = "" /\ job'.source = job.source
          /\ \A f \in Evidence!Fields \ {"signed"} : job'[f] = job[f]
          /\ job'.digest = job.digest /\ job'.up = job.up /\ job'.keys = job.keys
          /\ job'.root = job.root /\ job'.id = job.id
      <3> HIDE DEF valid
      <3>1. QED
        BY <1>2, <1>4 DEF Evidence!Fields
    <2>2. DOMAIN seen' = Evidence!Digests /\ \A d \in Evidence!Digests : seen[d] \subseteq seen'[d]
      BY <1>2, <1>4, FetchedIsKept
    <2>3. job'.signed => Evidence!ByKey(job)' \/ Evidence!ByIdentity(job, job.id)'
      <3>1. CASE UNCHANGED <<job, seen>>
        BY <1>1, <1>2, <2>1, <2>2, <3>1, AskedToVerify, FindingsAreKept
      <3>2. CASE Evidence!Fetched(sig[job.digest]) /\ job' = [job EXCEPT !.signed = valid]
        <4>1. ASSUME job'.signed PROVE valid
          <5> HIDE DEF valid
          <5>1. QED
            BY <1>2, <3>2, <4>1 DEF Evidence!Fields
        <4>2. ASSUME valid
              PROVE  Evidence!ByKey(job)' \/ Evidence!ByIdentity(job, job.id)'
          <5>1. PICK l \in sig[job.digest] : Evidence!StaticSigned(l) \/ Evidence!KeylessSigned(l)
            BY <4>2
          <5>2. PICK d \in Evidence!Digests : d = job.digest
            BY <1>2
          <5>3. l \in Evidence!Layers(d)'
            BY <3>2, <5>1, <5>2, FetchedIsKept
          <5>4. l \in Evidence!Layers(job.digest)'
            BY <2>1, <5>2, <5>3 DEF Evidence!Layers
          <5>5. CASE Evidence!StaticSigned(l)
            <6>1. Evidence!ByKey(job)'
              BY <1>2, <2>1, <5>4, <5>5
              DEF Evidence!StaticSigned, Evidence!Verify, Evidence!ByKey, Evidence!Claims
            <6>2. QED
              BY <6>1
          <5>6. CASE Evidence!KeylessSigned(l)
            <6>1. Evidence!ByIdentity(job, job.id)'
              BY <1>2, <2>1, <5>4, <5>6
              DEF Evidence!KeylessSigned, Evidence!KeylessVerify, Evidence!LogIsKnown,
                  Evidence!checkSimpleSigningClaims, Evidence!ByIdentity, Evidence!Claims
            <6>2. QED
              BY <6>1
          <5>7. QED
            BY <5>1, <5>5, <5>6
        <4>3. QED
          BY <4>1, <4>2
      <3>3. QED
        BY <1>4, <3>1, <3>2
    <2>4. /\ job'.attested => Evidence!About(job)' # {}
          /\ job'.verified => \E a \in Evidence!About(job)' : a.source = job'.source
          /\ ~moved' => job'.digest = tag'
      BY <1>1, <1>2, <2>1, <2>2, AskedToVerify, FindingsAreKept
    <2>5. Evidence!FindingsAreEarned'
      BY <1>4, <2>1, <2>3, <2>4 DEF Evidence!FindingsAreEarned
    <2>6. QED
      BY <1>1, <1>4, <2>1, <2>2, <2>5, ReportGoesOn
  <1>5. QED
    BY <1>3, <1>4 DEF Evidence!verifyCosignSignature

\* An image is attested for an attestation that was fetched for it.
LEMMA AttestationStep ==
  ASSUME Evidence!Assumed, Evidence!TypeOK, Evidence!IInv, Evidence!extractSLSAStatement
  PROVE  Evidence!TypeOK' /\ Evidence!IInv'
  <1>1. /\ phase = "attestation" /\ phase' = "decide"
        /\ UNCHANGED <<tag, sig, att, now, writes, pulls, memo, done, moved>>
    BY DEF Evidence!extractSLSAStatement, Evidence!registryVars, Evidence!resolverVars
  <1>2. /\ DOMAIN job = Evidence!Fields /\ job.digest \in Evidence!Digests /\ job.verdict = ""
        /\ job.key # "" => Evidence!FirstKeyIs(job.keys, job.key)
        /\ DOMAIN seen = Evidence!Digests
    BY <1>1, AskedToVerify
  <1>3. /\ DOMAIN seen' = Evidence!Digests
        /\ \A d \in Evidence!Digests : seen[d] \subseteq seen'[d]
    BY <1>2, FetchedIsKept DEF Evidence!extractSLSAStatement
  <1>4. ASSUME job' = job PROVE Evidence!TypeOK' /\ Evidence!IInv'
    <2>1. Evidence!FindingsAreEarned'
      BY <1>1, <1>2, <1>3, <1>4, AskedToVerify, FindingsAreKept DEF Evidence!FindingsAreEarned
    <2>2. QED
      BY <1>1, <1>3, <1>4, <2>1, ReportGoesOn
  <1>5. ASSUME Evidence!Fetched(att[job.digest]),
               NEW a \in att[job.digest], Evidence!tryParseAndVerifySLSA(a),
               job' = Evidence!populateInputsFromSLSA(a)
        PROVE  Evidence!TypeOK' /\ Evidence!IInv'
    <2>1. /\ DOMAIN job' = DOMAIN job /\ job'.signed = job.signed /\ job'.verdict = ""
          /\ \A f \in Evidence!Fields \ {"attested", "verified", "source"} : job'[f] = job[f]
          /\ job'.digest = job.digest /\ job'.up = job.up /\ job'.keys = job.keys
          /\ job'.root = job.root /\ job'.id = job.id
      BY <1>2, <1>5 DEF Evidence!populateInputsFromSLSA, Evidence!Fields
    <2>2. job'.verified => a.source = job'.source
      BY <1>2, <1>5 DEF Evidence!populateInputsFromSLSA, Evidence!Fields
    <2>3. a \in Evidence!About(job)'
      <3>1. PICK d \in Evidence!Digests : d = job.digest
        BY <1>2
      <3>2. a \in seen'[d] \ Evidence!Layers(d)'
        BY <1>5, <3>1, FetchedIsKept
      <3>3. a.enveloped /\ a.subject = job.digest /\ job.key # "" /\ job.key \in a.signers
        BY <1>5 DEF Evidence!tryParseAndVerifySLSA, Evidence!VerifyEnvelope,
                    Evidence!statementMatchesDigest
      <3>4. QED
        BY <1>2, <2>1, <3>1, <3>2, <3>3 DEF Evidence!About, Evidence!Layers
    <2>4. /\ job'.signed => Evidence!ByKey(job)' \/ Evidence!ByIdentity(job, job.id)'
          /\ ~moved' => job'.digest = tag'
      BY <1>1, <1>2, <1>3, <2>1, AskedToVerify, FindingsAreKept
    <2>5. Evidence!FindingsAreEarned'
      BY <1>1, <2>1, <2>2, <2>3, <2>4 DEF Evidence!FindingsAreEarned
    <2>6. QED
      BY <1>1, <1>3, <2>1, <2>5, ReportGoesOn
  <1>6. QED
    BY <1>4, <1>5 DEF Evidence!extractSLSAStatement

\* A verdict is one that was found.
LEMMA DecideStep ==
  ASSUME Evidence!Assumed, Evidence!TypeOK, Evidence!IInv, Evidence!Decide
  PROVE  Evidence!TypeOK' /\ Evidence!IInv'
  <1>1. phase = "decide" /\ UNCHANGED <<tag, sig, att, now, writes, pulls, memo, seen, moved>>
    BY DEF Evidence!Decide, Evidence!registryVars, Evidence!resolverVars
  <1>2. /\ DOMAIN job = Evidence!Fields /\ job.digest \in Evidence!Digests /\ job.verdict = ""
        /\ DOMAIN seen' = Evidence!Digests
        /\ \A d \in Evidence!Digests : seen[d] \subseteq seen'[d]
    BY <1>1, AskedToVerify
  <1>3. CASE Evidence!Ended("refused")
    BY <1>1, <1>2, <1>3, EndedStep
  <1>4. ASSUME ~Evidence!SourceRefused, job.rebuilt # 0 \/ job.attested \/ job.signed, done' = done,
               \/ phase' = "compare" /\ job' = job
               \/ /\ phase' = "report" /\ job.rebuilt = 0
                  /\ job' = [job EXCEPT !.verdict = IF job.attested THEN "attested" ELSE "signed"]
        PROVE  Evidence!TypeOK' /\ Evidence!IInv'
    <2>1. /\ DOMAIN job' = DOMAIN job /\ \A f \in Evidence!Fields \ {"verdict"} : job'[f] = job[f]
          /\ job'.digest = job.digest /\ job'.up = job.up /\ job'.keys = job.keys
          /\ job'.root = job.root /\ job'.id = job.id /\ job'.source = job.source
          /\ job'.signed = job.signed /\ job'.attested = job.attested
          /\ job'.verified = job.verified /\ job'.expect = job.expect /\ job'.allow = job.allow
      BY <1>2, <1>4 DEF Evidence!Fields
    <2>2. \/ phase' = "compare" /\ job'.verdict = ""
          \/ phase' = "report" /\ job'.verdict = "attested" /\ job'.attested
          \/ phase' = "report" /\ job'.verdict = "signed" /\ job'.signed
      BY <1>2, <1>4, <2>1 DEF Evidence!Fields
    <2>3. job'.expect # "" => job'.source = job'.expect /\ (job'.verified \/ job'.allow)
      BY <1>4, <2>1 DEF Evidence!SourceRefused, Evidence!validateSourceMatch
    <2>4. /\ job'.signed => Evidence!ByKey(job)' \/ Evidence!ByIdentity(job, job.id)'
          /\ job'.attested => Evidence!About(job)' # {}
          /\ job'.verified => \E a \in Evidence!About(job)' : a.source = job'.source
          /\ ~moved' => job'.digest = tag'
      BY <1>1, <1>2, <2>1, AskedToVerify, FindingsAreKept
    <2>5. Evidence!FindingsAreEarned'
      BY <1>4, <2>2, <2>3, <2>4 DEF Evidence!FindingsAreEarned
    <2>6. QED
      BY <1>1, <1>2, <1>4, <2>1, <2>5, ReportGoesOn
  <1>5. QED
    BY <1>3, <1>4 DEF Evidence!Decide

\* A rebuild that matches is the image reported on, or the tag has moved.
LEMMA CompareStep ==
  ASSUME Evidence!Assumed, Evidence!TypeOK, Evidence!IInv, Evidence!CompareImages
  PROVE  Evidence!TypeOK' /\ Evidence!IInv'
  <1>1. phase = "compare" /\ UNCHANGED <<tag, sig, att, now, writes, pulls, memo, seen, moved>>
    BY DEF Evidence!CompareImages, Evidence!registryVars, Evidence!resolverVars
  <1>2. /\ DOMAIN job = Evidence!Fields /\ job.digest \in Evidence!Digests
        /\ DOMAIN seen' = Evidence!Digests
        /\ \A d \in Evidence!Digests : seen[d] \subseteq seen'[d]
    BY <1>1, AskedToVerify
  <1>3. CASE Evidence!Ended("refused")
    BY <1>1, <1>2, <1>3, EndedStep
  <1>4. ASSUME tag = job.rebuilt, job' = [job EXCEPT !.verdict = "match", !.moved = moved],
               phase' = "report", done' = done
        PROVE  Evidence!TypeOK' /\ Evidence!IInv'
    <2>1. /\ DOMAIN job' = DOMAIN job
          /\ \A f \in Evidence!Fields \ {"verdict", "moved"} : job'[f] = job[f]
          /\ job'.digest = job.digest /\ job'.up = job.up /\ job'.keys = job.keys
          /\ job'.root = job.root /\ job'.id = job.id /\ job'.source = job.source
          /\ job'.signed = job.signed /\ job'.attested = job.attested
          /\ job'.verified = job.verified /\ job'.expect = job.expect /\ job'.allow = job.allow
          /\ job'.rebuilt = job.rebuilt /\ job'.verdict = "match" /\ job'.moved = moved
      BY <1>2, <1>4 DEF Evidence!Fields
    <2>2. job'.digest = job'.rebuilt \/ job'.moved
      BY <1>1, <1>4, <2>1, AskedToVerify
    <2>3. job'.expect # "" => job'.source = job'.expect /\ (job'.verified \/ job'.allow)
      BY <1>1, <2>1 DEF Evidence!IInv, Evidence!FindingsAreEarned, Evidence!StepsOf
    <2>4. /\ job'.signed => Evidence!ByKey(job)' \/ Evidence!ByIdentity(job, job.id)'
          /\ job'.attested => Evidence!About(job)' # {}
          /\ job'.verified => \E a \in Evidence!About(job)' : a.source = job'.source
          /\ ~moved' => job'.digest = tag'
      BY <1>1, <1>2, <2>1, AskedToVerify, FindingsAreKept
    <2>5. Evidence!FindingsAreEarned'
      BY <1>4, <2>1, <2>2, <2>3, <2>4 DEF Evidence!FindingsAreEarned
    <2>6. QED
      BY <1>1, <1>2, <1>4, <2>1, <2>5, ReportGoesOn
  <1>5. QED
    BY <1>3, <1>4 DEF Evidence!CompareImages

\* What is reported is what was found.
LEMMA ReportStep ==
  ASSUME Evidence!Assumed, Evidence!TypeOK, Evidence!IInv, Evidence!Report
  PROVE  Evidence!TypeOK' /\ Evidence!IInv'
  <1>1. /\ phase = "report" /\ Evidence!Ended("accepted")
        /\ UNCHANGED <<tag, sig, att, now, writes, pulls, memo, seen, moved>>
    BY DEF Evidence!Report, Evidence!registryVars, Evidence!resolverVars
  <1>2. /\ job.kind = "verify" /\ job.digest \in Evidence!Digests
        /\ DOMAIN seen' = Evidence!Digests
        /\ \A d \in Evidence!Digests : seen[d] \subseteq seen'[d]
    BY <1>1, AskedToVerify
  <1>3. PICK k : k = job
    OBVIOUS
  <1>4. Evidence!IsSigned(k)
    BY <1>1, <1>2, <1>3
    DEF Evidence!IInv, Evidence!FindingsAreEarned, Evidence!StepsOf, Evidence!IsSigned
  <1>5. Evidence!IsEarned(k)
    BY <1>1, <1>2, <1>3
    DEF Evidence!IInv, Evidence!FindingsAreEarned, Evidence!StepsOf, Evidence!IsEarned
  <1>6. Evidence!IsSigned(k)' /\ Evidence!IsEarned(k)'
    BY <1>2, <1>3, <1>4, <1>5, EvidenceIsKept DEF Evidence!IsSigned, Evidence!IsEarned
  <1>7. QED
    BY <1>1, <1>2, <1>3, <1>6, EndedStep

\* Every base image, cached image and image that `pokkum verify` accepts had a
\* signature over its own repository and digest by the key or the identity that
\* was asked for; a verdict is what an attestation or a signature about that
\* digest says; and an embedded root that was used without a warning held for
\* the whole of the window: whoever writes what, and whenever, to the registry.
THEOREM EvidenceIsEarned ==
  ASSUME Evidence!Assumed
  PROVE  Evidence!Spec => [](Evidence!TypeOK /\ Evidence!EvidenceIsGenuine)
  <1>1. Evidence!Init => Evidence!TypeOK /\ Evidence!IInv
    <2> SUFFICES ASSUME Evidence!Init PROVE Evidence!TypeOK /\ Evidence!IInv
      OBVIOUS
    <2>1. Evidence!TypeOK
      <3>1. 1 \in Evidence!Digests /\ 0 \in 0 .. MaxWrites
        BY DEF Evidence!Assumed
      <3>2. att \in [Evidence!Digests -> SUBSET Attestations]
        <4>1. {} \in SUBSET Attestations
          OBVIOUS
        <4>2. QED
          BY <4>1 DEF Evidence!Init
      <3>3. QED
        BY <3>1, <3>2 DEF Evidence!Init, Evidence!TypeOK
    <2>2. Evidence!IInv
      BY DEF Evidence!Init, Evidence!IInv, Evidence!JobIsAsked, Evidence!MemoIsEarned,
             Evidence!FindingsAreEarned, Evidence!StepsOf, Evidence!EvidenceIsGenuine,
             Evidence!AcceptedIsSigned, Evidence!VerdictIsEarned, Evidence!UnwarnedRootHolds
    <2>3. QED
      BY <2>1, <2>2
  <1>2. Evidence!TypeOK /\ Evidence!IInv /\ [Evidence!Next]_(Evidence!vars)
          => (Evidence!TypeOK /\ Evidence!IInv)'
    <2>1. ASSUME Evidence!TypeOK, Evidence!IInv, UNCHANGED Evidence!vars
          PROVE  Evidence!TypeOK' /\ Evidence!IInv'
      <3> USE <2>1 DEF Evidence!vars
      <3>1. Evidence!TypeOK'
        BY DEF Evidence!TypeOK, Evidence!NoJob
      <3>2. Evidence!JobIsAsked'
        BY DEF Evidence!IInv, Evidence!JobIsAsked, Evidence!RootHolds, Evidence!activeAt
      <3>3. Evidence!MemoIsEarned' /\ Evidence!EvidenceIsGenuine'
        BY GenuineIsKept DEF Evidence!IInv
      <3>4. Evidence!FindingsAreEarned'
        BY DEF Evidence!IInv, Evidence!FindingsAreEarned, Evidence!ByKey, Evidence!ByIdentity,
               Evidence!About, Evidence!Layers
      <3>5. QED
        BY <3>1, <3>2, <3>3, <3>4 DEF Evidence!IInv
    <2>2. ASSUME Evidence!TypeOK, Evidence!IInv, Evidence!Reader
          PROVE  Evidence!TypeOK' /\ Evidence!IInv'
      BY <2>2, AskStep, PullStep, VerifyBaseStep, FindCandidateStep, VerifyCandidateStep,
         DescribeStep, SignatureStep, AttestationStep, DecideStep, CompareStep, ReportStep
      DEF Evidence!Reader
    <2>3. QED
      BY <2>1, <2>2, RegistryStep DEF Evidence!Next
  <1>3. Evidence!TypeOK /\ Evidence!IInv => Evidence!EvidenceIsGenuine
    BY DEF Evidence!IInv
  <1> HIDE DEF Evidence!TypeOK, Evidence!IInv, Evidence!EvidenceIsGenuine
  <1>4. QED
    BY <1>1, <1>2, <1>3, PTL DEF Evidence!Spec

-----------------------------------------------------------------------------
(* pokkum resolve, apply and rollback *)

\* A sequence that names nothing twice is as long as what it names.
LEMMA NamedOnce ==
  ASSUME NEW S, NEW s \in Seq(S), \A i, k \in DOMAIN s : s[i] = s[k] => i = k
  PROVE  /\ IsFiniteSet(K8s!Remembered(s)) /\ Cardinality(K8s!Remembered(s)) = Len(s)
  <1> DEFINE T == K8s!Remembered(s)
  <1>1. Len(s) \in Nat /\ DOMAIN s = 1 .. Len(s)
    OBVIOUS
  <1>2. s \in Bijection(1 .. Len(s), T)
    <2>1. T = {s[k] : k \in 1 .. Len(s)}
      BY <1>1 DEF K8s!Remembered
    <2>2. s \in [1 .. Len(s) -> T]
      BY <1>1, <2>1
    <2> HIDE DEF T
    <2>3. \A t \in T : \E k \in 1 .. Len(s) : s[k] = t
      BY <2>1
    <2>4. s \in Injection(1 .. Len(s), T)
      BY <1>1, <2>2 DEF Injection, IsInjective
    <2>5. s \in Surjection(1 .. Len(s), T)
      BY <2>2, <2>3 DEF Surjection
    <2>6. QED
      BY <2>4, <2>5 DEF Bijection
  <1>3. ExistsBijection(1 .. Len(s), T)
    BY <1>2 DEF ExistsBijection
  <1>4. IsFiniteSet(1 .. Len(s)) /\ Cardinality(T) = Len(s)
    <2> HIDE DEF T
    <2>1. QED
      BY <1>1, <1>3, FS_CountingElements, FS_Interval
  <1>5. IsFiniteSet(T)
    <2> HIDE DEF T
    <2>1. QED
      BY <1>3, <1>4, FS_Bijection
  <1>6. QED
    BY <1>4, <1>5

\* Without an image, a history names the others, as often as it did.
LEMMA WithoutIt ==
  ASSUME NEW S, NEW img, NEW h \in Seq(S), \A i, k \in DOMAIN h : h[i] = h[k] => i = k
  PROVE  /\ K8s!Without(img, h) \in Seq(S)
         /\ K8s!Remembered(K8s!Without(img, h)) = K8s!Remembered(h) \ {img}
         /\ \A i, k \in DOMAIN K8s!Without(img, h) :
              K8s!Without(img, h)[i] = K8s!Without(img, h)[k] => i = k
  <1>1. CASE img \notin K8s!Remembered(h)
    BY <1>1 DEF K8s!Without
  <1>2. CASE img \in K8s!Remembered(h)
    <2> DEFINE n == Len(h)
               pos == CHOOSE k \in DOMAIN h : h[k] = img
               g == [k \in 1 .. n - 1 |-> h[IF k < pos THEN k ELSE k + 1]]
    <2>1. K8s!Without(img, h) = g
      BY <1>2 DEF K8s!Without
    <2>2. pos \in DOMAIN h /\ h[pos] = img
      BY <1>2 DEF K8s!Remembered
    <2>3. n \in Nat /\ DOMAIN h = 1 .. n /\ \A k \in 1 .. n : h[k] \in S
      OBVIOUS
    <2> HIDE DEF pos, n
    <2>4. pos \in 1 .. n
      BY <2>2, <2>3
    <2>5. \A k \in 1 .. n - 1 : k \in 1 .. n /\ k + 1 \in 1 .. n
      BY <2>3
    <2>6. /\ DOMAIN g = 1 .. n - 1
          /\ \A k \in 1 .. n - 1 : /\ k < pos => g[k] = h[k]
                                   /\ ~(k < pos) => g[k] = h[k + 1]
      BY <2>4
    <2>7. g \in [1 .. n - 1 -> S]
      BY <2>3, <2>5, <2>6
    <2>8. n - 1 \in Nat
      BY <2>3, <2>4
    <2>9. g \in Seq(S)
      <3> HIDE DEF g
      <3>1. QED
        BY <2>7, <2>8
    <2> HIDE DEF g
    <2>10. \A i, k \in DOMAIN g : g[i] = g[k] => i = k
      <3> SUFFICES ASSUME NEW i \in 1 .. n - 1, NEW k \in 1 .. n - 1, g[i] = g[k] PROVE i = k
        BY <2>6
      <3>1. i \in Nat /\ k \in Nat /\ pos \in Nat
        BY <2>4
      <3>2. PICK a \in 1 .. n : a = (IF i < pos THEN i ELSE i + 1) /\ h[a] = g[i]
        BY <2>5, <2>6
      <3>3. PICK b \in 1 .. n : b = (IF k < pos THEN k ELSE k + 1) /\ h[b] = g[k]
        BY <2>5, <2>6
      <3>4. a = b
        BY <2>3, <3>2, <3>3
      <3>5. QED
        BY <3>1, <3>2, <3>3, <3>4
    <2>11. K8s!Remembered(g) = K8s!Remembered(h) \ {img}
      <3>1. ASSUME NEW k \in 1 .. n - 1 PROVE g[k] \in K8s!Remembered(h) \ {img}
        <4>1. PICK a \in 1 .. n : a # pos /\ h[a] = g[k]
          BY <2>4, <2>5, <2>6
        <4>2. QED
          BY <2>2, <2>3, <4>1 DEF K8s!Remembered
      <3>2. ASSUME NEW a \in 1 .. n, h[a] # img PROVE h[a] \in K8s!Remembered(g)
        <4>1. a # pos
          BY <2>2, <3>2
        <4>2. PICK k \in 1 .. n - 1 : g[k] = h[a]
          <5>1. CASE a < pos
            <6>1. a \in 1 .. n - 1
              BY <2>3, <2>4, <5>1
            <6>2. QED
              BY <2>6, <5>1, <6>1
          <5>2. CASE ~(a < pos)
            <6>1. a - 1 \in 1 .. n - 1 /\ ~(a - 1 < pos) /\ (a - 1) + 1 = a
              BY <2>3, <2>4, <4>1, <5>2
            <6>2. QED
              BY <2>6, <6>1
          <5>3. QED
            BY <5>1, <5>2
        <4>3. QED
          BY <2>6, <4>2 DEF K8s!Remembered
      <3>3. QED
        BY <2>3, <2>6, <3>1, <3>2 DEF K8s!Remembered
    <2>12. QED
      BY <2>1, <2>9, <2>10, <2>11
  <1>3. QED
    BY <1>1, <1>2

\* What is displaced comes first, and nothing is lost while there is room.
LEMMA RememberedFirst ==
  ASSUME MaxHistory \in Nat, NEW S, NEW img \in S, NEW h \in Seq(S),
         \A i, k \in DOMAIN h : h[i] = h[k] => i = k
  PROVE  /\ K8s!Remember(img, h) \in Seq(S) /\ Len(K8s!Remember(img, h)) <= MaxHistory
         /\ \A i, k \in DOMAIN K8s!Remember(img, h) :
              K8s!Remember(img, h)[i] = K8s!Remember(img, h)[k] => i = k
         /\ Cardinality({img} \cup K8s!Remembered(h)) <= MaxHistory =>
              K8s!Remembered(K8s!Remember(img, h)) = {img} \cup K8s!Remembered(h)
  <1> DEFINE kept == K8s!Without(img, h)
             all == <<img>> \o kept
             room == IF Len(all) > MaxHistory THEN MaxHistory ELSE Len(all)
  <1>1. /\ kept \in Seq(S) /\ K8s!Remembered(kept) = K8s!Remembered(h) \ {img}
        /\ \A i, k \in DOMAIN kept : kept[i] = kept[k] => i = k
    BY WithoutIt
  <1>2. K8s!Remember(img, h) = SubSeq(all, 1, room)
    BY DEF K8s!Remember
  <1> HIDE DEF kept
  <1>3. /\ all \in Seq(S) /\ Len(all) = Len(kept) + 1 /\ Len(kept) \in Nat /\ all[1] = img
        /\ \A k \in 1 .. Len(kept) : all[k + 1] = kept[k]
    BY <1>1
  <1> HIDE DEF all
  <1>4. \A i \in 1 .. Len(all) : i = 1 \/ (i - 1 \in 1 .. Len(kept) /\ all[i] = kept[i - 1])
    BY <1>3
  <1>5. \A k \in 1 .. Len(kept) : kept[k] # img
    BY <1>1 DEF K8s!Remembered
  <1>6. \A i, k \in 1 .. Len(all) : all[i] = all[k] => i = k
    <2> SUFFICES ASSUME NEW i \in 1 .. Len(all), NEW k \in 1 .. Len(all), all[i] = all[k]
                 PROVE  i = k
      OBVIOUS
    <2>1. CASE i = 1
      BY <1>3, <1>4, <1>5, <2>1
    <2>2. CASE k = 1
      BY <1>3, <1>4, <1>5, <2>2
    <2>3. CASE i # 1 /\ k # 1
      <3>1. i - 1 \in 1 .. Len(kept) /\ k - 1 \in 1 .. Len(kept) /\ kept[i - 1] = kept[k - 1]
        BY <1>4, <2>3
      <3>2. i - 1 = k - 1
        BY <1>1, <3>1
      <3>3. QED
        BY <3>2
    <2>4. QED
      BY <2>1, <2>2, <2>3
  <1>7. K8s!Remembered(all) = {img} \cup K8s!Remembered(h)
    <2>1. K8s!Remembered(all) = {img} \cup K8s!Remembered(kept)
      <3>1. \A x \in K8s!Remembered(all) : x \in {img} \cup K8s!Remembered(kept)
        BY <1>1, <1>3, <1>4 DEF K8s!Remembered
      <3>2. img \in K8s!Remembered(all)
        BY <1>3 DEF K8s!Remembered
      <3>3. ASSUME NEW k \in 1 .. Len(kept) PROVE kept[k] \in K8s!Remembered(all)
        <4>1. k + 1 \in DOMAIN all /\ all[k + 1] = kept[k]
          BY <1>3
        <4>2. QED
          BY <4>1 DEF K8s!Remembered
      <3>4. \A x \in K8s!Remembered(kept) : x \in K8s!Remembered(all)
        BY <1>1, <3>3 DEF K8s!Remembered
      <3>5. QED
        BY <3>1, <3>2, <3>4
    <2>2. QED
      BY <1>1, <2>1
  <1>8. room \in Nat /\ room <= Len(all) /\ room <= MaxHistory
    BY <1>3
  <1>9. CASE ~(Len(all) > MaxHistory)
    <2>1. K8s!Remember(img, h) = all /\ Len(all) <= MaxHistory
      BY <1>2, <1>3, <1>9
    <2>2. QED
      BY <1>3, <1>6, <1>7, <2>1
  <1>10. CASE Len(all) > MaxHistory
    <2>1. /\ K8s!Remember(img, h) \in Seq(S) /\ Len(K8s!Remember(img, h)) = MaxHistory
          /\ \A k \in 1 .. MaxHistory : K8s!Remember(img, h)[k] = all[k]
      BY <1>2, <1>3, <1>10
    <2>2. Cardinality({img} \cup K8s!Remembered(h)) = Len(all)
      <3>1. \A i, k \in DOMAIN all : all[i] = all[k] => i = k
        BY <1>3, <1>6
      <3>2. Cardinality(K8s!Remembered(all)) = Len(all)
        BY <1>3, <3>1, NamedOnce
      <3>3. QED
        BY <1>7, <3>2
    <2>3. \A i \in 1 .. MaxHistory : i \in 1 .. Len(all)
      BY <1>3, <1>10
    <2>4. QED
      BY <1>3, <1>6, <1>10, <2>1, <2>2, <2>3
  <1>11. QED
    BY <1>9, <1>10

\* A module that is instantiated brings its own names of what it extends.
LEMMA SameSizes ==
  /\ \A S : K8s!IsFiniteSet(S) <=> IsFiniteSet(S)
  /\ \A S : K8s!Cardinality(S) = Cardinality(S)
  <1>1. ASSUME NEW S PROVE K8s!IsFiniteSet(S) <=> IsFiniteSet(S)
    BY DEF K8s!IsFiniteSet, IsFiniteSet
  <1>2. ASSUME NEW S PROVE K8s!Cardinality(S) = Cardinality(S)
    BY DEF K8s!Cardinality, Cardinality
  <1>3. QED
    BY <1>1, <1>2

\* What the parts of a manifest are.
LEMMA ManifestParts ==
  ASSUME NEW m, K8s!ManifestOK(m)
  PROVE  /\ m \in K8s!Manifest /\ m.history \in Seq(K8s!Built) /\ Len(m.history) <= MaxHistory
         /\ \A i, k \in DOMAIN m.history : m.history[i] = m.history[k] => i = k
         /\ {m.image, m.current} \subseteq K8s!Built \cup {NoImage}
         /\ K8s!Remembered(m.history) \subseteq K8s!Built
  <1>1. /\ m \in K8s!Manifest /\ m.history \in Seq(K8s!Built) /\ Len(m.history) <= MaxHistory
        /\ \A i, k \in DOMAIN m.history : m.history[i] = m.history[k] => i = k
        /\ {m.image, m.current} \subseteq K8s!Built \cup {NoImage}
    BY DEF K8s!ManifestOK, K8s!Manifest
  <1>2. \A k \in DOMAIN m.history : m.history[k] \in K8s!Built
    BY <1>1
  <1>3. QED
    BY <1>1, <1>2 DEF K8s!Remembered

\* The template, which no run has annotated.
LEMMA TheTemplate ==
  ASSUME MaxHistory \in Nat
  PROVE  /\ K8s!ManifestOK(K8s!NoManifest) /\ K8s!NoManifest.image = NoImage
         /\ K8s!NoManifest.current = NoImage /\ K8s!Remembered(K8s!NoManifest.history) = {}
  <1>1. /\ <<>> \in Seq(K8s!Built) /\ Len(<<>>) = 0 /\ DOMAIN <<>> = {}
    OBVIOUS
  <1>2. QED
    BY <1>1 DEF K8s!ManifestOK, K8s!NoManifest, K8s!Manifest, K8s!Remembered

\* What a workload ran and what it runs now are finitely many.
LEMMA OneMoreRan ==
  ASSUME NEW R, NEW img, K8s!IsFiniteSet(R)
  PROVE  /\ K8s!IsFiniteSet(R \cup {img})
         /\ MaxHistory \in Nat /\ K8s!Cardinality(R \cup {img}) <= MaxHistory =>
              K8s!Cardinality(R) <= MaxHistory
         /\ K8s!Cardinality(R) \in Nat
  <1>1. IsFiniteSet(R)
    BY SameSizes
  <1>2. IsFiniteSet(R \cup {img})
    BY <1>1, FS_AddElement
  <1>3. Cardinality(R) \in Nat /\ Cardinality(R \cup {img}) \in Nat
    BY <1>1, <1>2, FS_CardinalityType
  <1>4. Cardinality(R) <= Cardinality(R \cup {img})
    BY <1>2, FS_Subset
  <1>5. QED
    BY <1>2, <1>3, <1>4, SameSizes

LEMMA ManifestsBegin ==
  ASSUME K8s!Assumed
  PROVE  K8s!Init => K8s!TypeOK /\ K8s!IInv
  <1> SUFFICES ASSUME K8s!Init PROVE K8s!TypeOK /\ K8s!IInv
    OBVIOUS
  <1>1. /\ K8s!ManifestOK(K8s!NoManifest) /\ K8s!NoManifest.image = NoImage
        /\ K8s!NoManifest \in K8s!Manifest
    BY TheTemplate, ManifestParts DEF K8s!Assumed
  <1>2. IsFiniteSet({})
    BY FS_EmptySet
  <1>3. K8s!IsFiniteSet({})
    BY <1>2, SameSizes
  <1>4. K8s!TypeOK
    BY <1>1, <1>3 DEF K8s!Init, K8s!TypeOK, K8s!Assumed
  <1>5. K8s!RunsAreKnown
    BY <1>1 DEF K8s!Init, K8s!RunsAreKnown
  <1>6. \A w \in Workloads : K8s!Remembers(w, K8s!NoManifest)
    BY TheTemplate DEF K8s!Init, K8s!Remembers, K8s!Assumed
  <1>7. K8s!ManifestsRemember
    BY <1>6 DEF K8s!Init, K8s!ManifestsRemember
  <1>8. QED
    BY <1>4, <1>5, <1>7 DEF K8s!IInv

\* An edit, a build and a failure touch no manifest.
LEMMA BuildsTouchNothing ==
  ASSUME K8s!Assumed, K8s!TypeOK, K8s!IInv,
         \/ \E p \in K8s!Projects : K8s!Push(p) \/ \E o \in Operators : K8s!Build(o, p)
         \/ \E o \in Operators : K8s!BuildFails(o)
  PROVE  K8s!TypeOK' /\ K8s!IInv'
  <1>1. CASE \E p \in K8s!Projects : K8s!Push(p)
    BY <1>1 DEF K8s!Push, K8s!ghostVars, K8s!TypeOK, K8s!Assumed, K8s!IInv, K8s!RunsAreKnown,
                K8s!ManifestsRemember, K8s!Remembers
  <1>2. CASE \E p \in K8s!Projects : \E o \in Operators : K8s!Build(o, p)
    <2>1. PICK p \in K8s!Projects, o \in Operators : K8s!Build(o, p)
      BY <1>2
    <2>2. <<p, code[p]>> \in K8s!Built
      BY DEF K8s!TypeOK, K8s!Built
    <2>3. QED
      BY <2>1, <2>2 DEF K8s!Build, K8s!ghostVars, K8s!TypeOK, K8s!IInv, K8s!RunsAreKnown,
                K8s!ManifestsRemember, K8s!Remembers
  <1>3. CASE \E o \in Operators : K8s!BuildFails(o)
    BY <1>3 DEF K8s!BuildFails, K8s!Forget, K8s!ghostVars, K8s!TypeOK, K8s!IInv,
                K8s!RunsAreKnown, K8s!ManifestsRemember, K8s!Remembers
  <1>4. QED
    BY <1>1, <1>2, <1>3

\* An operator that begins has what the cluster has, or nothing.
LEMMA BeginningLooks ==
  ASSUME K8s!Assumed, K8s!TypeOK, K8s!IInv, NEW o \in Operators,
         NEW affected \in SUBSET K8s!Projects, NEW reachable \in SUBSET Workloads,
         K8s!Decide(o, affected, reachable)
  PROVE  K8s!TypeOK' /\ K8s!IInv'
  <1> DEFINE asked == {w \in Workloads : projectOf[w] \notin affected}
             looked == [w \in Workloads |-> IF w \in asked \cap reachable THEN cluster[w] ELSE Nothing]
             known == [p \in K8s!Projects |->
                         IF p \in affected THEN NoImage ELSE K8s!Existing(p, looked)]
  <1>1. /\ cached' = [cached EXCEPT ![o] = looked] /\ resolved' = [resolved EXCEPT ![o] = known]
        /\ op' = [op EXCEPT ![o] = "build"] /\ stale' = [stale EXCEPT ![o] = FALSE]
        /\ UNCHANGED <<code, doc, cluster, saved, applies, derived, ran, excused>>
    BY DEF K8s!Decide
  <1>2. \A w \in Workloads : looked[w] \in {Nothing, cluster[w]}
    OBVIOUS
  <1>3. looked \in [Workloads -> K8s!Manifest \cup {Nothing}]
    BY DEF K8s!TypeOK
  <1> HIDE DEF looked
  <1>4. ASSUME NEW p PROVE K8s!Existing(p, looked) \in K8s!Built \cup {NoImage}
    <2> DEFINE ws == {w \in Workloads :
                        projectOf[w] = p /\ looked[w] # Nothing /\ looked[w] # K8s!NoManifest}
               w == CHOOSE w \in ws : TRUE
    <2>1. CASE ws = {}
      BY <2>1 DEF K8s!Existing
    <2>2. CASE ws # {}
      <3>1. w \in ws
        BY <2>2
      <3>2. w \in Workloads /\ looked[w] = cluster[w]
        BY <1>2, <3>1
      <3>3. K8s!Existing(p, looked) \in {looked[w].current, looked[w].image}
        BY <2>2 DEF K8s!Existing
      <3> HIDE DEF w
      <3>4. K8s!ManifestOK(cluster[w])
        BY <3>2 DEF K8s!TypeOK
      <3>5. QED
        BY <3>2, <3>3, <3>4, ManifestParts
    <2>3. QED
      BY <2>1, <2>2
  <1>5. known \in [K8s!Projects -> K8s!Built \cup {NoImage}]
    BY <1>4
  <1> HIDE DEF known
  <1>6. K8s!TypeOK'
    BY <1>1, <1>2, <1>3, <1>5 DEF K8s!TypeOK
  <1>7. K8s!RunsAreKnown'
    BY <1>1, <1>2 DEF K8s!TypeOK, K8s!IInv, K8s!RunsAreKnown
  <1>8. K8s!ManifestsRemember'
    BY <1>1 DEF K8s!TypeOK, K8s!IInv, K8s!ManifestsRemember, K8s!Remembers
  <1>9. QED
    BY <1>6, <1>7, <1>8 DEF K8s!IInv

\* A file is as good as what the operator had in hand.
LEMMA SavingKeeps ==
  ASSUME K8s!Assumed, K8s!TypeOK, K8s!IInv, NEW o \in Operators, K8s!Save(o)
  PROVE  K8s!TypeOK' /\ K8s!IInv'
  <1>1. K8s!ManifestOK(K8s!NoManifest) /\ K8s!NoManifest \in K8s!Manifest
    BY TheTemplate, ManifestParts DEF K8s!Assumed
  <1>2. K8s!TypeOK'
    BY <1>1 DEF K8s!TypeOK, K8s!Save, K8s!Forget
  <1>3. NoImage \notin K8s!Built
    BY DEF K8s!Assumed
  <1>4. K8s!RunsAreKnown'
    BY <1>3 DEF K8s!TypeOK, K8s!IInv, K8s!RunsAreKnown, K8s!Save, K8s!Forget
  <1>5. K8s!ManifestsRemember'
    BY DEF K8s!TypeOK, K8s!IInv, K8s!ManifestsRemember, K8s!Remembers, K8s!Save, K8s!Forget
  <1>6. QED
    BY <1>2, <1>4, <1>5 DEF K8s!IInv

\* What a manifest remembers, it remembers once it runs.
LEMMA RunningIsRemembered ==
  ASSUME K8s!Assumed, NEW w \in Workloads, NEW m, K8s!Remembers(w, m), K8s!IsFiniteSet(ran[w]),
         ran'[w] = ran[w] \cup {m.image}, ~excused'[w] => ~excused[w]
  PROVE  K8s!Remembers(w, m)'
  <1>1. K8s!Cardinality(ran'[w]) <= MaxHistory => K8s!Cardinality(ran[w]) <= MaxHistory
    BY OneMoreRan DEF K8s!Assumed
  <1>2. QED
    BY <1>1 DEF K8s!Remembers

LEMMA ApplyingKeeps ==
  ASSUME K8s!Assumed, K8s!TypeOK, K8s!IInv, NEW o \in Operators, K8s!Apply(o)
  PROVE  K8s!TypeOK' /\ K8s!IInv'
  <1>1. K8s!ManifestOK(K8s!NoManifest) /\ K8s!NoManifest \in K8s!Manifest
    BY TheTemplate, ManifestParts DEF K8s!Assumed
  <1>2. \A w \in Workloads : doc[o][w].image \in K8s!Built /\ K8s!IsFiniteSet(ran'[w])
    BY OneMoreRan DEF K8s!Apply, K8s!TypeOK, K8s!IInv, K8s!RunsAreKnown
  <1>3. K8s!TypeOK'
    <2>1. applies' \in 0 .. MaxApplies
      BY DEF K8s!TypeOK, K8s!Apply, K8s!Assumed
    <2>2. /\ excused' \in [Workloads -> BOOLEAN] /\ derived' \in [Workloads -> BOOLEAN]
          /\ stale' \in [Operators -> BOOLEAN]
      BY DEF K8s!TypeOK, K8s!Apply
    <2>3. ran' \in [Workloads -> SUBSET K8s!Built]
      BY <1>2 DEF K8s!TypeOK, K8s!Apply
    <2>4. /\ cluster' \in [Workloads -> K8s!Manifest]
          /\ doc' \in [Operators -> [Workloads -> K8s!Manifest]]
      BY <1>1 DEF K8s!TypeOK, K8s!Apply
    <2>5. \A w \in Workloads : /\ K8s!ManifestOK(cluster'[w])
                               /\ \A x \in Operators : K8s!ManifestOK(doc'[x][w])
      BY <1>1 DEF K8s!TypeOK, K8s!Apply
    <2>6. /\ cached' \in [Operators -> [Workloads -> K8s!Manifest \cup {Nothing}]]
          /\ \A w \in Workloads, x \in Operators :
               cached'[x][w] = Nothing \/ K8s!ManifestOK(cached'[x][w])
          /\ op' \in [Operators -> {"idle", "build", "done"}]
          /\ resolved' \in [Operators -> [K8s!Projects -> K8s!Built \cup {NoImage}]]
      BY DEF K8s!TypeOK, K8s!Apply, K8s!Forget
    <2>7. UNCHANGED <<code, saved>>
      BY DEF K8s!Apply
    <2>8. QED
      BY <1>2, <2>1, <2>2, <2>3, <2>4, <2>5, <2>6, <2>7 DEF K8s!TypeOK
  <1>4. K8s!RunsAreKnown'
    BY <1>2 DEF K8s!TypeOK, K8s!IInv, K8s!RunsAreKnown, K8s!Apply, K8s!Forget
  <1>5. \A w \in Workloads : ~stale[o] => K8s!Remembers(w, doc[o][w])
    BY DEF K8s!Apply, K8s!IInv, K8s!ManifestsRemember
  <1>6. ASSUME NEW w \in Workloads PROVE K8s!Remembers(w, cluster[w])'
    <2>1. CASE stale[o]
      BY <2>1 DEF K8s!Apply, K8s!Remembers
    <2>2. CASE ~stale[o]
      <3>1. PICK m : m = doc[o][w]
        OBVIOUS
      <3>2. /\ K8s!Remembers(w, m) /\ K8s!IsFiniteSet(ran[w])
            /\ ran'[w] = ran[w] \cup {m.image} /\ (~excused'[w] => ~excused[w])
        BY <1>5, <2>2, <3>1 DEF K8s!Apply, K8s!TypeOK
      <3>3. K8s!Remembers(w, m)'
        BY <3>2, RunningIsRemembered
      <3>4. cluster'[w] = m
        BY <3>1 DEF K8s!Apply
      <3>5. QED
        BY <3>3, <3>4 DEF K8s!Remembers
    <2>3. QED
      BY <2>1, <2>2
  <1>7. K8s!ManifestsRemember'
    BY <1>6 DEF K8s!ManifestsRemember, K8s!Apply
  <1>8. QED
    BY <1>3, <1>4, <1>7 DEF K8s!IInv

LEMMA ApplyingAFileKeeps ==
  ASSUME K8s!Assumed, K8s!TypeOK, K8s!IInv, NEW w \in Workloads, K8s!ApplySaved(w)
  PROVE  K8s!TypeOK' /\ K8s!IInv'
  <1>1. PICK m : m = saved[w]
    OBVIOUS
  <1>2. /\ m.image \in K8s!Built /\ K8s!ManifestOK(m) /\ m \in K8s!Manifest
    <2>1. K8s!ManifestOK(m) /\ (m = K8s!NoManifest \/ m.image # NoImage) /\ m # K8s!NoManifest
      BY <1>1 DEF K8s!ApplySaved, K8s!TypeOK, K8s!IInv, K8s!RunsAreKnown
    <2>2. QED
      BY <2>1, ManifestParts
  <1>3. /\ cluster' = [cluster EXCEPT ![w] = m] /\ applies < MaxApplies /\ applies' = applies + 1
        /\ ran' = [ran EXCEPT ![w] = ran[w] \cup {m.image}]
        /\ stale' = [x \in Operators |-> TRUE]
        /\ excused' = [excused EXCEPT ![w] = excused[w] \/ ~derived[w]]
        /\ UNCHANGED <<code, op, resolved, cached, doc, saved, derived>>
    BY <1>1 DEF K8s!ApplySaved
  <1>4. /\ cluster'[w] = m /\ ran'[w] = ran[w] \cup {m.image}
        /\ excused'[w] = (excused[w] \/ ~derived[w])
        /\ \A x \in Workloads \ {w} : cluster'[x] = cluster[x] /\ ran'[x] = ran[x]
                                      /\ excused'[x] = excused[x]
    <2>1. DOMAIN cluster = Workloads /\ DOMAIN ran = Workloads /\ DOMAIN excused = Workloads
      BY DEF K8s!TypeOK
    <2>2. QED
      BY <1>3, <2>1
  <1>5. K8s!IsFiniteSet(ran'[w])
    <2>1. K8s!IsFiniteSet(ran[w])
      BY DEF K8s!TypeOK
    <2>2. K8s!IsFiniteSet(ran[w] \cup {m.image})
      BY <2>1, OneMoreRan
    <2>3. QED
      BY <1>4, <2>2
  <1>6. K8s!TypeOK'
    <2>1. applies' \in 0 .. MaxApplies
      BY <1>3 DEF K8s!TypeOK, K8s!Assumed
    <2>2. \A x \in Workloads : K8s!IsFiniteSet(ran'[x]) /\ K8s!ManifestOK(cluster'[x])
      BY <1>2, <1>4, <1>5 DEF K8s!TypeOK
    <2>3. /\ cluster' \in [Workloads -> K8s!Manifest] /\ ran' \in [Workloads -> SUBSET K8s!Built]
          /\ excused' \in [Workloads -> BOOLEAN] /\ stale' \in [Operators -> BOOLEAN]
      BY <1>2, <1>3 DEF K8s!TypeOK
    <2>4. QED
      BY <1>3, <2>1, <2>2, <2>3 DEF K8s!TypeOK
  <1>7. K8s!RunsAreKnown'
    BY <1>2, <1>3, <1>4 DEF K8s!TypeOK, K8s!IInv, K8s!RunsAreKnown
  <1>8. K8s!Remembers(w, m)'
    <2>1. CASE derived[w] /\ ~excused[w]
      <3>1. K8s!Remembers(w, m) /\ K8s!IsFiniteSet(ran[w])
        BY <1>1, <2>1 DEF K8s!IInv, K8s!ManifestsRemember, K8s!TypeOK
      <3>2. QED
        BY <1>4, <2>1, <3>1, RunningIsRemembered
    <2>2. CASE ~(derived[w] /\ ~excused[w])
      BY <1>4, <2>2 DEF K8s!Remembers
    <2>3. QED
      BY <2>1, <2>2
  <1>9. \A x \in Workloads : K8s!Remembers(x, cluster[x])'
    <2>1. ASSUME NEW x \in Workloads, x # w PROVE K8s!Remembers(x, cluster[x])'
      BY <1>4, <2>1 DEF K8s!IInv, K8s!ManifestsRemember, K8s!Remembers
    <2>2. K8s!Remembers(w, cluster[w])'
      BY <1>4, <1>8 DEF K8s!Remembers
    <2>3. QED
      BY <2>1, <2>2
  <1>10. \A x \in Workloads : derived'[x] => K8s!Remembers(x, saved[x])'
    <2>1. ASSUME NEW x \in Workloads, x # w, derived'[x] PROVE K8s!Remembers(x, saved[x])'
      <3>1. K8s!Remembers(x, saved[x])
        BY <1>3, <2>1 DEF K8s!IInv, K8s!ManifestsRemember
      <3>2. QED
        BY <1>3, <1>4, <2>1, <3>1 DEF K8s!Remembers
    <2>2. K8s!Remembers(w, saved[w])'
      BY <1>1, <1>3, <1>8 DEF K8s!Remembers
    <2>3. QED
      BY <2>1, <2>2
  <1>11. K8s!ManifestsRemember'
    BY <1>3, <1>9, <1>10 DEF K8s!ManifestsRemember
  <1>12. QED
    BY <1>6, <1>7, <1>11 DEF K8s!IInv

\* What is rewritten is a manifest, whatever the cluster said.
LEMMA RewrittenOK ==
  ASSUME K8s!Assumed, NEW w \in Workloads, NEW img \in K8s!Built, NEW live,
         K8s!ManifestOK(live)
  PROVE  /\ K8s!ManifestOK(K8s!Rewritten(w, img, live))
         /\ K8s!Rewritten(w, img, live).image = img
         /\ K8s!Rewritten(w, img, live).current = img
  <1> DEFINE old == IF live.current # NoImage THEN live.current ELSE live.image
             named == IF old \notin {NoImage, img} THEN K8s!Remember(old, live.history)
                      ELSE live.history
  <1>1. K8s!Rewritten(w, img, live) =
          [image |-> img, other |-> beside[w], current |-> img, history |-> named]
    BY DEF K8s!Rewritten
  <1>2. /\ live.history \in Seq(K8s!Built) /\ Len(live.history) <= MaxHistory
        /\ \A i, k \in DOMAIN live.history : live.history[i] = live.history[k] => i = k
        /\ old \in K8s!Built \cup {NoImage}
    BY ManifestParts
  <1> HIDE DEF old
  <1>3. /\ named \in Seq(K8s!Built) /\ Len(named) <= MaxHistory
        /\ \A i, k \in DOMAIN named : named[i] = named[k] => i = k
    <2>1. CASE old \in {NoImage, img}
      BY <1>2, <2>1
    <2>2. CASE old \notin {NoImage, img}
      <3>1. old \in K8s!Built /\ MaxHistory \in Nat
        BY <1>2, <2>2 DEF K8s!Assumed
      <3>2. QED
        BY <1>2, <2>2, <3>1, RememberedFirst
    <2>3. QED
      BY <2>1, <2>2
  <1> HIDE DEF named
  <1>4. QED
    BY <1>1, <1>3 DEF K8s!ManifestOK, K8s!Manifest

\* An operator that sees what runs, and that it is what was asked for, forgets
\* nothing: what is displaced was run, so there is room for it.
LEMMA RewritingRemembers ==
  ASSUME K8s!Assumed, NEW w \in Workloads, NEW img \in K8s!Built, NEW live,
         K8s!ManifestOK(live), K8s!Remembers(w, live), live.current = live.image,
         live.image \in ran[w] \cup {NoImage}, K8s!IsFiniteSet(ran[w]), ran[w] \subseteq K8s!Built
  PROVE  K8s!Remembers(w, K8s!Rewritten(w, img, live))
  <1> DEFINE m == K8s!Rewritten(w, img, live)
             old == live.image
             known == {old} \cup K8s!Remembered(live.history)
  <1> SUFFICES ASSUME ~excused[w], K8s!Cardinality(ran[w]) <= MaxHistory
               PROVE  /\ ran[w] \subseteq {m.image} \cup K8s!Remembered(m.history)
                      /\ {m.image} \cup K8s!Remembered(m.history) \subseteq ran[w] \cup {m.current}
    BY DEF K8s!Remembers
  <1>1. m.image = img /\ m.current = img
    BY RewrittenOK
  <1>2. m.history = IF old \notin {NoImage, img} THEN K8s!Remember(old, live.history)
                    ELSE live.history
    BY DEF K8s!Rewritten
  <1>3. ran[w] \subseteq known /\ known \subseteq ran[w] \cup {live.current}
    BY DEF K8s!Remembers
  <1>4. /\ live.history \in Seq(K8s!Built) /\ K8s!Remembered(live.history) \subseteq K8s!Built
        /\ \A i, k \in DOMAIN live.history : live.history[i] = live.history[k] => i = k
        /\ old \in K8s!Built \cup {NoImage}
    BY ManifestParts
  <1>5. NoImage \notin K8s!Built /\ MaxHistory \in Nat
    BY DEF K8s!Assumed
  <1> HIDE DEF m, old
  <1>6. K8s!Remembered(live.history) \subseteq ran[w] /\ old \in ran[w] \cup {NoImage}
    BY <1>3, <1>4, <1>5 DEF old
  <1>7. CASE old \in {NoImage, img}
    BY <1>1, <1>2, <1>3, <1>5, <1>6, <1>7
  <1>8. CASE old \notin {NoImage, img}
    <2>1. old \in K8s!Built /\ known \subseteq ran[w]
      BY <1>4, <1>6, <1>8
    <2>2. IsFiniteSet(ran[w]) /\ Cardinality(ran[w]) <= MaxHistory
      BY SameSizes
    <2>3. Cardinality(known) <= MaxHistory
      <3>1. /\ IsFiniteSet(known) /\ Cardinality(known) <= Cardinality(ran[w])
        BY <2>1, <2>2, FS_Subset
      <3>2. Cardinality(known) \in Nat /\ Cardinality(ran[w]) \in Nat
        BY <2>2, <3>1, FS_CardinalityType
      <3>3. QED
        BY <1>5, <2>2, <3>1, <3>2
    <2>4. K8s!Remembered(K8s!Remember(old, live.history)) = known
      BY <1>4, <1>5, <2>1, <2>3, RememberedFirst
    <2>5. QED
      BY <1>1, <1>2, <1>3, <1>8, <2>1, <2>4
  <1>9. QED
    BY <1>7, <1>8

LEMMA RewriteKeeps ==
  ASSUME K8s!Assumed, K8s!TypeOK, K8s!IInv, NEW o \in Operators,
         NEW reachable \in SUBSET Workloads, K8s!Rewrite(o, reachable)
  PROVE  K8s!TypeOK' /\ K8s!IInv'
  <1> DEFINE live(w) == K8s!queryClusterState(o, w, reachable)
             img(w) == resolved[o][projectOf[w]]
             made == [w \in Workloads |-> K8s!Rewritten(w, img(w), live(w))]
  <1>1. /\ op[o] = "build" /\ \A p \in K8s!Projects : resolved[o][p] # NoImage
        /\ doc' = [doc EXCEPT ![o] = made] /\ op' = [op EXCEPT ![o] = "done"]
        /\ excused' = [w \in Workloads |->
                         \/ excused[w] \/ live(w).current # live(w).image
                         \/ cached[o][w] = Nothing /\ w \notin reachable]
        /\ UNCHANGED <<code, resolved, cached, cluster, saved, applies, stale, derived, ran>>
    BY DEF K8s!Rewrite
  <1>2. \A w \in Workloads : img(w) \in K8s!Built
    <2>1. resolved[o] \in [K8s!Projects -> K8s!Built \cup {NoImage}]
      BY DEF K8s!TypeOK
    <2>2. \A w \in Workloads : projectOf[w] \in K8s!Projects
      BY DEF K8s!Projects
    <2>3. QED
      BY <1>1, <2>1, <2>2
  <1>3. \A w \in Workloads : K8s!ManifestOK(live(w))
    BY TheTemplate DEF K8s!queryClusterState, K8s!TypeOK, K8s!Assumed
  <1>4. ASSUME NEW w \in Workloads, ~excused'[w]
        PROVE  /\ ~excused[w] /\ live(w).current = live(w).image
               /\ cached[o][w] # Nothing \/ w \in reachable
    BY <1>1, <1>4
  <1>5. ASSUME NEW w \in Workloads, ~excused'[w], ~stale[o] PROVE live(w) = cluster[w]
    BY <1>1, <1>4, <1>5 DEF K8s!queryClusterState, K8s!IInv, K8s!RunsAreKnown
  <1> HIDE DEF live, img
  <1>6. \A w \in Workloads : K8s!ManifestOK(made[w]) /\ made[w].image \in K8s!Built
    BY <1>2, <1>3, RewrittenOK
  <1>7. ASSUME NEW w \in Workloads, ~excused[w], ~excused'[w], ~stale[o]
        PROVE  K8s!Remembers(w, made[w])
    <2>1. /\ K8s!ManifestOK(live(w)) /\ K8s!Remembers(w, live(w)) /\ live(w).current = live(w).image
          /\ live(w).image \in ran[w] \cup {NoImage} /\ K8s!IsFiniteSet(ran[w])
          /\ ran[w] \subseteq K8s!Built
      BY <1>4, <1>5, <1>7 DEF K8s!TypeOK, K8s!IInv, K8s!RunsAreKnown, K8s!ManifestsRemember
    <2>2. QED
      BY <1>2, <2>1, RewritingRemembers
  <1>8. /\ made \in [Workloads -> K8s!Manifest] /\ \A w \in Workloads : K8s!ManifestOK(made[w])
        /\ excused' \in [Workloads -> BOOLEAN]
    <2>1. excused' \in [Workloads -> BOOLEAN]
      BY <1>1 DEF K8s!TypeOK
    <2>2. QED
      BY <1>6, <2>1, ManifestParts
  <1> HIDE DEF made
  <1>9. K8s!TypeOK'
    BY <1>1, <1>8 DEF K8s!TypeOK
  <1>10. K8s!RunsAreKnown'
    BY <1>1, <1>6 DEF K8s!TypeOK, K8s!IInv, K8s!RunsAreKnown
  <1>11. ASSUME NEW w \in Workloads, NEW m, K8s!Remembers(w, m) PROVE K8s!Remembers(w, m)'
    <2>1. ~excused'[w] => ~excused[w]
      BY <1>4
    <2>2. QED
      BY <1>1, <1>11, <2>1 DEF K8s!Remembers
  <1>12. ASSUME NEW w \in Workloads PROVE K8s!Remembers(w, cluster[w])'
    <2>1. PICK m : m = cluster[w]
      OBVIOUS
    <2>2. K8s!Remembers(w, m)'
      BY <1>11, <2>1 DEF K8s!IInv, K8s!ManifestsRemember
    <2>3. QED
      BY <1>1, <2>1, <2>2 DEF K8s!Remembers
  <1>13. ASSUME NEW w \in Workloads, derived'[w] PROVE K8s!Remembers(w, saved[w])'
    <2>1. PICK m : m = saved[w]
      OBVIOUS
    <2>2. K8s!Remembers(w, m)'
      BY <1>1, <1>11, <1>13, <2>1 DEF K8s!IInv, K8s!ManifestsRemember
    <2>3. QED
      BY <1>1, <2>1, <2>2 DEF K8s!Remembers
  <1>14. ASSUME NEW w \in Workloads, NEW x \in Operators, op'[x] = "done", ~stale'[x]
         PROVE  K8s!Remembers(w, doc[x][w])'
    <2>1. CASE x = o
      <3>1. PICK m : m = made[w]
        OBVIOUS
      <3>2. doc'[x][w] = m /\ ~stale[o]
        BY <1>1, <1>14, <2>1, <3>1 DEF K8s!TypeOK
      <3>3. CASE excused'[w]
        BY <3>3 DEF K8s!Remembers
      <3>4. CASE ~excused'[w]
        <4>1. K8s!Remembers(w, m)
          BY <1>4, <1>7, <3>1, <3>2, <3>4
        <4>2. K8s!Remembers(w, m)'
          BY <1>11, <4>1
        <4>3. QED
          BY <3>2, <4>2 DEF K8s!Remembers
      <3>5. QED
        BY <3>3, <3>4
    <2>2. CASE x # o
      <3>1. PICK m : m = doc[x][w]
        OBVIOUS
      <3>2. doc'[x][w] = m /\ op[x] = "done" /\ ~stale[x]
        BY <1>1, <1>14, <2>2, <3>1 DEF K8s!TypeOK
      <3>3. K8s!Remembers(w, m)'
        BY <1>11, <3>1, <3>2 DEF K8s!IInv, K8s!ManifestsRemember
      <3>4. QED
        BY <3>2, <3>3 DEF K8s!Remembers
    <2>3. QED
      BY <2>1, <2>2
  <1>15. K8s!ManifestsRemember'
    BY <1>12, <1>13, <1>14 DEF K8s!ManifestsRemember
  <1>16. QED
    BY <1>9, <1>10, <1>15 DEF K8s!IInv

\* The image rolled back from takes the place of the one rolled back to.
LEMMA RolledBackRemembers ==
  ASSUME K8s!Assumed, NEW m, K8s!ManifestOK(m), m.image \in K8s!Built,
         NEW to \in K8s!Remembered(m.history)
  PROVE  /\ K8s!ManifestOK(K8s!RolledBack(m, to)) /\ K8s!RolledBack(m, to).image = to
         /\ to \in K8s!Built
         /\ \A w \in Workloads :
              K8s!Remembers(w, m) /\ K8s!IsFiniteSet(ran[w]) =>
                K8s!Remembers(w, K8s!RolledBack(m, to))
  <1> DEFINE h == K8s!Without(to, m.history)
             other == IF m.other = NoImage THEN NoImage ELSE to
             b == K8s!RolledBack(m, to)
             named == {m.image} \cup K8s!Remembered(m.history)
  <1>1. /\ m \in K8s!Manifest /\ m.history \in Seq(K8s!Built) /\ Len(m.history) <= MaxHistory
        /\ \A i, k \in DOMAIN m.history : m.history[i] = m.history[k] => i = k
        /\ K8s!Remembered(m.history) \subseteq K8s!Built
    BY ManifestParts
  <1>2. to \in K8s!Built /\ MaxHistory \in Nat
    BY <1>1 DEF K8s!Assumed
  <1>3. CASE m.image = to
    <2>1. b = [m EXCEPT !.other = other]
      BY <1>3 DEF K8s!RolledBack
    <2>2. b.image = m.image /\ b.history = m.history /\ b.current = m.current
      BY <1>1, <2>1 DEF K8s!Manifest
    <2>3. K8s!ManifestOK(b)
      BY <1>1, <1>2, <2>1 DEF K8s!ManifestOK, K8s!Manifest
    <2> HIDE DEF b
    <2>4. \A w \in Workloads : K8s!Remembers(w, m) => K8s!Remembers(w, b)
      BY <2>2 DEF K8s!Remembers
    <2>5. QED
      BY <1>2, <1>3, <2>2, <2>3, <2>4 DEF b
  <1>4. CASE m.image # to
    <2> DEFINE all == K8s!Remember(m.image, h)
    <2>1. /\ h \in Seq(K8s!Built) /\ K8s!Remembered(h) = K8s!Remembered(m.history) \ {to}
          /\ \A i, k \in DOMAIN h : h[i] = h[k] => i = k
      BY <1>1, WithoutIt
    <2>2. b = [m EXCEPT !.image = to, !.other = other, !.history = all]
      BY <1>4 DEF K8s!RolledBack
    <2> HIDE DEF h
    <2>3. /\ all \in Seq(K8s!Built) /\ Len(all) <= MaxHistory
          /\ \A i, k \in DOMAIN all : all[i] = all[k] => i = k
          /\ Cardinality({m.image} \cup K8s!Remembered(h)) <= MaxHistory =>
               K8s!Remembered(all) = {m.image} \cup K8s!Remembered(h)
      BY <1>2, <2>1, RememberedFirst
    <2>4. {m.image} \cup K8s!Remembered(h) = named \ {to}
      BY <1>4, <2>1
    <2> HIDE DEF all
    <2>5. b.image = to /\ b.history = all /\ b.current = m.current
      BY <1>1, <2>2 DEF K8s!Manifest
    <2>6. K8s!ManifestOK(b)
      <3>1. b \in K8s!Manifest
        BY <1>1, <1>2, <2>2, <2>3 DEF K8s!Manifest
      <3>2. QED
        BY <2>3, <2>5, <3>1 DEF K8s!ManifestOK
    <2> HIDE DEF b
    <2>7. ASSUME NEW w \in Workloads, K8s!Remembers(w, m), K8s!IsFiniteSet(ran[w])
          PROVE  K8s!Remembers(w, b)
      <3> SUFFICES ASSUME ~excused[w], K8s!Cardinality(ran[w]) <= MaxHistory
                   PROVE  /\ ran[w] \subseteq {b.image} \cup K8s!Remembered(b.history)
                          /\ {b.image} \cup K8s!Remembered(b.history) \subseteq ran[w] \cup {b.current}
        BY DEF K8s!Remembers
      <3>1. ran[w] \subseteq named /\ named \subseteq ran[w] \cup {m.current}
        BY <2>7 DEF K8s!Remembers
      <3>2. IsFiniteSet(ran[w]) /\ Cardinality(ran[w]) <= MaxHistory
        BY <2>7, SameSizes
      <3>3. /\ IsFiniteSet(ran[w] \cup {m.current})
            /\ Cardinality(ran[w] \cup {m.current}) <= Cardinality(ran[w]) + 1
        <4>1. Cardinality(ran[w]) \in Nat
          BY <3>2, FS_CardinalityType
        <4>2. QED
          BY SMTT(60), <3>2, <4>1, FS_AddElement
      <3> HIDE DEF named
      <3>4. IsFiniteSet(named) /\ Cardinality(named) <= Cardinality(ran[w] \cup {m.current})
        BY <3>1, <3>3, FS_Subset
      <3>5. to \in named
        BY DEF named
      <3>6. IsFiniteSet(named \ {to}) /\ Cardinality(named \ {to}) = Cardinality(named) - 1
        BY <3>4, <3>5, FS_RemoveElement
      <3>7. /\ Cardinality(ran[w]) \in Nat /\ Cardinality(named) \in Nat
            /\ Cardinality(ran[w] \cup {m.current}) \in Nat
        BY <3>2, <3>3, <3>4, FS_CardinalityType
      <3>8. Cardinality(named \ {to}) <= MaxHistory
        BY <1>2, <3>2, <3>3, <3>4, <3>6, <3>7
      <3>9. K8s!Remembered(all) = named \ {to}
        BY <2>3, <2>4, <3>8
      <3>10. QED
        BY <2>5, <3>1, <3>5, <3>9
    <2>8. QED
      BY <1>2, <2>5, <2>6, <2>7 DEF b
  <1>5. QED
    BY <1>3, <1>4

LEMMA RollingBackKeeps ==
  ASSUME K8s!Assumed, K8s!TypeOK, K8s!IInv, NEW w \in Workloads, NEW g, K8s!Rollback(w, g)
  PROVE  K8s!TypeOK' /\ K8s!IInv'
  <1>1. PICK m : m = saved[w]
    OBVIOUS
  <1>2. PICK to : to = m.history[g]
    OBVIOUS
  <1>3. /\ K8s!ManifestOK(m) /\ m.image \in K8s!Built /\ to \in K8s!Remembered(m.history)
    <2>1. /\ K8s!ManifestOK(m) /\ (m = K8s!NoManifest \/ m.image # NoImage) /\ m # K8s!NoManifest
          /\ g \in DOMAIN m.history
      BY <1>1 DEF K8s!Rollback, K8s!TypeOK, K8s!IInv, K8s!RunsAreKnown
    <2>2. QED
      BY <1>2, <2>1, ManifestParts DEF K8s!Remembered
  <1>4. PICK b : b = K8s!RolledBack(m, to)
    OBVIOUS
  <1>5. /\ K8s!ManifestOK(b) /\ b.image = to /\ to \in K8s!Built /\ b \in K8s!Manifest
        /\ \A x \in Workloads : K8s!Remembers(x, m) /\ K8s!IsFiniteSet(ran[x]) => K8s!Remembers(x, b)
    BY <1>3, <1>4, RolledBackRemembers, ManifestParts
  <1>6. /\ saved' = [saved EXCEPT ![w] = b]
        /\ UNCHANGED <<code, op, resolved, cached, doc, cluster, applies, K8s!ghostVars>>
    BY <1>1, <1>2, <1>4 DEF K8s!Rollback
  <1>7. saved'[w] = b /\ \A x \in Workloads \ {w} : saved'[x] = saved[x]
    BY <1>6 DEF K8s!TypeOK
  <1>8. K8s!TypeOK'
    BY <1>5, <1>6, <1>7 DEF K8s!TypeOK, K8s!ghostVars
  <1>9. NoImage \notin K8s!Built
    BY DEF K8s!Assumed
  <1>10. K8s!RunsAreKnown'
    BY <1>5, <1>6, <1>7, <1>9 DEF K8s!IInv, K8s!RunsAreKnown, K8s!ghostVars
  <1>11. ASSUME NEW x \in Workloads, derived'[x] PROVE K8s!Remembers(x, saved[x])'
    <2>1. K8s!Remembers(x, saved[x]) /\ K8s!IsFiniteSet(ran[x])
      BY <1>6, <1>11 DEF K8s!TypeOK, K8s!IInv, K8s!ManifestsRemember, K8s!ghostVars
    <2>2. CASE x = w
      <3>1. K8s!Remembers(x, b)
        BY <1>1, <1>5, <2>1, <2>2
      <3>2. QED
        BY <1>6, <1>7, <2>2, <3>1 DEF K8s!Remembers, K8s!ghostVars
    <2>3. CASE x # w
      BY <1>6, <1>7, <2>1, <2>3 DEF K8s!Remembers, K8s!ghostVars
    <2>4. QED
      BY <2>2, <2>3
  <1>12. K8s!ManifestsRemember'
    BY <1>6, <1>11 DEF K8s!IInv, K8s!ManifestsRemember, K8s!Remembers, K8s!ghostVars
  <1>13. QED
    BY <1>8, <1>10, <1>12 DEF K8s!IInv

\* Every image that a workload ran can be rolled back to, while its history is
\* long enough: resolve, apply and rollback lose none.
THEOREM HistoriesRemember ==
  ASSUME K8s!Assumed
  PROVE  K8s!Spec => [](K8s!TypeOK /\ K8s!HistoryRemembers)
  <1>1. K8s!Init => K8s!TypeOK /\ K8s!IInv
    BY ManifestsBegin
  <1>2. K8s!TypeOK /\ K8s!IInv /\ [K8s!Next]_(K8s!k8sVars) => K8s!TypeOK' /\ K8s!IInv'
    <2> SUFFICES ASSUME K8s!TypeOK, K8s!IInv, [K8s!Next]_(K8s!k8sVars)
                 PROVE  K8s!TypeOK' /\ K8s!IInv'
      OBVIOUS
    <2>1. CASE \/ \E p \in K8s!Projects : K8s!Push(p) \/ \E o \in Operators : K8s!Build(o, p)
               \/ \E o \in Operators : K8s!BuildFails(o)
      BY <2>1, BuildsTouchNothing
    <2>2. CASE \E o \in Operators : K8s!Apply(o) \/ K8s!Save(o)
      BY <2>2, ApplyingKeeps, SavingKeeps
    <2>3. CASE \E o \in Operators, affected \in SUBSET K8s!Projects, reachable \in SUBSET Workloads :
                 K8s!Decide(o, affected, reachable)
      BY <2>3, BeginningLooks
    <2>4. CASE \E o \in Operators, reachable \in SUBSET Workloads : K8s!Rewrite(o, reachable)
      BY <2>4, RewriteKeeps
    <2>5. CASE \E w \in Workloads : \/ K8s!ApplySaved(w)
                                    \/ \E g \in 1 .. MaxHistory : K8s!Rollback(w, g)
      BY <2>5, ApplyingAFileKeeps, RollingBackKeeps
    <2>6. CASE UNCHANGED K8s!k8sVars
      BY <2>6 DEF K8s!k8sVars, K8s!TypeOK, K8s!IInv, K8s!RunsAreKnown, K8s!ManifestsRemember,
                  K8s!Remembers
    <2>7. QED
      BY <2>1, <2>2, <2>3, <2>4, <2>5, <2>6 DEF K8s!Next
  <1>3. K8s!TypeOK /\ K8s!IInv => K8s!HistoryRemembers
    BY DEF K8s!TypeOK, K8s!IInv, K8s!ManifestsRemember, K8s!Remembers, K8s!HistoryRemembers
  <1>4. QED
    BY <1>1, <1>2, <1>3, PTL DEF K8s!Spec

\* What ran can be rolled back to, whoever applies what was resolved and when; a
\* rollout that is reported is one, and a valid configuration gets that far.
THEOREM RolloutsAreAlwaysHonest ==
  ASSUME K8s!Assumed, Ship!Assumed
  PROVE  K8s!Spec /\ Ship!Spec => []RolloutsAreHonest
  <1>1. K8s!Spec => [](K8s!TypeOK /\ K8s!HistoryRemembers)
    BY HistoriesRemember
  <1>2. Ship!Spec => [](/\ Ship!TypeOK /\ Ship!ReportedIsRollingOut /\ Ship!CredentialsAreKept
                        /\ Ship!ValidIsDeployable)
    BY RolloutsAreReal
  <1>3. QED
    BY <1>1, <1>2, PTL DEF RolloutsAreHonest

-----------------------------------------------------------------------------
(* Signatures and the startup attestation *)

\* What is accepted as a base, from the cache or by verify was signed for it, and
\* what passes the startup attestation is what the manifest was made of.
THEOREM EvidenceIsAlwaysGenuine ==
  ASSUME Evidence!Assumed, Start!Assumed, \A t \in Trees : t \in [AppFiles -> Start!Entries]
  PROVE  Evidence!Spec /\ Start!Spec => []EvidenceIsGenuine
  <1>1. Evidence!Spec => [](Evidence!TypeOK /\ Evidence!EvidenceIsGenuine)
    BY EvidenceIsEarned
  <1>2. Start!Spec => []Start!VerdictIsEarned
    BY Start!VerdictIsEarnedAlways
  <1>3. Start!Spec => []Start!SlotsAreFilled
    BY Start!SlotsAreFilledAlways
  <1>4. Start!Spec => []Start!MatchesAreKept
    BY Start!MatchesAreKeptAlways
  <1>5. QED
    BY <1>1, <1>2, <1>3, <1>4, PTL DEF EvidenceIsGenuine

-----------------------------------------------------------------------------
(* All of them *)

\* No step of a command, of the server, of the supervisor's configuration or of
\* the startup check leaves its state without its type, for the constants each
\* of them counts on.
THEOREM TypesAreKept ==
  /\ Up!Spec /\ Dev!Spec /\ Sync!Spec /\ Server!Spec /\ Boot!Spec
  /\ Ship!Spec /\ Evidence!Spec /\ K8s!Spec /\ Start!Spec
  => []TypeOK
  <1> USE OperatorAssumption
  <1>1. Up!Spec => [](Up!TypeOK /\ AlwaysAWorkingBinary)
    BY AWorkingBinaryIsThere
  <1>2. Dev!Spec => [](Dev!TypeOK /\ DevLoopIsHonest)
    BY SessionsAreHonest
  <1>3. Sync!Spec => [](Sync!TypeOK /\ ReportedSyncIsWhole)
    BY SyncsAreWhole
  <1>4. Server!Spec => [](/\ Server!TypeOK /\ Server!HandlesAreBounded
                          /\ Server!DrainsInOrder /\ Server!ResumedDownloadIsWhole)
    BY ServerIsSound
  <1>5. Boot!Spec => [](/\ Boot!TypeOK /\ Boot!EnvironmentNeverStops
                        /\ Boot!IgnoredIsTold /\ Boot!RunsSound)
    BY ConfigurationIsHonest
  <1>6. Ship!Spec => [](/\ Ship!TypeOK /\ Ship!ReportedIsRollingOut /\ Ship!CredentialsAreKept
                        /\ Ship!ValidIsDeployable)
    BY RolloutsAreReal
  <1>7. Evidence!Spec => [](Evidence!TypeOK /\ Evidence!EvidenceIsGenuine)
    BY EvidenceIsEarned
  <1>8. K8s!Spec => [](K8s!TypeOK /\ K8s!HistoryRemembers)
    BY HistoriesRemember
  <1>9. Start!Spec => []Start!TypeOK
    BY Start!TypeCorrect
  <1>10. QED
    BY <1>1, <1>2, <1>3, <1>4, <1>5, <1>6, <1>7, <1>8, <1>9, PTL DEF TypeOK
=============================================================================
