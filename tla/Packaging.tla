------------------------------ MODULE Packaging ------------------------------
(***************************************************************************)
(* Packager.Build, run for every platform of one build at the same time    *)
(* over the same host trees: two of the steps rewrite a tree in place      *)
(* (precompression adds sidecars, strip shrinks native binaries), and the  *)
(* tar walk of another platform may be reading it.                         *)
(*                                                                         *)
(* A tree stands for what is in it.  Its sidecar is                        *)
(*   "none"    missing                                                     *)
(*   "old"     of an earlier version of the file, and older than the file  *)
(*   "torn"    cut short by a write that failed, and newer than the file   *)
(*   "whole"   what the file compresses to                                 *)
(* and its bytes are "raw" or "stripped".                                  *)
(***************************************************************************)
EXTENDS Naturals, Sequences

CONSTANTS
  Images,        \* the platforms of the build
  Layers,        \* the trees, in the order their layers are appended
  Precompressed, \* client and prerendered
  Stripped,      \* vendor and native
  Files,         \* the paths in the image
  filesOf,       \* [tree -> the paths it holds]
  Nobody

Trees == {Layers[i] : i \in DOMAIN Layers}

VARIABLES
  packing,   \* "no", "yes", then "packed" or "failed", and "cleaned"
  place,     \* [image -> index of the layer it is at]
  doing,     \* [image -> what it is doing there]
  dirLock,   \* [tree -> who holds precompressutils' lock]
  stripOnce, \* [tree -> "no", "running", "done"]
  sidecar,   \* [tree -> state of its sidecar]
  smaller,   \* [tree -> the file compresses to something smaller]
  bytes,     \* [tree -> "raw" or "stripped"]
  memo,      \* [tree -> "no", "running", "built", "failed"]
  layer,     \* [tree -> what its layer was built from]
  temp,      \* the layers whose temporary file exists
  ioFailed   \* history: a sidecar could not be written

packVars == <<packing, place, doing, dirLock, stripOnce, sidecar, smaller, bytes,
              memo, layer, temp, ioFailed>>
disk == <<sidecar, smaller, bytes, ioFailed>>

Tree(i) == Layers[place[i]]
NoLayer == [bytes |-> "none", sidecar |-> "none"]

Init ==
  /\ packing = "no"
  /\ place = [i \in Images |-> 1]
  /\ doing = [i \in Images |-> "rewrite"]
  /\ dirLock = [t \in Trees |-> Nobody]
  /\ stripOnce = [t \in Trees |-> "no"]
  /\ sidecar = [t \in Trees |-> "none"]
  /\ smaller = [t \in Trees |-> TRUE]
  /\ bytes = [t \in Trees |-> "raw"]
  /\ memo = [t \in Trees |-> "no"]
  /\ layer = [t \in Trees |-> NoLayer]
  /\ temp = {} /\ ioFailed = FALSE

\* A build starts on trees that an earlier build may have left sidecars in.
StartPacking ==
  /\ packing = "no"
  /\ packing' = "yes"
  /\ sidecar' \in {s \in [Trees -> {"none", "old", "whole"}] :
                     \A t \in Trees \ Precompressed : s[t] = "none"}
  /\ smaller' \in {s \in [Trees -> BOOLEAN] : \A t \in Trees \ Precompressed : s[t]}
  /\ UNCHANGED <<place, doing, dirLock, stripOnce, bytes, memo, layer, temp, ioFailed>>

-----------------------------------------------------------------------------
(* Rewriting a tree in place *)

At(i, what) == packing = "yes" /\ doing[i] = what
Do(i, what) == doing' = [doing EXCEPT ![i] = what]

NothingToRewrite(i) ==
  /\ At(i, "rewrite") /\ Tree(i) \notin Precompressed \cup Stripped
  /\ Do(i, "walk")
  /\ UNCHANGED <<packing, place, dirLock, stripOnce, disk, memo, layer, temp>>

\* lockForDir(dir).Lock()
LockDir(i) ==
  /\ At(i, "rewrite") /\ Tree(i) \in Precompressed /\ dirLock[Tree(i)] = Nobody
  /\ dirLock' = [dirLock EXCEPT ![Tree(i)] = i]
  /\ Do(i, "compress")
  /\ UNCHANGED <<packing, place, stripOnce, disk, memo, layer, temp>>

\* A sidecar's own time is the source's; one cut short keeps the time of the
\* failed write.
isStale(t) == sidecar[t] \in {"none", "old"}

\* PrecompressFile: a fresh sidecar is left alone, and so is one whose new
\* content would not be smaller.
LeaveSidecar(i) ==
  /\ At(i, "compress") /\ (isStale(Tree(i)) => ~smaller[Tree(i)])
  /\ dirLock' = [dirLock EXCEPT ![Tree(i)] = Nobody]
  /\ Do(i, "walk")
  /\ UNCHANGED <<packing, place, stripOnce, disk, memo, layer, temp>>

BeginSidecar(i) ==
  /\ At(i, "compress") /\ isStale(Tree(i)) /\ smaller[Tree(i)]
  /\ Do(i, "writing")
  /\ UNCHANGED <<packing, place, dirLock, stripOnce, disk, memo, layer, temp>>

\* os.WriteFile in place, whose error is dropped: nothing, or a part, remains.
writeSidecar(i) ==
  /\ At(i, "writing")
  /\ \/ /\ sidecar' = [sidecar EXCEPT ![Tree(i)] = "whole"]
        /\ UNCHANGED ioFailed
     \/ /\ \E s \in {sidecar[Tree(i)], "torn"} : sidecar' = [sidecar EXCEPT ![Tree(i)] = s]
        /\ ioFailed' = TRUE
  /\ dirLock' = [dirLock EXCEPT ![Tree(i)] = Nobody]
  /\ Do(i, "walk")
  /\ UNCHANGED <<packing, place, stripOnce, smaller, bytes, memo, layer, temp>>

\* Mutant: every platform strips the tree, one at a time.
stripTreeOnce_perPlatform(i) ==
  /\ At(i, "rewrite") /\ Tree(i) \in Stripped /\ stripOnce[Tree(i)] # "running"
  /\ stripOnce' = [stripOnce EXCEPT ![Tree(i)] = "running"]
  /\ Do(i, "stripping")
  /\ UNCHANGED <<packing, place, dirLock, disk, memo, layer, temp>>

\* once.Do: the first platform strips, the others wait for it.
stripTreeOnce(i) ==
  /\ At(i, "rewrite") /\ Tree(i) \in Stripped
  /\ \/ /\ stripOnce[Tree(i)] = "no"
        /\ stripOnce' = [stripOnce EXCEPT ![Tree(i)] = "running"]
        /\ Do(i, "stripping")
     \/ /\ stripOnce[Tree(i)] = "done"
        /\ Do(i, "walk")
        /\ UNCHANGED stripOnce
  /\ UNCHANGED <<packing, place, dirLock, disk, memo, layer, temp>>

\* StripDirectory: a tool that is missing or fails leaves the files alone.
StripDirectory(i) ==
  /\ At(i, "stripping")
  /\ \E b \in {bytes[Tree(i)], "stripped"} : bytes' = [bytes EXCEPT ![Tree(i)] = b]
  /\ stripOnce' = [stripOnce EXCEPT ![Tree(i)] = "done"]
  /\ Do(i, "walk")
  /\ UNCHANGED <<packing, place, dirLock, sidecar, smaller, memo, layer, temp, ioFailed>>

-----------------------------------------------------------------------------
(* Walking it into a layer *)

Next_layer(i) ==
  IF place[i] = Len(Layers)
  THEN Do(i, "packed") /\ UNCHANGED place
  ELSE Do(i, "rewrite") /\ place' = [place EXCEPT ![i] = @ + 1]

\* treeLayers: the first platform walks, the others take its layer or error.
buildDirectoryTreeLayer(i) ==
  /\ At(i, "walk")
  /\ \/ /\ memo[Tree(i)] = "no"
        /\ memo' = [memo EXCEPT ![Tree(i)] = "running"]
        /\ temp' = temp \cup {Tree(i)}
        /\ Do(i, "walking")
        /\ UNCHANGED place
     \/ /\ memo[Tree(i)] = "built" /\ Next_layer(i)
        /\ UNCHANGED <<memo, temp>>
     \/ /\ memo[Tree(i)] = "failed" /\ Do(i, "failed")
        /\ UNCHANGED <<memo, temp, place>>
  /\ UNCHANGED <<packing, dirLock, stripOnce, disk, layer>>

\* buildSinglePassLayer and writeTar: the tree as it is while it is read.
WalkEnds(i) ==
  /\ At(i, "walking")
  /\ \/ /\ memo' = [memo EXCEPT ![Tree(i)] = "built"]
        /\ layer' = [layer EXCEPT ![Tree(i)] =
                       [bytes |-> bytes[Tree(i)], sidecar |-> sidecar[Tree(i)]]]
        /\ Next_layer(i)
        /\ UNCHANGED temp
     \/ /\ memo' = [memo EXCEPT ![Tree(i)] = "failed"]
        /\ temp' = temp \ {Tree(i)}
        /\ Do(i, "failed")
        /\ UNCHANGED <<layer, place>>
  /\ UNCHANGED <<packing, dirLock, stripOnce, disk>>

-----------------------------------------------------------------------------
\* The fan-out is waited for; then the images are published from the
\* temporary files, or the build fails.
Waited ==
  /\ packing = "yes"
  /\ \A i \in Images : doing[i] \in {"packed", "failed"}
  /\ packing' = IF \E i \in Images : doing[i] = "failed" THEN "failed" ELSE "packed"
  /\ UNCHANGED <<place, doing, dirLock, stripOnce, disk, memo, layer, temp>>

\* runCoreBuild's deferred cleanup, once core.Build has returned.
cleanup ==
  /\ packing \in {"packed", "failed"}
  /\ packing' = "cleaned"
  /\ temp' = {}
  /\ UNCHANGED <<place, doing, dirLock, stripOnce, disk, memo, layer>>

Step(i) ==
  \/ NothingToRewrite(i) \/ LockDir(i) \/ LeaveSidecar(i) \/ BeginSidecar(i)
  \/ writeSidecar(i) \/ stripTreeOnce(i) \/ StripDirectory(i)
  \/ buildDirectoryTreeLayer(i) \/ WalkEnds(i)

Next == StartPacking \/ (\E i \in Images : Step(i)) \/ Waited \/ cleanup

Spec == Init /\ [][Next]_packVars

-----------------------------------------------------------------------------
(* The startup attestation *)

\* The layers of an image, as records of what each path holds.
Records == [n \in DOMAIN Layers |-> [rel |-> filesOf[Layers[n]], sha |-> layer[Layers[n]]]]

\* dedupeAttestRecordsByRel: the last record of a path wins.
RecordOf(f) ==
  LET with == {n \in DOMAIN Layers : f \in Records[n].rel}
  IN Records[CHOOSE n \in with : \A k \in with : k <= n].sha

\* What a container sees: of the layers that hold a path, the one over the others.
Mounted(f) ==
  LET top == CHOOSE n \in DOMAIN Layers :
               f \in filesOf[Layers[n]] /\ \A m \in n + 1 .. Len(Layers) : f \notin filesOf[Layers[m]]
  IN layer[Layers[top]]

-----------------------------------------------------------------------------
TypeOK ==
  /\ packing \in {"no", "yes", "packed", "failed", "cleaned"}
  /\ place \in [Images -> DOMAIN Layers]
  /\ doing \in [Images -> {"rewrite", "compress", "writing", "stripping", "walk", "walking",
                           "packed", "failed"}]
  /\ dirLock \in [Trees -> Images \cup {Nobody}]
  /\ stripOnce \in [Trees -> {"no", "running", "done"}]
  /\ sidecar \in [Trees -> {"none", "old", "torn", "whole"}]
  /\ smaller \in [Trees -> BOOLEAN] /\ ioFailed \in BOOLEAN
  /\ bytes \in [Trees -> {"raw", "stripped"}]
  /\ memo \in [Trees -> {"no", "running", "built", "failed"}]
  /\ temp \subseteq Trees

\* "Writes complete strictly before any walk begins", the argument of
\* stripTreeOnce and dirLocks: no platform rewrites a tree while, or after,
\* it is walked.  A sidecar that could not be written is tried again by the
\* next platform, and there the argument ends.
NoWriteUnderWalk ==
  \A i \in Images : doing[i] \in {"writing", "stripping"} =>
    memo[Tree(i)] = "no" \/ (doing[i] = "writing" /\ ioFailed)

\* Until the caller has the published image, the layers it is made of can be
\* read; after that, no temporary file is left.
LayersStayReadable ==
  /\ packing = "packed" => temp = Trees
  /\ packing = "cleaned" => temp = {}

\* pokkum-init hashes the files it finds at start and compares them with the
\* records taken while packaging: where two layers hold the same path, the
\* record is that of the layer that ends up on top.
AttestsWhatIsMounted ==
  packing = "packed" => \A f \in Files : RecordOf(f) = Mounted(f)

-----------------------------------------------------------------------------
(* The inductive invariant behind it *)

\* What the proofs rest on.
Assumed ==
  /\ Images # {} /\ Nobody \notin Images
  /\ Layers \in Seq(Trees) /\ Layers # <<>>
  /\ Precompressed \cap Stripped = {}
  /\ \A f \in Files : \E n \in DOMAIN Layers : f \in filesOf[Layers[n]]

\* Nothing more has to be written in a tree, but for a sidecar that failed.
Settled(t) ==
  /\ t \in Precompressed => ~isStale(t) \/ ~smaller[t] \/ ioFailed
  /\ t \in Stripped => stripOnce[t] = "done"

\* Who compresses a tree holds its lock, and writes a sidecar that needs it.
LocksAreHeld ==
  \A i \in Images :
    /\ doing[i] \in {"compress", "writing"} => Tree(i) \in Precompressed /\ dirLock[Tree(i)] = i
    /\ doing[i] = "writing" => isStale(Tree(i)) /\ smaller[Tree(i)]

\* One platform strips a tree, and one walks it.
OneAtATime ==
  \A i \in Images :
    /\ doing[i] = "stripping" => Tree(i) \in Stripped /\ stripOnce[Tree(i)] = "running"
    /\ doing[i] = "walking" => memo[Tree(i)] = "running"
    /\ \A j \in Images : doing[i] \in {"stripping", "walking"} /\ doing[j] = doing[i] /\ Tree(j) = Tree(i)
         => i = j

\* A tree is settled before anyone walks it.
WalksAreSettled ==
  /\ \A i \in Images : doing[i] \in {"walk", "walking"} => Settled(Tree(i))
  /\ \A t \in Trees : memo[t] # "no" => Settled(t)

\* What a platform has passed is built, and is there until the build is over.
PassedIsBuilt ==
  /\ packing = "no" => (\A i \in Images : doing[i] = "rewrite") /\ (\A t \in Trees : memo[t] = "no")
  /\ \A i \in Images : /\ \A n \in DOMAIN Layers : n < place[i] => memo[Layers[n]] = "built"
                       /\ doing[i] = "packed" => \A n \in DOMAIN Layers : memo[Layers[n]] = "built"
  /\ packing # "cleaned" => \A t \in Trees : memo[t] \in {"running", "built"} => t \in temp
  /\ packing = "packed" => \A i \in Images : doing[i] = "packed"
  /\ packing = "cleaned" => temp = {}

IInv == LocksAreHeld /\ OneAtATime /\ WalksAreSettled /\ PassedIsBuilt
=============================================================================
