----------------------------- MODULE BunRuntime -----------------------------
(***************************************************************************)
(* bunruntime.Resolver: the on-disk cache of Bun binaries, shared by the   *)
(* concurrent Resolve calls of one build and by builds in other processes, *)
(* with its digest sidecars, its in-memory memo and its store of pinned    *)
(* checksums.                                                              *)
(*                                                                         *)
(* A binary stands for its digest: what a release archive holds is named   *)
(* by the archive.  A file carries the write that last changed it, which   *)
(* is what inode, size and mtime tell apart.  Hashing is an instant.       *)
(***************************************************************************)
EXTENDS FiniteSets

CONSTANTS
  Calls, Processes,
  process,       \* the process of each call
  Keys,          \* (version, variant, platform, launcher): one path each
  Stubs,         \* the keys that are compiled, not downloaded
  Archives,      \* what a download may deliver
  Signed,        \* per key: the archives a signed manifest may list for it
  Compiled,      \* pinnedReleaseChecksums, or None
  Offline,       \* the calls with --hermetic
  CrossDevice,   \* the temporary directory is on another file system
  Whole, Torn,   \* a compiled stub, and one that is only partly there
  Empty, Bad,    \* a truncated sidecar; a pin store that does not parse
  None

Contents == Archives \cup {Whole, Torn}

ASSUME CallAssumption ==
  /\ process \in [Calls -> Processes]
  /\ Stubs \subseteq Keys /\ Offline \subseteq Calls /\ CrossDevice \in BOOLEAN
ASSUME SourceAssumption ==
  /\ Signed \in [Keys -> SUBSET Archives]
  /\ Compiled \in [Keys -> Archives \cup {None}]
Writes == Calls \X {1, 2}
Binaries == [data : Contents, by : Writes]
Sidecars == [data : Contents \cup {Empty}, by : Writes]
Stats    == [bin : Writes \cup {None}, side : Writes \cup {None}]
Entries  == [sha : Contents, bin : Writes, side : Writes]

ASSUME ValueAssumption ==
  /\ Whole # Torn /\ {Whole, Torn} \cap Archives = {}
  /\ Empty \notin Contents
  /\ None \notin Contents \cup Writes \cup Binaries \cup Sidecars \cup Entries

VARIABLES
  pc, key,       \* per call: where it is, what it resolves
  seen,          \* per call: the pair of stats taken first, a write each
  want,          \* per call: the digest the binary is to have
  out,           \* per call: the digest it has; the one returned
  read,          \* per call: its copy of the pin store
  bin, side,     \* per key: the binary and its sidecar, or None
  pins,          \* checksums-pinned.json: a set of pairs, or Bad
  memo,          \* per process and key: an entry of r.verified, or None
  pinned         \* history: every key whose pin has been written

local == <<key, seen, want, out, read>>
disk  == <<bin, side>>
vars  == <<pc, local, disk, pins, memo, pinned>>

Returned == {"ok", "failed", "killed"}
Places == {"start", "stat", "statside", "verify", "hash", "restat", "restatside",
  "download", "manifest", "readpins", "truncpins", "writepins", "checksum",
  "compile", "copying", "rehash", "truncside", "writeside"} \cup Returned

At(c, s) == pc[c] = s
Goto(c, s) == pc' = [pc EXCEPT ![c] = s]

\* What a trusted source says a key's binary may be.
Genuine(k) == IF k \in Stubs THEN {Whole}
              ELSE IF Compiled[k] # None THEN {Compiled[k]} ELSE Signed[k]

-----------------------------------------------------------------------------
(* The cache hit *)

\* After a miss: compileStub, a hermetic refusal, or the download.
Missed(c) == IF key[c] \in Stubs THEN "compile"
             ELSE IF c \in Offline THEN "failed" ELSE "download"

Begin(c) ==
  /\ At(c, "start")
  /\ \E k \in Keys : key' = [key EXCEPT ![c] = k]
  /\ Goto(c, "stat")
  /\ UNCHANGED <<seen, want, out, read, disk, pins, memo, pinned>>

\* statCachePair, first file.
StatBinary(c) ==
  /\ At(c, "stat")
  /\ IF bin[key[c]] = None
     THEN Goto(c, Missed(c)) /\ UNCHANGED seen
     ELSE /\ Goto(c, "statside")
          /\ seen' = [seen EXCEPT ![c].bin = bin[key[c]].by]
  /\ UNCHANGED <<key, want, out, read, disk, pins, memo, pinned>>

\* lookupVerified: an entry counts only for the files it was stored for.
Remembered(c, s) ==
  LET m == memo[process[c]][key[c]]
  IN  m # None /\ m.bin = seen[c].bin /\ m.side = s.by

\* statCachePair, second file, then the memo.
StatSidecar(c) ==
  /\ At(c, "statside")
  /\ LET s == side[key[c]]
     IN  \/ /\ s = None
            /\ Goto(c, Missed(c)) /\ UNCHANGED <<seen, out>>
         \/ /\ s # None /\ Remembered(c, s)
            /\ out' = [out EXCEPT ![c] = memo[process[c]][key[c]].sha]
            /\ Goto(c, "ok") /\ UNCHANGED seen
         \/ /\ s # None /\ ~Remembered(c, s)
            /\ seen' = [seen EXCEPT ![c].side = s.by]
            /\ Goto(c, "verify") /\ UNCHANGED out
  /\ UNCHANGED <<key, want, read, disk, pins, memo, pinned>>

\* verifiedCacheHit reads the sidecar, then the binary.
ReadSidecar(c) ==
  /\ At(c, "verify")
  /\ want' = [want EXCEPT ![c] = side[key[c]].data]
  /\ Goto(c, "hash")
  /\ UNCHANGED <<key, seen, out, read, disk, pins, memo, pinned>>

HashCached(c) ==
  /\ At(c, "hash")
  /\ IF bin[key[c]].data = want[c]
     THEN /\ out' = [out EXCEPT ![c] = bin[key[c]].data]
          /\ Goto(c, "restat")
     ELSE Goto(c, Missed(c)) /\ UNCHANGED out
  /\ UNCHANGED <<key, seen, want, read, disk, pins, memo, pinned>>

\* Mutant: the entry is stored for the files as they are now.
RestatBinary_noCompare(c) ==
  /\ At(c, "restat")
  /\ Goto(c, "restatside")
  /\ seen' = [seen EXCEPT ![c].bin = bin[key[c]].by]
  /\ UNCHANGED <<key, want, out, read, disk, pins, memo, pinned>>

\* The second statCachePair; a changed file leaves the result unmemoised.
RestatBinary(c) ==
  /\ At(c, "restat")
  /\ Goto(c, IF bin[key[c]].by = seen[c].bin THEN "restatside" ELSE "ok")
  /\ UNCHANGED <<local, disk, pins, memo, pinned>>

\* storeVerified
RestatSidecar(c) ==
  /\ At(c, "restatside")
  /\ Goto(c, "ok")
  /\ memo' = IF side[key[c]].by # seen[c].side THEN memo
             ELSE [memo EXCEPT ![process[c]][key[c]] =
                     [sha |-> out[c], bin |-> seen[c].bin, side |-> seen[c].side]]
  /\ UNCHANGED <<local, disk, pins, pinned>>

-----------------------------------------------------------------------------
(* Filling the cache *)

\* The zip, read whole into memory; a pinned release has its checksum already.
Download(c) ==
  /\ At(c, "download")
  /\ \E a \in Archives : out' = [out EXCEPT ![c] = a]
  /\ want' = [want EXCEPT ![c] = Compiled[key[c]]]
  /\ Goto(c, IF Compiled[key[c]] # None THEN "checksum" ELSE "manifest")
  /\ UNCHANGED <<key, seen, read, disk, pins, memo, pinned>>

\* fetchVerifiedChecksum
Manifest(c) ==
  /\ At(c, "manifest")
  /\ \E s \in Signed[key[c]] : want' = [want EXCEPT ![c] = s]
  /\ Goto(c, "readpins")
  /\ UNCHANGED <<key, seen, out, read, disk, pins, memo, pinned>>

\* r.mu, held over the read and, separately, over the write.
MuFree(c) == \A d \in Calls : process[d] = process[c] => ~At(d, "writepins")

\* checkAndPinChecksum reads the store; what does not parse holds no pin.
ReadPins(c) ==
  /\ At(c, "readpins") /\ MuFree(c)
  /\ LET found == IF pins = Bad THEN {} ELSE pins
         mine  == {p \in found : p[1] = key[c]}
     IN  \/ /\ mine = {}
            /\ read' = [read EXCEPT ![c] = found]
            /\ Goto(c, "truncpins")
         \/ /\ mine # {}
            /\ Goto(c, IF mine = {<<key[c], want[c]>>} THEN "checksum" ELSE "failed")
            /\ UNCHANGED read
  /\ UNCHANGED <<key, seen, want, out, disk, pins, memo, pinned>>

\* os.WriteFile opens with O_TRUNC, or cannot open: the pin is best effort.
TruncatePins(c) ==
  /\ At(c, "truncpins") /\ MuFree(c)
  /\ \/ Goto(c, "writepins") /\ pins' = Bad
     \/ Goto(c, "checksum") /\ UNCHANGED pins
  /\ UNCHANGED <<local, disk, memo, pinned>>

\* The whole map, from the copy read before.  Over what another process has
\* written since the truncation, the end of the longer text may remain.
WritePins(c) ==
  /\ At(c, "writepins")
  /\ \/ /\ pins' = read[c] \cup {<<key[c], want[c]>>}
        /\ pinned' = pinned \cup {key[c]}
     \/ /\ pins # Bad
        /\ pins' = Bad /\ UNCHANGED pinned
  /\ Goto(c, "checksum")
  /\ UNCHANGED <<local, disk, memo>>

\* Mutant: the archive is unpacked before it is verified.
Extract_unverified(c) ==
  /\ At(c, "checksum")
  /\ bin' = [bin EXCEPT ![key[c]] = [data |-> out[c], by |-> <<c, 1>>]]
  /\ Goto(c, IF out[c] = want[c] THEN "rehash" ELSE "failed")
  /\ UNCHANGED <<local, side, pins, memo, pinned>>

\* The checksum comparison; the binary is unpacked into a file of its own and
\* renamed into place.
Extract(c) ==
  /\ At(c, "checksum")
  /\ IF out[c] = want[c]
     THEN /\ bin' = [bin EXCEPT ![key[c]] = [data |-> out[c], by |-> <<c, 1>>]]
          /\ Goto(c, "rehash")
     ELSE Goto(c, "failed") /\ UNCHANGED bin
  /\ UNCHANGED <<local, side, pins, memo, pinned>>

\* compileStub: renamed into place, or, from another file system, copied over
\* whatever is there.
Compile(c) ==
  /\ At(c, "compile")
  /\ bin' = [bin EXCEPT ![key[c]] =
       [data |-> IF CrossDevice THEN Torn ELSE Whole, by |-> <<c, 1>>]]
  /\ Goto(c, IF CrossDevice THEN "copying" ELSE "rehash")
  /\ UNCHANGED <<local, side, pins, memo, pinned>>

\* Mutant: the error of the copy is dropped.
Copy_errorIgnored(c) ==
  /\ At(c, "copying")
  /\ \/ bin' = [bin EXCEPT ![key[c]] = [data |-> Whole, by |-> <<c, 2>>]]
     \/ UNCHANGED bin
  /\ Goto(c, "rehash")
  /\ UNCHANGED <<local, side, pins, memo, pinned>>

Copy(c) ==
  /\ At(c, "copying")
  /\ bin' = [bin EXCEPT ![key[c]] = [data |-> Whole, by |-> <<c, 2>>]]
  /\ Goto(c, "rehash")
  /\ UNCHANGED <<local, side, pins, memo, pinned>>

\* The digest of the path, not of the bytes this call put there.
Rehash(c) ==
  /\ At(c, "rehash")
  /\ out' = [out EXCEPT ![c] = bin[key[c]].data]
  /\ Goto(c, "truncside")
  /\ UNCHANGED <<key, seen, want, read, disk, pins, memo, pinned>>

\* writeCacheDigestSidecar
TruncateSidecar(c) ==
  /\ At(c, "truncside")
  /\ side' = [side EXCEPT ![key[c]] = [data |-> Empty, by |-> <<c, 1>>]]
  /\ Goto(c, "writeside")
  /\ UNCHANGED <<local, bin, pins, memo, pinned>>

WriteSidecar(c) ==
  /\ At(c, "writeside")
  /\ side' = [side EXCEPT ![key[c]] = [data |-> out[c], by |-> <<c, 2>>]]
  /\ Goto(c, "ok")
  /\ UNCHANGED <<local, bin, pins, memo, pinned>>

\* An error return.  Nothing already on disk is taken back.
Fail(c) ==
  /\ pc[c] \in {"download", "manifest", "checksum", "compile", "copying",
                "rehash", "truncside", "writeside"}
  /\ Goto(c, "failed")
  /\ UNCHANGED <<local, disk, pins, memo, pinned>>

\* A process ends with its calls unfinished; its memo goes with it.
Kill(p) ==
  /\ \E c \in Calls : process[c] = p /\ pc[c] \notin Returned \cup {"start"}
  /\ pc' = [c \in Calls |-> IF process[c] = p /\ pc[c] \notin Returned
                            THEN "killed" ELSE pc[c]]
  /\ memo' = [memo EXCEPT ![p] = [k \in Keys |-> None]]
  /\ UNCHANGED <<local, disk, pins, pinned>>

-----------------------------------------------------------------------------

Init ==
  /\ pc = [c \in Calls |-> "start"]
  /\ key = [c \in Calls |-> None]
  /\ seen = [c \in Calls |-> [bin |-> None, side |-> None]]
  /\ want = [c \in Calls |-> None]
  /\ out = [c \in Calls |-> None]
  /\ read = [c \in Calls |-> {}]
  /\ bin = [k \in Keys |-> None] /\ side = [k \in Keys |-> None]
  /\ pins = Bad
  /\ memo = [p \in Processes |-> [k \in Keys |-> None]]
  /\ pinned = {}

Resolve(c) ==
  \/ Begin(c) \/ StatBinary(c) \/ StatSidecar(c)
  \/ ReadSidecar(c) \/ HashCached(c) \/ RestatBinary(c) \/ RestatSidecar(c)
  \/ Download(c) \/ Manifest(c) \/ ReadPins(c) \/ TruncatePins(c) \/ WritePins(c)
  \/ Extract(c) \/ Compile(c) \/ Copy(c)
  \/ Rehash(c) \/ TruncateSidecar(c) \/ WriteSidecar(c) \/ Fail(c)

Next == (\E c \in Calls : Resolve(c)) \/ (\E p \in Processes : Kill(p))

Spec == Init /\ [][Next]_vars

-----------------------------------------------------------------------------
(* Properties *)

\* Every variable has its type.
TypeOK ==
  /\ pc \in [Calls -> Places]
  /\ key \in [Calls -> Keys \cup {None}]
  /\ seen \in [Calls -> Stats]
  /\ want \in [Calls -> Contents \cup {Empty, None}]
  /\ out \in [Calls -> Contents \cup {None}]
  /\ read \in [Calls -> SUBSET (Keys \X Archives)]
  /\ bin \in [Keys -> Binaries \cup {None}]
  /\ side \in [Keys -> Sidecars \cup {None}]
  /\ pins \in (SUBSET (Keys \X Archives)) \cup {Bad}
  /\ memo \in [Processes -> [Keys -> Entries \cup {None}]]
  /\ pinned \subseteq Keys

\* A resolved release binary is one a trusted source vouched for, whatever
\* other calls and processes did, crashed or failed at meanwhile, and the path
\* that was returned never holds anything else (Resolve's steps 4 and 5).
ServedIsVerified ==
  \A c \in Calls : At(c, "ok") /\ key[c] \notin Stubs =>
    /\ out[c] \in Genuine(key[c])
    /\ bin[key[c]].data \in Genuine(key[c])

\* The binary would pass verifiedCacheHit.
Trusted(k) == bin[k] # None /\ side[k] # None /\ bin[k].data = side[k].data

\* What is on disk is trusted only if it is genuine, however its writers ended.
\* The exception needs two writers: a stub half copied by one whose digest
\* another recorded; one that fails alone leaves nothing that is trusted.
TrustIsEarned ==
  \A k \in Keys : Trusted(k) =>
    \/ bin[k].data \in Genuine(k)
    \/ k \in Stubs /\ CrossDevice /\ side[k].by[1] # bin[k].by[1]

\* memoizedVerifiedCacheHit is a strict wrapper: where the memo would answer,
\* the full check would give the same answer.
MemoIsAWrapper ==
  \A p \in Processes, k \in Keys :
    LET m == memo[p][k]
    IN  m # None /\ bin[k].by = m.bin /\ side[k].by = m.side =>
          Trusted(k) /\ bin[k].data = m.sha

\* What checkAndPinChecksum's comment promises: the checksum of a key is
\* persisted the first time, to be compared on every later resolve.
PinsAreKept ==
  pins # Bad => \A k \in pinned : \E a \in Archives : <<k, a>> \in pins

-----------------------------------------------------------------------------
(* The inductive invariant *)

\* Where a call is says what it resolves and which files it has seen.
Placed(c) ==
  /\ pc[c] \notin {"start", "killed"} => key[c] \in Keys
  /\ pc[c] \in {"download", "manifest", "readpins", "truncpins", "writepins", "checksum"}
       => key[c] \notin Stubs
  /\ pc[c] \in {"manifest", "readpins", "truncpins", "writepins"} => Compiled[key[c]] = None
  /\ pc[c] \in {"readpins", "truncpins", "writepins"} => want[c] \in Signed[key[c]]
  /\ At(c, "checksum") => want[c] \in Genuine(key[c])
  /\ pc[c] \in {"compile", "copying"} => key[c] \in Stubs
  /\ pc[c] \in {"statside", "verify", "hash", "restat", "restatside"}
       => seen[c].bin # None
  /\ pc[c] \in {"verify", "hash", "restat", "restatside"}
       => seen[c].side # None /\ side[key[c]] # None
  /\ pc[c] \in {"statside", "verify", "hash", "restat", "restatside",
                 "copying", "rehash", "truncside", "writeside", "ok"}
       => bin[key[c]] # None

\* The digest a call is about to record or return is genuine.
DigestInHand(c) ==
  pc[c] \in {"restat", "restatside", "truncside", "writeside", "ok"} =>
    out[c] \in Contents /\ (key[c] \notin Stubs => out[c] \in Genuine(key[c]))

\* What a call about to fill the memo has read is what the files with the
\* stats it took hold.
ReadsMatchStats(c) ==
  /\ At(c, "hash") =>
       (side[key[c]].by = seen[c].side => side[key[c]].data = want[c])
  /\ pc[c] \in {"restat", "restatside"} =>
       /\ bin[key[c]].by = seen[c].bin => bin[key[c]].data = out[c]
       /\ side[key[c]].by = seen[c].side => side[key[c]].data = out[c]

\* The writes that have been made to a binary, and to a sidecar.
BinMade == {w \in Writes :
  \/ pc[w[1]] \in {"rehash", "truncside", "writeside"} \cup Returned
  \/ At(w[1], "copying") /\ w[2] = 1}
SideMade == {w \in Writes :
  \/ pc[w[1]] \in Returned
  \/ At(w[1], "writeside") /\ w[2] = 1}

\* No stat that was taken, or could be, shows a write that is still to come.
StatsArePast(c) ==
  seen[c].bin \in BinMade \cup {None} /\ seen[c].side \in SideMade \cup {None}

\* A binary on disk is genuine, or a stub whose copier has not finished; who
\* wrote it was resolving it.
Unfinished == {c \in Calls : pc[c] \in {"copying", "failed", "killed"}}
BinIsGenuine(k) ==
  bin[k] # None =>
    /\ bin[k].by \in BinMade /\ key[bin[k].by[1]] = k
    /\ \/ bin[k].data \in Genuine(k)
       \/ k \in Stubs /\ CrossDevice /\ bin[k].by[1] \in Unfinished

\* A digest on disk was put there by a call that has succeeded.
Succeeded == {c \in Calls : At(c, "ok")}
SideIsEarned(k) ==
  side[k] # None =>
    side[k].by \in SideMade /\ (side[k].data = Empty \/ side[k].by[1] \in Succeeded)

\* An entry of the memo is of files that exist, and its digest is genuine.
MemoIsEarned(p, k) ==
  memo[p][k] # None =>
    /\ memo[p][k].bin \in BinMade /\ memo[p][k].side \in SideMade
    /\ bin[k] # None /\ side[k] # None
    /\ k \notin Stubs => memo[p][k].sha \in Genuine(k)

\* The inductive invariant: why MemoIsAWrapper and TrustIsEarned hold.
IInv ==
  /\ \A c \in Calls : Placed(c) /\ DigestInHand(c) /\ ReadsMatchStats(c) /\ StatsArePast(c)
  /\ \A k \in Keys : BinIsGenuine(k) /\ SideIsEarned(k)
  /\ \A p \in Processes, k \in Keys : MemoIsEarned(p, k)
  /\ MemoIsAWrapper
=============================================================================
