--------------------------- MODULE BuildSideProofs ---------------------------
(***************************************************************************)
(* The components one build is made of, for every number of processes,     *)
(* commands, tags and digests: the theorems of LayerCache, BaseLock,       *)
(* BuildStages, Prepare, Overlay, Registry, LocalOutputs and Packaging.    *)
(***************************************************************************)
EXTENDS BuildSide, Integers, FiniteSets, Sequences, FiniteSetTheorems, WellFoundedInduction,
        TLAPS

-----------------------------------------------------------------------------
(* The cache of compressed layers *)

LEMMA CacheInit ==
  ASSUME Cache!Assumed
  PROVE  Cache!Init => Cache!TypeOK /\ Cache!IInv
  BY DEF Cache!Assumed, Cache!Init, Cache!TypeOK, Cache!Blobs, Cache!IInv, Cache!StartedTogether,
         Cache!EarlierIsKept, Cache!EarlierIsThere, Cache!CurrentStays, Cache!Progress,
         Cache!ServesWhatItNames

LEMMA CacheStep ==
  ASSUME Cache!Assumed, Cache!TypeOK, Cache!IInv, Cache!Next
  PROVE  Cache!TypeOK' /\ Cache!IInv'
  <1> USE DEF Cache!Assumed, Cache!Goto, Cache!Blobs, Cache!TypeOK, Cache!IInv, Cache!StartedTogether,
          Cache!EarlierIsKept, Cache!EarlierIsThere, Cache!CurrentStays, Cache!Progress,
          Cache!ServesWhatItNames
  <1>1. ASSUME NEW b \in Cache!Blobs \cup {Absent}, NEW m \in {Current, Earlier, Absent},
               Cache!Found(b, m)
        PROVE  Cache!TypeOK' /\ Cache!IInv'
    BY <1>1 DEF Cache!Found
  <1>2. ASSUME NEW u \in Users, Cache!Probe(u)
        PROVE  Cache!TypeOK' /\ Cache!IInv'
    <2>1. /\ blob = Absent \/ blob = Junk \/ blob \in {Current, Earlier}
          /\ blob = Absent => user' = [user EXCEPT ![u] = "build"]
          /\ blob = Junk => user' = [user EXCEPT ![u] = "remove"]
          /\ blob \in {Current, Earlier} => user' = [user EXCEPT ![u] = "match"]
      BY <1>2 DEF Cache!Probe
    <2>2. /\ user[u] = "get" /\ seen' = [seen EXCEPT ![u] = blob]
          /\ UNCHANGED <<blob, meta, handed, read>>
      BY <1>2 DEF Cache!Probe
    <2>3. QED
      BY <2>1, <2>2
  <1>3. ASSUME NEW u \in Users, Cache!RemoveBlob(u)
        PROVE  Cache!TypeOK' /\ Cache!IInv'
    BY <1>3 DEF Cache!RemoveBlob
  <1>4. ASSUME NEW u \in Users, Cache!readSidecar(u)
        PROVE  Cache!TypeOK' /\ Cache!IInv'
    BY <1>4 DEF Cache!readSidecar
  <1>5. ASSUME NEW u \in Users, Cache!Put(u)
        PROVE  Cache!TypeOK' /\ Cache!IInv'
    BY <1>5 DEF Cache!Put
  <1>6. ASSUME NEW u \in Users, Cache!writeSidecar(u)
        PROVE  Cache!TypeOK' /\ Cache!IInv'
    BY <1>6 DEF Cache!writeSidecar
  <1>7. ASSUME NEW u \in Users, Cache!Compressed(u)
        PROVE  Cache!TypeOK' /\ Cache!IInv'
    BY <1>7 DEF Cache!Compressed
  <1>8. ASSUME NEW u \in Users, Cache!Killed(u)
        PROVE  Cache!TypeOK' /\ Cache!IInv'
    BY <1>8 DEF Cache!Killed
  <1>9. QED
    BY <1>1, <1>2, <1>3, <1>4, <1>5, <1>6, <1>7, <1>8 DEF Cache!Next

\* A layer never gives bytes other than those its digest names, however many
\* processes share the cache, whatever an earlier release, or a disk that lost
\* data, left in it, and whoever is killed on the way.
THEOREM CacheServesWhatItNames ==
  ASSUME Cache!Assumed
  PROVE  Cache!Spec => [](Cache!TypeOK /\ Cache!ServesWhatItNames)
  <1>1. Cache!TypeOK /\ Cache!IInv /\ [Cache!Next]_(Cache!cacheVars)
          => (Cache!TypeOK /\ Cache!IInv)'
    <2>1. ASSUME Cache!TypeOK, Cache!IInv, UNCHANGED Cache!cacheVars
          PROVE  Cache!TypeOK' /\ Cache!IInv'
      BY <2>1
      DEF Cache!cacheVars, Cache!TypeOK, Cache!IInv, Cache!StartedTogether, Cache!EarlierIsKept,
          Cache!EarlierIsThere, Cache!CurrentStays, Cache!Progress, Cache!ServesWhatItNames
    <2>2. QED
      BY <2>1, CacheStep
  <1>2. Cache!IInv => Cache!ServesWhatItNames
    BY DEF Cache!IInv
  <1>3. QED
    BY <1>1, <1>2, CacheInit, PTL DEF Cache!Spec

-----------------------------------------------------------------------------
(* The base image resolver and the lock *)

USE DEF Base!Slots, Base!Digests, Base!Goto, Base!Base

\* What the lock holds for a base is an entry of it, in one slot or the other.
LEMMA EntryFound ==
  ASSUME Base!Assumed, NEW l \in Base!Locks, NEW b \in Bases,
         Base!lookupLockedBase(l, b) # NoEntry
  PROVE  /\ Base!lookupLockedBase(l, b) \in Base!Entry
         /\ Base!lookupLockedBase(l, b).digest \in 1 .. MaxDigest
         /\ Base!lookupLockedBase(l, b).mirror \in BOOLEAN
         /\ Base!lookupLockedBase(l, b).scan \in 0 .. MaxDigest
         /\ Base!ScansAreTrue(l) =>
              Base!lookupLockedBase(l, b).scan \in {0, Base!lookupLockedBase(l, b).digest}
  <1>1. PICK s \in Base!Slots : Base!lookupLockedBase(l, b) = l[s]
    BY DEF Base!lookupLockedBase
  <1>2. l[s] \in Base!Entry
    BY <1>1 DEF Base!Locks
  <1>3. Base!ScansAreTrue(l) => l[s].scan \in {0, l[s].digest}
    BY <1>1 DEF Base!ScansAreTrue, Base!Assumed
  <1>4. QED
    BY <1>1, <1>2, <1>3 DEF Base!Entry

\* A lock with the shared slot's entry moved is one, and its scans are as true.
LEMMA MovedLock ==
  ASSUME Base!Assumed, NEW l \in Base!Locks, NEW b \in Bases
  PROVE  /\ Base!Migrated(l, b) \in Base!Locks
         /\ Base!ScansAreTrue(l) => Base!ScansAreTrue(Base!Migrated(l, b))
  BY DEF Base!Assumed, Base!Migrated, Base!Locks, Base!ScansAreTrue

\* The lock a command writes: its new entry keeps a scan only of its own digest.
LEMMA NewLockIsTrue ==
  ASSUME Base!Assumed, Base!TypeOK, NEW c \in Commands, want[c] \in Base!Requests, pulled[c] # 0,
         Base!ScansAreTrue(lf[c]) \/ relocked
  PROVE  /\ Base!NewLock(c) \in Base!Locks
         /\ ~relocked => Base!ScansAreTrue(Base!NewLock(c))
  <1> DEFINE l == IF lf[c] = Torn THEN Base!EmptyLock ELSE lf[c]
             b == want[c].base
             e == Base!NewEntry(c)
  <1>1. b \in Bases /\ pulled[c] \in 1 .. MaxDigest /\ mirrorRef[c] \in BOOLEAN
    BY DEF Base!TypeOK, Base!Requests, Base!Assumed
  <1>2. l \in Base!Locks /\ (Base!ScansAreTrue(l) \/ relocked)
    BY DEF Base!TypeOK, Base!Locks, Base!EmptyLock, Base!ScansAreTrue
  <1>3. e \in Base!Entry /\ (e.scan \in {0, e.digest} \/ relocked)
    <2> DEFINE old  == IF lf[c] = Torn THEN NoEntry ELSE Base!lookupLockedBase(lf[c], b)
               same == old # NoEntry /\ old.digest = pulled[c]
    <2>1. same => /\ old.scan \in 0 .. MaxDigest /\ old.mirror \in BOOLEAN
                  /\ old.scan \in {0, old.digest} \/ relocked
      <3>1. CASE lf[c] = Torn
        BY <3>1
      <3>2. CASE lf[c] # Torn
        BY <1>1, <3>2, EntryFound DEF Base!TypeOK
      <3>3. QED
        BY <3>1, <3>2
    <2>2. e = [base |-> b, digest |-> pulled[c], mirror |-> mirrorRef[c] \/ (same /\ old.mirror),
               scan |-> IF same THEN old.scan ELSE 0]
      BY DEF Base!NewEntry
    <2>3. 0 \in 0 .. MaxDigest
      BY DEF Base!Assumed
    <2>4. QED
      BY <1>1, <2>1, <2>2, <2>3 DEF Base!Entry
  <1>4. Base!NewLock(c) =
          [l EXCEPT ![b] = e, !["custom"] = IF Base!fromLegacy(l, b) THEN NoEntry ELSE @]
    BY DEF Base!NewLock
  <1> HIDE DEF l, b, e
  <1>5. Base!NewLock(c) \in Base!Locks
    BY <1>1, <1>2, <1>3, <1>4 DEF Base!Locks
  <1>6. ASSUME ~relocked PROVE Base!ScansAreTrue(Base!NewLock(c))
    <2>1. l # Torn
      BY <1>2 DEF Base!Assumed
    <2>2. \A s \in Base!Slots : l[s] # NoEntry => l[s].scan \in {0, l[s].digest}
      BY <1>2, <1>6, <2>1 DEF Base!ScansAreTrue
    <2>3. SUFFICES ASSUME NEW s \in Base!Slots, Base!NewLock(c)[s] # NoEntry
                   PROVE  Base!NewLock(c)[s].scan \in {0, Base!NewLock(c)[s].digest}
      BY DEF Base!ScansAreTrue
    <2>4. Base!NewLock(c)[s] \in {e, l[s]}
      BY <1>2, <1>4, <2>3 DEF Base!Locks
    <2>5. QED
      BY <1>3, <1>6, <2>2, <2>3, <2>4
  <1>7. QED
    BY <1>5, <1>6

\* The lock with a scan recorded: that of the digest its command resolved.
LEMMA RecordedIsTrue ==
  ASSUME Base!Assumed, Base!TypeOK, NEW c \in Commands, want[c] \in Base!Requests,
         lf[c] # Torn, Base!lookupLockedBase(lf[c], Base!Base(c)) # NoEntry,
         \/ relocked
         \/ /\ Base!ScansAreTrue(lf[c])
            /\ Base!lookupLockedBase(lf[c], Base!Base(c)).digest = result[c]
  PROVE  /\ Base!Recorded(c) \in Base!Locks
         /\ ~relocked => Base!ScansAreTrue(Base!Recorded(c))
  <1> DEFINE old == Base!lookupLockedBase(lf[c], want[c].base)
             new == [old EXCEPT !.scan = result[c]]
  <1>1. want[c].base \in Bases /\ lf[c] \in Base!Locks /\ result[c] \in 0 .. MaxDigest
    BY DEF Base!TypeOK, Base!Requests
  <1>2. old \in Base!Entry
    BY <1>1, EntryFound
  <1>3. new \in Base!Entry /\ (relocked \/ new.scan = new.digest)
    BY <1>1, <1>2 DEF Base!Entry
  <1>4. Base!Recorded(c) = [lf[c] EXCEPT ![want[c].base] = new]
    BY DEF Base!Recorded
  <1> HIDE DEF old, new
  <1>5. QED
    BY <1>1, <1>3, <1>4 DEF Base!Locks, Base!ScansAreTrue

LEMMA BaseInit ==
  ASSUME Base!Assumed
  PROVE  Base!Init => Base!TypeOK /\ Base!IInv
  <1> SUFFICES ASSUME Base!Init PROVE Base!TypeOK /\ Base!IInv
    OBVIOUS
  <1>1. lock \in Base!Locks /\ Base!ScansAreTrue(lock)
    <2>1. CASE lock = Base!EmptyLock
      BY <2>1 DEF Base!EmptyLock, Base!Locks, Base!ScansAreTrue
    <2>2. ASSUME NEW b \in Custom,
                 lock = [Base!EmptyLock EXCEPT !["custom"] =
                           [base |-> b, digest |-> 1, mirror |-> FALSE, scan |-> 0]]
          PROVE  lock \in Base!Locks /\ Base!ScansAreTrue(lock)
      <3>1. [base |-> b, digest |-> 1, mirror |-> FALSE, scan |-> 0] \in Base!Entry
        BY DEF Base!Entry, Base!Assumed
      <3>2. QED
        BY <2>2, <3>1 DEF Base!EmptyLock, Base!Locks, Base!ScansAreTrue
    <2>3. QED
      BY <2>1, <2>2 DEF Base!Init
  <1>2. Base!TypeOK
    <2>1. 1 \in 1 .. MaxDigest /\ 0 \in 0 .. MaxDigest
      BY DEF Base!Assumed
    <2>2. tag \in [Bases -> 1 .. MaxDigest] /\ mirror \in [1 .. MaxDigest -> 0 .. MaxDigest]
      BY <2>1 DEF Base!Init
    <2>3. QED
      BY <1>1, <2>1, <2>2 DEF Base!Init, Base!TypeOK
  <1>3. Base!IInv
    BY <1>1 DEF Base!Init, Base!IInv, Base!Resolving, Base!Recording, Base!ScansAreTrue
  <1>4. QED
    BY <1>2, <1>3

\* What a step of one command does to the others, whose variables it leaves
\* alone, and to the truth of what they hold.
LEMMA OtherCommands ==
  ASSUME Base!TypeOK, Base!IInv, NEW c \in Commands,
         \A x \in Commands \ {c} :
           /\ at'[x] = at[x] /\ want'[x] = want[x] /\ lf'[x] = lf[x] /\ locked'[x] = locked[x]
           /\ pulled'[x] = pulled[x] /\ result'[x] = result[x],
         relocked => relocked',
         Base!Resolving(c)' /\ Base!Recording(c)',
         ~relocked' => Base!ScansAreTrue(lock') /\ Base!ScansAreTrue(lf'[c])
  PROVE  Base!IInv'
  <1>1. \A x \in Commands : Base!Resolving(x)'
    BY DEF Base!IInv, Base!Resolving
  <1>2. \A x \in Commands : Base!Recording(x)'
    BY DEF Base!IInv, Base!Recording
  <1>3. ~relocked' => \A x \in Commands : Base!ScansAreTrue(lf'[x])
    BY DEF Base!IInv
  <1>4. QED
    BY <1>1, <1>2, <1>3 DEF Base!IInv

LEMMA RegistriesStep ==
  ASSUME Base!Assumed, Base!TypeOK, Base!IInv,
         \/ \E b \in Bases : Base!Retag(b)
         \/ \E d, e \in 1 .. MaxDigest : Base!Substitute(d, e)
  PROVE  Base!TypeOK' /\ Base!IInv'
  <1>1. UNCHANGED <<lock, at, want, lf, locked, pulled, mirrorRef, result, starts, relocked>>
    BY DEF Base!Retag, Base!Substitute
  <1>2. tag' \in [Bases -> 1 .. MaxDigest]
    <2>1. ASSUME NEW b \in Bases, Base!Retag(b)
          PROVE  tag' \in [Bases -> 1 .. MaxDigest]
      <3>1. tag[b] + 1 \in 1 .. MaxDigest
        BY <2>1 DEF Base!TypeOK, Base!Retag, Base!Assumed
      <3>2. QED
        BY <2>1, <3>1 DEF Base!TypeOK, Base!Retag
    <2>2. QED
      BY <2>1 DEF Base!TypeOK, Base!Substitute
  <1>3. mirror' \in [1 .. MaxDigest -> 0 .. MaxDigest]
    BY DEF Base!TypeOK, Base!Retag, Base!Substitute
  <1>4. Base!TypeOK'
    BY <1>1, <1>2, <1>3 DEF Base!TypeOK
  <1>5. Base!IInv'
    BY <1>1 DEF Base!IInv, Base!Resolving, Base!Recording
  <1>6. QED
    BY <1>4, <1>5

\* Resolving a base: from the lock, or from what its tag names.
LEMMA ResolveStep ==
  ASSUME Base!Assumed, Base!TypeOK, Base!IInv, NEW c \in Commands,
         \/ \E w \in Asked : Base!Start(c, w)
         \/ Base!Load(c) \/ Base!PullMirror(c) \/ Base!Migrate(c) \/ Base!Moved(c) \/ Base!Pull(c)
         \/ Base!Escrow(c) \/ Base!Verify(c) \/ Base!End(c)
  PROVE  Base!TypeOK' /\ Base!IInv'
  <1> USE DEF Base!TypeOK
  <1>1. ASSUME NEW w \in Asked, Base!Start(c, w)
        PROVE  Base!TypeOK' /\ Base!IInv'
    <2>1. Base!TypeOK'
      BY <1>1 DEF Base!Start, Base!Assumed
    <2>2. Base!Resolving(c)' /\ Base!Recording(c)'
      BY <1>1 DEF Base!Start, Base!Assumed, Base!IInv, Base!Resolving, Base!Recording
    <2>3. QED
      BY <1>1, <2>1, <2>2, OtherCommands DEF Base!Start, Base!IInv
  <1>2. CASE Base!Load(c)
    <2> DEFINE e == Base!lookupLockedBase(lock, want[c].base)
               found == lock # Torn /\ e # NoEntry /\ ~want[c].update
    <2>1. /\ at[c] = "load" /\ lf' = [lf EXCEPT ![c] = lock]
          /\ locked' = [locked EXCEPT ![c] = IF found THEN e.digest ELSE 0]
          /\ UNCHANGED <<tag, mirror, lock, want, pulled, mirrorRef, result, starts, relocked>>
      BY <1>2 DEF Base!Load
    <2>2. /\ \E s \in {"failed", "pull", "pullMirror", "migrate"} : at' = [at EXCEPT ![c] = s]
          /\ at'[c] \in {"pullMirror", "migrate"} => found
      BY <1>2 DEF Base!Load
    <2>3. want[c].base \in Bases
      BY <2>1 DEF Base!IInv, Base!Resolving, Base!Requests
    <2>4. found => e.digest \in 1 .. MaxDigest
      BY <2>3, EntryFound
    <2> HIDE DEF e, found
    <2>5. 0 \in 0 .. MaxDigest /\ (found => e.digest \in 0 .. MaxDigest /\ e.digest # 0 /\ lock # Torn)
      BY <2>4 DEF Base!Assumed, found
    <2>6. Base!TypeOK'
      BY <2>1, <2>2, <2>5
    <2>7. Base!Resolving(c)' /\ Base!Recording(c)'
      BY <2>1, <2>2, <2>5 DEF Base!IInv, Base!Resolving, Base!Recording
    <2>8. QED
      BY <2>1, <2>2, <2>6, <2>7, OtherCommands DEF Base!IInv
  <1>3. CASE Base!PullMirror(c)
    <2>1. Base!TypeOK'
      BY <1>3 DEF Base!PullMirror
    <2>2. Base!Resolving(c)' /\ Base!Recording(c)'
      BY <1>3 DEF Base!PullMirror, Base!IInv, Base!Resolving, Base!Recording
    <2>3. QED
      BY <1>3, <2>1, <2>2, OtherCommands DEF Base!PullMirror, Base!IInv
  <1>4. CASE Base!Migrate(c)
    <2>1. /\ at[c] = "migrate" /\ lf[c] \in Base!Locks /\ locked[c] # 0 /\ want[c].base \in Bases
      BY <1>4 DEF Base!Migrate, Base!IInv, Base!Resolving, Base!Requests
    <2>2. \E l \in {lf[c], Base!Migrated(lf[c], want[c].base)} : lf' = [lf EXCEPT ![c] = l]
      BY <1>4 DEF Base!Migrate
    <2>3. /\ lock' \in {lock, Torn}
          /\ at' \in {[at EXCEPT ![c] = "migrating"], [at EXCEPT ![c] = "escrow"], [at EXCEPT ![c] = "pull"]}
          /\ at'[c] = "escrow" => pulled[c] # 0
          /\ UNCHANGED <<tag, mirror, want, locked, pulled, mirrorRef, result, starts, relocked>>
      BY <1>4 DEF Base!Migrate, Base!Truncate, Base!Onward
    <2>4. lf'[c] \in Base!Locks /\ (Base!ScansAreTrue(lf[c]) => Base!ScansAreTrue(lf'[c]))
      BY <2>1, <2>2, MovedLock
    <2>5. Base!ScansAreTrue(lock) => Base!ScansAreTrue(lock')
      BY <2>3 DEF Base!ScansAreTrue
    <2>6. Base!TypeOK'
      BY <2>1, <2>2, <2>3, <2>4
    <2>7. Base!Resolving(c)' /\ Base!Recording(c)'
      BY <2>1, <2>2, <2>3, <2>4 DEF Base!IInv, Base!Resolving, Base!Recording, Base!Assumed
    <2>8. QED
      BY <2>2, <2>3, <2>4, <2>5, <2>6, <2>7, OtherCommands DEF Base!IInv
  <1>5. CASE Base!Moved(c)
    <2>1. Base!TypeOK'
      BY <1>5 DEF Base!Moved, Base!Onward
    <2>2. Base!Resolving(c)' /\ Base!Recording(c)'
      BY <1>5 DEF Base!Moved, Base!Onward, Base!IInv, Base!Resolving, Base!Recording
    <2>3. QED
      BY <1>5, <2>1, <2>2, OtherCommands DEF Base!Moved, Base!IInv
  <1>6. CASE Base!Pull(c)
    <2>1. want[c].base \in Bases
      BY <1>6 DEF Base!Pull, Base!IInv, Base!Resolving, Base!Requests
    <2>2. tag[want[c].base] \in 0 .. MaxDigest /\ tag[want[c].base] # 0
      BY <2>1
    <2>3. Base!TypeOK'
      <3>1. PICK d \in 0 .. MaxDigest : pulled' \in {pulled, [pulled EXCEPT ![c] = d]}
        BY <1>6, <2>2 DEF Base!Pull
      <3>2. at' \in {[at EXCEPT ![c] = "escrow"], [at EXCEPT ![c] = "failed"]}
        BY <1>6 DEF Base!Pull
      <3>3. pulled' \in [Commands -> 0 .. MaxDigest]
        BY <3>1
      <3>4. UNCHANGED <<tag, mirror, lock, want, lf, locked, mirrorRef, result, starts, relocked>>
        BY <1>6 DEF Base!Pull
      <3>5. QED
        BY <3>2, <3>3, <3>4
    <2>4. Base!Resolving(c)' /\ Base!Recording(c)'
      BY <1>6, <2>2 DEF Base!Pull, Base!IInv, Base!Resolving, Base!Recording
    <2>5. QED
      BY <1>6, <2>3, <2>4, OtherCommands DEF Base!Pull, Base!IInv
  <1>7. CASE Base!Escrow(c)
    <2>1. /\ at[c] = "escrow"
          /\ \E s \in {"verify", "save", "failed"} : at' = [at EXCEPT ![c] = s]
          /\ mirror' \in {mirror, [mirror EXCEPT ![pulled[c]] = pulled[c]]}
          /\ mirrorRef' \in {mirrorRef, [mirrorRef EXCEPT ![c] = TRUE], [mirrorRef EXCEPT ![c] = FALSE]}
          /\ UNCHANGED <<tag, lock, want, lf, locked, pulled, result, starts, relocked>>
      BY <1>7 DEF Base!Escrow
    <2>2. pulled[c] \in 1 .. MaxDigest
      BY <2>1 DEF Base!IInv, Base!Resolving
    <2>3. Base!TypeOK'
      BY <2>1, <2>2
    <2>4. Base!Resolving(c)' /\ Base!Recording(c)'
      BY <2>1 DEF Base!IInv, Base!Resolving, Base!Recording
    <2>5. QED
      BY <2>1, <2>3, <2>4, OtherCommands DEF Base!IInv
  <1>8. CASE Base!Verify(c)
    <2>1. Base!TypeOK'
      BY <1>8 DEF Base!Verify
    <2>2. Base!Resolving(c)' /\ Base!Recording(c)'
      BY <1>8 DEF Base!Verify, Base!IInv, Base!Resolving, Base!Recording
    <2>3. QED
      BY <1>8, <2>1, <2>2, OtherCommands DEF Base!Verify, Base!IInv
  <1>9. CASE Base!End(c)
    <2>1. 0 \in 0 .. MaxDigest
      BY DEF Base!Assumed
    <2>2. Base!TypeOK'
      BY <1>9, <2>1 DEF Base!End
    <2>3. Base!Resolving(c)' /\ Base!Recording(c)' /\ Base!ScansAreTrue(lf'[c])
      BY <1>9, <2>1 DEF Base!End, Base!Resolving, Base!Recording, Base!ScansAreTrue
    <2>4. QED
      BY <1>9, <2>2, <2>3, OtherCommands DEF Base!End, Base!IInv
  <1>10. QED
    BY <1>1, <1>2, <1>3, <1>4, <1>5, <1>6, <1>7, <1>8, <1>9

\* Writing the lock, and the scan of the base into it.
LEMMA WriteStep ==
  ASSUME Base!Assumed, Base!TypeOK, Base!IInv, NEW c \in Commands,
         \/ Base!Save(c) \/ Base!Saved(c) \/ Base!LoadAgain(c) \/ Base!Record(c) \/ Base!RecordedScan(c)
  PROVE  Base!TypeOK' /\ Base!IInv'
  <1> USE DEF Base!TypeOK
  <1>1. CASE Base!Save(c)
    <2>1. Base!TypeOK'
      BY <1>1 DEF Base!Save, Base!Truncate
    <2>2. Base!Resolving(c)' /\ Base!Recording(c)'
      BY <1>1 DEF Base!Save, Base!Truncate, Base!IInv, Base!Resolving, Base!Recording
    <2>3. Base!ScansAreTrue(lock) => Base!ScansAreTrue(lock')
      BY <1>1 DEF Base!Save, Base!Truncate, Base!ScansAreTrue
    <2>4. QED
      BY <1>1, <2>1, <2>2, <2>3, OtherCommands DEF Base!Save, Base!Truncate, Base!IInv
  <1>2. CASE Base!Saved(c)
    <2>1. want[c] \in Base!Requests /\ pulled[c] # 0 /\ (Base!ScansAreTrue(lf[c]) \/ relocked)
      BY <1>2 DEF Base!Saved, Base!IInv, Base!Resolving
    <2>2. Base!NewLock(c) \in Base!Locks /\ (~relocked => Base!ScansAreTrue(Base!NewLock(c)))
      BY <2>1, NewLockIsTrue
    <2>3. Base!TypeOK'
      BY <1>2, <2>2 DEF Base!Saved
    <2>4. Base!Resolving(c)' /\ Base!Recording(c)'
      BY <1>2 DEF Base!Saved, Base!IInv, Base!Resolving, Base!Recording
    <2>5. QED
      BY <1>2, <2>2, <2>3, <2>4, OtherCommands DEF Base!Saved, Base!IInv
  <1>3. CASE Base!LoadAgain(c)
    <2>1. /\ at[c] = "scan"
          /\ lf' \in {lf, [lf EXCEPT ![c] = lock]}
          /\ at' \in {[at EXCEPT ![c] = "done"], [at EXCEPT ![c] = "record"]}
          /\ relocked' \in BOOLEAN /\ (relocked => relocked')
          /\ at'[c] = "record" =>
               /\ lf'[c] = lock /\ lock # Torn /\ Base!lookupLockedBase(lock, want[c].base) # NoEntry
               /\ ~relocked' => Base!lookupLockedBase(lock, want[c].base).digest = result[c]
          /\ UNCHANGED <<tag, mirror, lock, want, locked, pulled, mirrorRef, result, starts>>
      BY <1>3 DEF Base!LoadAgain
    <2>2. Base!TypeOK'
      BY <2>1
    <2>3. Base!Resolving(c)'
      BY <2>1 DEF Base!IInv, Base!Resolving
    <2>4. Base!Recording(c)'
      BY <2>1 DEF Base!Recording
    <2>5. QED
      BY <2>1, <2>2, <2>3, <2>4, OtherCommands DEF Base!IInv
  <1>4. CASE Base!Record(c)
    <2>1. Base!TypeOK'
      BY <1>4 DEF Base!Record, Base!Truncate
    <2>2. Base!Resolving(c)' /\ Base!Recording(c)'
      BY <1>4 DEF Base!Record, Base!Truncate, Base!IInv, Base!Resolving, Base!Recording
    <2>3. Base!ScansAreTrue(lock) => Base!ScansAreTrue(lock')
      BY <1>4 DEF Base!Record, Base!Truncate, Base!ScansAreTrue
    <2>4. QED
      BY <1>4, <2>1, <2>2, <2>3, OtherCommands DEF Base!Record, Base!Truncate, Base!IInv
  <1>5. CASE Base!RecordedScan(c)
    <2>1. /\ want[c] \in Base!Requests /\ lf[c] # Torn
          /\ Base!lookupLockedBase(lf[c], Base!Base(c)) # NoEntry
          /\ \/ relocked
             \/ /\ Base!ScansAreTrue(lf[c])
                /\ Base!lookupLockedBase(lf[c], Base!Base(c)).digest = result[c]
      BY <1>5 DEF Base!RecordedScan, Base!IInv, Base!Resolving, Base!Recording
    <2>2. Base!Recorded(c) \in Base!Locks /\ (~relocked => Base!ScansAreTrue(Base!Recorded(c)))
      BY <2>1, RecordedIsTrue
    <2>3. Base!TypeOK'
      BY <1>5, <2>2 DEF Base!RecordedScan
    <2>4. Base!Resolving(c)' /\ Base!Recording(c)'
      BY <1>5 DEF Base!RecordedScan, Base!IInv, Base!Resolving, Base!Recording
    <2>5. QED
      BY <1>5, <2>2, <2>3, <2>4, OtherCommands DEF Base!RecordedScan, Base!IInv
  <1>6. QED
    BY <1>1, <1>2, <1>3, <1>4, <1>5

\* A command whose base is locked gets that digest, whatever its tag names by
\* now and its mirror serves, and one that verifies gets a signed one; and no
\* number of commands that overwrite one another's lock, or are killed while
\* they do, puts a scan beside a digest it is not of.
THEOREM BaseIsLocked ==
  ASSUME Base!Assumed
  PROVE  Base!Spec => [](Base!TypeOK /\ LockIsHonest)
  <1>1. Base!TypeOK /\ Base!IInv /\ [Base!Next]_(Base!baseVars) => (Base!TypeOK /\ Base!IInv)'
    <2>1. ASSUME Base!TypeOK, Base!IInv, UNCHANGED Base!baseVars
          PROVE  Base!TypeOK' /\ Base!IInv'
      BY <2>1 DEF Base!baseVars, Base!TypeOK, Base!IInv, Base!Resolving, Base!Recording
    <2>2. ASSUME Base!TypeOK, Base!IInv, Base!Next
          PROVE  Base!TypeOK' /\ Base!IInv'
      BY <2>2, RegistriesStep, ResolveStep, WriteStep DEF Base!Next
    <2>3. QED
      BY <2>1, <2>2
  <1>2. Base!TypeOK /\ Base!IInv => LockIsHonest
    BY DEF LockIsHonest, Base!IInv, Base!Resolving, Base!LockIsHonest, Base!LockedBaseIsUsed,
           Base!ScansAreOfTheirDigest
  <1>3. QED
    BY <1>1, <1>2, BaseInit, PTL DEF Base!Spec

-----------------------------------------------------------------------------
(* Stages 5 to 10 of core.Build *)

USE DEF Stages!Tasks, Stages!Ended, Stages!GroupOver

\* An instance counts as this module does.
LEMMA SameCount ==
  \A S : /\ Stages!IsFiniteSet(S) <=> IsFiniteSet(S)
         /\ Stages!Cardinality(S) = Cardinality(S)
  BY DEF Stages!IsFiniteSet, IsFiniteSet, Stages!Cardinality, Cardinality

LEMMA SlotsAreANumber == Stages!Assumed => IsFiniteSet(Platforms) /\ Stages!Slots \in Nat
  <1>1. Stages!Assumed => IsFiniteSet(Platforms) /\ Concurrency \in Nat
    BY SameCount DEF Stages!Assumed
  <1>2. IsFiniteSet(Platforms) => Cardinality(Platforms) \in Nat
    BY FS_CardinalityType, Zenon
  <1>3. QED
    BY <1>1, <1>2, SameCount DEF Stages!Slots

\* The platforms at work are finitely many, so that they can be counted: those of
\* a part are no more, and one more counts one.
LEMMA HoldingIsFinite ==
  ASSUME Stages!Assumed, DOMAIN task \subseteq Stages!AllTasks
  PROVE  IsFiniteSet(Stages!Holding)
  <1> DEFINE Of == (Platforms \cup {"all"}) \cup {"published"}
  <1>1. Stages!Holding \subseteq {"package"} \X Of
    BY DEF Stages!Holding, Stages!AllTasks
  <1>2. IsFiniteSet(Platforms \cup {"all"})
    BY SlotsAreANumber, FS_AddElement, Zenon
  <1>3. IsFiniteSet(Of)
    BY <1>2, FS_AddElement, Zenon
  <1>4. IsFiniteSet({"package"})
    BY FS_Singleton, Zenon
  <1> HIDE DEF Of
  <1>5. IsFiniteSet({"package"} \X Of)
    BY <1>3, <1>4, FS_Product, Zenon
  <1>6. QED
    BY <1>1, <1>5, FS_Subset, Zenon

LEMMA FewerHold ==
  ASSUME Stages!Assumed, Stages!TypeOK, Stages!Holding' \subseteq Stages!Holding
  PROVE  (Stages!Cardinality(Stages!Holding) <= Stages!Slots)'
  <1>1. IsFiniteSet(Stages!Holding)
    BY HoldingIsFinite DEF Stages!TypeOK
  <1>2. /\ IsFiniteSet(Stages!Holding')
        /\ Cardinality(Stages!Holding') <= Cardinality(Stages!Holding)
    BY <1>1, FS_Subset
  <1>3. Cardinality(Stages!Holding) \in Nat /\ Cardinality(Stages!Holding') \in Nat
    BY <1>1, <1>2, FS_CardinalityType, Zenon
  <1>4. Stages!Slots' = Stages!Slots
    BY SameCount DEF Stages!Slots
  <1>5. QED
    BY <1>2, <1>3, <1>4, SlotsAreANumber, SameCount DEF Stages!TypeOK

LEMMA OneMoreHolds ==
  ASSUME Stages!Assumed, Stages!TypeOK, NEW t, Stages!Holding' = Stages!Holding \cup {t},
         Stages!Cardinality(Stages!Holding) < Stages!Slots
  PROVE  (Stages!Cardinality(Stages!Holding) <= Stages!Slots)'
  <1>1. IsFiniteSet(Stages!Holding)
    BY HoldingIsFinite DEF Stages!TypeOK
  <1>2. Cardinality(Stages!Holding') \in {Cardinality(Stages!Holding), Cardinality(Stages!Holding) + 1}
    BY <1>1, FS_AddElement
  <1>3. Cardinality(Stages!Holding) \in Nat
    BY <1>1, FS_CardinalityType, Zenon
  <1>4. Stages!Slots' = Stages!Slots
    BY SameCount DEF Stages!Slots
  <1>5. QED
    BY <1>2, <1>3, <1>4, SlotsAreANumber, SameCount DEF Stages!TypeOK

\* What each strategy ships has been read by the scan, but for node_modules.
LEMMA ShippedTreesAreScanned ==
  ASSUME NEW r \in Stages!AllRequests
  PROVE  /\ Stages!ShippedTrees(r) \subseteq Stages!Trees
         /\ Stages!postBuildScanDirs(r) \subseteq Stages!Trees
         /\ Stages!ShippedTrees(r) \ {"node_modules"}
              \subseteq Stages!postBuildScanDirs(r) \cup (IF r.overlay THEN {"overlay"} ELSE {})
  <1>1. r.strategy \in {"static", "layered", "exe"}
    BY DEF Stages!AllRequests, Stages!Strategies
  <1>2. /\ r.strategy = "static" => Stages!ShippedTrees(r) = {"client", "prerendered"}
        /\ r.strategy = "layered" =>
             Stages!ShippedTrees(r) = {"client", "prerendered", "server", "node_modules"}
                                        \cup (IF r.overlay THEN {"overlay"} ELSE {})
        /\ r.strategy = "exe" =>
             Stages!ShippedTrees(r) = {"client", "prerendered", "server"}
                                        \cup (IF r.telemetry THEN {"entry"} ELSE {})
    BY DEF Stages!ShippedTrees
  <1>3. QED
    BY <1>1, <1>2 DEF Stages!postBuildScanDirs, Stages!Trees

LEMMA StagesInit == Stages!Assumed /\ Stages!Init => Stages!TypeOK /\ Stages!IInv
  <1> SUFFICES ASSUME Stages!Assumed, Stages!Init PROVE Stages!TypeOK /\ Stages!IInv
    OBVIOUS
  <1>1. DOMAIN task = {} /\ task = [t \in {} |-> "done"]
    BY DEF Stages!Init
  <1>2. Stages!Holding = {}
    BY <1>1 DEF Stages!Holding
  <1>3. Stages!Cardinality(Stages!Holding) <= Stages!Slots
    BY <1>2, FS_EmptySet, SlotsAreANumber, SameCount
  <1>4. QED
    BY <1>1, <1>3
    DEF Stages!Init, Stages!TypeOK, Stages!AllRequests, Stages!Strategies, Stages!IInv,
        Stages!TasksAreOfTheirStage, Stages!CauseIsKnown, Stages!FilesAreThere,
        Stages!ScanComesFirst, Stages!AttachedByTasks, Stages!ShippedIsScanned,
        Stages!ReadBackAfterAttach

USE DEF Stages!TasksAreOfTheirStage, Stages!CauseIsKnown, Stages!FilesAreThere,
        Stages!ScanComesFirst, Stages!AttachedByTasks, Stages!ShippedIsScanned,
        Stages!ReadBackAfterAttach, Stages!IInv

\* The steps of Build itself leave no task at work, or start a group.
LEMMA NobodyHolds ==
  ASSUME Stages!Assumed, Stages!TypeOK, \A t \in DOMAIN task' : task'[t] # "running"
  PROVE  (Stages!Cardinality(Stages!Holding) <= Stages!Slots)'
  <1>1. Stages!Holding' = {}
    BY DEF Stages!Holding
  <1>2. QED
    BY <1>1, FewerHold

LEMMA Returns ==
  ASSUME Stages!Assumed, Stages!TypeOK, Stages!IInv, Stages!GroupOver,
         NEW o \in {"ok", "signed", "printed", "failed", "cancelled"}, Stages!Return(o),
         o = "signed" => readBack = Stages!Subjects,
         UNCHANGED <<req, cause, cancelled, scanned, shipped, attached, readBack>>
  PROVE  Stages!TypeOK' /\ Stages!IInv'
  <1>1. task' = task /\ stage' = "returned" /\ outcome' = o
    BY DEF Stages!Return
  <1>2. dirs' = dirs \ (IF req.ownWorkDir THEN {"overlay"} ELSE {"overlay", "work"})
    BY DEF Stages!Return
  <1>3. (Stages!Cardinality(Stages!Holding) <= Stages!Slots)'
    BY <1>1, FewerHold DEF Stages!Holding
  <1>4. Stages!TypeOK'
    BY <1>1, <1>2, <1>3 DEF Stages!TypeOK, Stages!Subjects
  <1>5. Stages!IInv'
    BY <1>1, <1>2 DEF Stages!TypeOK, Stages!Subjects
  <1>6. QED
    BY <1>4, <1>5

\* Before the first group and between the groups, one stage after the other.
LEMMA StageStep ==
  ASSUME Stages!Assumed, Stages!TypeOK, Stages!IInv,
         \/ \E r \in BuildRequests : Stages!Begin(r)
         \/ Stages!Cancel \/ Stages!StopHere \/ Stages!Overlay \/ Stages!prepareWorkDir
         \/ Stages!PostBuildScan \/ Stages!Index \/ Stages!publish \/ Stages!AttachSBOM
         \/ Stages!Finish
  PROVE  Stages!TypeOK' /\ Stages!IInv'
  <1> USE DEF Stages!TypeOK, Stages!Subjects
  <1>1. CASE \E r \in BuildRequests : Stages!Begin(r)
    <2>1. (Stages!Cardinality(Stages!Holding) <= Stages!Slots)'
      BY <1>1, FewerHold DEF Stages!Begin, Stages!Holding
    <2>2. QED
      BY <1>1, <2>1 DEF Stages!Begin, Stages!Assumed
  <1>2. CASE Stages!Cancel
    <2>1. (Stages!Cardinality(Stages!Holding) <= Stages!Slots)'
      BY <1>2, FewerHold DEF Stages!Cancel, Stages!Holding
    <2>2. QED
      BY <1>2, <2>1 DEF Stages!Cancel
  <1>3. CASE Stages!StopHere
    <2>1. Stages!GroupOver
      BY <1>3 DEF Stages!StopHere
    <2>2. QED
      BY <1>3, <2>1, Returns DEF Stages!StopHere
  <1>4. CASE Stages!Overlay \/ Stages!prepareWorkDir \/ Stages!Index \/ Stages!publish \/ Stages!AttachSBOM
    <2>1. stage \in {"overlay", "workdir", "index", "publish", "sbom"} /\ Stages!GroupOver
      BY <1>4
      DEF Stages!Overlay, Stages!prepareWorkDir, Stages!Index, Stages!publish, Stages!AttachSBOM
    <2>2. UNCHANGED <<req, cause, cancelled, scanned, shipped, attached, readBack>>
      BY <1>4
      DEF Stages!Overlay, Stages!prepareWorkDir, Stages!Index, Stages!publish, Stages!AttachSBOM
    <2>3. CASE \E o \in {"failed", "printed"} : Stages!Return(o)
      BY <2>1, <2>2, <2>3, Returns
    <2>4. CASE UNCHANGED <<task, outcome>>
      <3>1. (Stages!Cardinality(Stages!Holding) <= Stages!Slots)'
        BY <2>4, FewerHold DEF Stages!Holding
      <3>2. \/ /\ stage = "overlay" /\ stage' = "workdir"
               /\ dirs' = IF req.overlay THEN dirs \cup {"overlay"} ELSE dirs
            \/ stage = "workdir" /\ stage' = "prepare" /\ dirs' = dirs \cup {"work"}
            \/ /\ <<stage, stage'>> \in {<<"index", "publish">>, <<"publish", "sbom">>, <<"sbom", "sign">>}
               /\ dirs' = dirs
            \/ \E o \in {"failed", "printed"} : Stages!Return(o)
        BY <1>4
        DEF Stages!Overlay, Stages!prepareWorkDir, Stages!Index, Stages!publish, Stages!AttachSBOM
      <3>3. QED
        BY <2>1, <2>2, <2>3, <2>4, <3>1, <3>2
    <2>5. QED
      BY <1>4, <2>3, <2>4
      DEF Stages!Overlay, Stages!prepareWorkDir, Stages!Index, Stages!publish, Stages!AttachSBOM
  <1>5. CASE Stages!PostBuildScan
    <2>1. stage = "scan" /\ Stages!GroupOver /\ req \in Stages!AllRequests
      BY <1>5 DEF Stages!PostBuildScan
    <2>2. CASE Stages!Return("failed") /\ UNCHANGED scanned
      BY <1>5, <2>1, <2>2, Returns DEF Stages!PostBuildScan
    <2>3. CASE /\ scanned' = Stages!postBuildScanDirs(req) \cup (dirs \cap {"overlay"})
               /\ stage' = "exclude" /\ UNCHANGED <<task, outcome, dirs>>
      <3>1. (Stages!Cardinality(Stages!Holding) <= Stages!Slots)'
        BY <2>3, FewerHold DEF Stages!Holding
      <3>2. /\ Stages!ShippedTrees(req) \ {"node_modules"} \subseteq scanned'
            /\ scanned' \subseteq Stages!Trees
        BY <2>1, <2>3, ShippedTreesAreScanned DEF Stages!Trees
      <3>3. req' = req /\ UNCHANGED <<cause, cancelled, shipped, attached, readBack>>
        BY <1>5 DEF Stages!PostBuildScan
      <3>4. Stages!ShippedTrees(req') = Stages!ShippedTrees(req)
        BY <3>3
      <3>5. QED
        BY <2>1, <2>3, <3>1, <3>2, <3>3, <3>4
    <2>4. QED
      BY <1>5, <2>2, <2>3 DEF Stages!PostBuildScan
  <1>6. CASE Stages!Finish
    <2>1. CASE stage = "sign" /\ Stages!Return("ok")
      BY <1>6, <2>1, Returns DEF Stages!Finish
    <2>2. CASE /\ stage = "readback" /\ Stages!GroupOver
               /\ Stages!Return(IF cause = NoTask THEN "signed" ELSE "failed")
      <3>1. cause = NoTask => readBack = Stages!Subjects
        <4>1. SUFFICES ASSUME cause = NoTask, NEW x \in Stages!Subjects
                       PROVE  x \in readBack
          OBVIOUS
        <4>2. <<"readback", x>> \in DOMAIN task
          BY <2>2
        <4>3. task[<<"readback", x>>] = "done"
          BY <2>2, <4>1, <4>2
        <4>4. QED
          BY <4>2, <4>3
      <3>2. QED
        BY <1>6, <2>2, <3>1, Returns DEF Stages!Finish
    <2>3. QED
      BY <1>6, <2>1, <2>2 DEF Stages!Finish
  <1>7. QED
    BY <1>1, <1>2, <1>3, <1>4, <1>5, <1>6

\* A group starts with nothing done and nobody at work on a platform.
LEMMA GroupStarts ==
  ASSUME Stages!Assumed, Stages!TypeOK, Stages!IInv, NEW ts \in SUBSET Stages!AllTasks,
         NEW s \in {"preparing", "fanout", "signing", "readback"}, Stages!Group(ts, s),
         stage \notin {"idle", "overlay", "workdir", "returned"},
         stage \in {"prepare", "preparing"} <=> s = "preparing",
         \A t \in ts : /\ t[1] = "package" => s = "fanout"
                       /\ t[1] = "sign" => s = "signing"
                       /\ t[1] = "readback" => s = "readback",
         s = "fanout" => Stages!ShippedTrees(req) \ {"node_modules"} \subseteq scanned,
         s = "signing" => ts = {"sign"} \X Stages!Subjects,
         s = "readback" => ts = {"readback"} \X Stages!Subjects /\ attached = Stages!Subjects,
         UNCHANGED <<req, cancelled, dirs, scanned, shipped, attached, readBack, outcome>>
  PROVE  Stages!TypeOK' /\ Stages!IInv'
  <1>1. /\ DOMAIN task' = ts /\ stage' = s /\ cause' = NoTask
        /\ task' = [t \in ts |-> IF t[1] = "package" THEN "waiting" ELSE "running"]
    BY DEF Stages!Group
  <1>2. Stages!Holding' = {}
    BY <1>1 DEF Stages!Holding
  <1>3. (Stages!Cardinality(Stages!Holding) <= Stages!Slots)'
    BY <1>2, FewerHold
  <1>4. \A t \in ts : task'[t] \in {"waiting", "running"}
    BY <1>1
  <1>5. NoTask \notin ts
    BY DEF Stages!Assumed
  <1>6. Stages!TypeOK'
    BY <1>1, <1>3, <1>4 DEF Stages!TypeOK, Stages!Subjects
  <1>7. (Stages!TasksAreOfTheirStage /\ Stages!CauseIsKnown)'
    BY <1>1, <1>4, <1>5 DEF Stages!Subjects
  <1>8. Stages!ShippedTrees(req') = Stages!ShippedTrees(req)
    OBVIOUS
  <1>9. (Stages!FilesAreThere /\ Stages!ScanComesFirst)'
    BY <1>1, <1>8
  <1>10. (Stages!AttachedByTasks /\ Stages!ShippedIsScanned /\ Stages!ReadBackAfterAttach)'
    BY <1>1, <1>4 DEF Stages!Subjects
  <1>11. QED
    BY <1>6, <1>7, <1>9, <1>10

\* Where Build starts a group, and where it has waited for one.
LEMMA GroupStep ==
  ASSUME Stages!Assumed, Stages!TypeOK, Stages!IInv,
         \/ Stages!StartPrepare \/ Stages!ExcludeRoutes \/ Stages!signAndSelfVerify
         \/ Stages!SelfVerify \/ Stages!Prepared \/ Stages!FannedOut
  PROVE  Stages!TypeOK' /\ Stages!IInv'
  <1> DEFINE Preparation(verify) ==
        {<<"prepare", "all">>, <<"inspect", "all">>}
          \cup (IF verify THEN {<<"verifyBase", "all">>} ELSE {})
          \cup (IF req.strategy = "layered" THEN {<<"bun", p>> : p \in Platforms} ELSE {})
        FanOut == {<<"package", p>> : p \in Platforms}
                    \cup (IF req.sbom THEN {<<"sbom", "all">>} ELSE {})
  <1>1. CASE Stages!StartPrepare
    <2>1. PICK verify \in BOOLEAN : Stages!Group(Preparation(verify), "preparing")
      BY <1>1 DEF Stages!StartPrepare
    <2>2. /\ Preparation(verify) \in SUBSET Stages!AllTasks
          /\ \A t \in Preparation(verify) : t[1] \in {"prepare", "inspect", "verifyBase", "bun"}
      BY DEF Stages!AllTasks
    <2>3. /\ stage = "prepare"
          /\ UNCHANGED <<req, cancelled, dirs, scanned, shipped, attached, readBack, outcome>>
      BY <1>1 DEF Stages!StartPrepare
    <2> HIDE DEF Preparation
    <2>4. QED
      BY <2>1, <2>2, <2>3, GroupStarts
  <1>2. CASE Stages!ExcludeRoutes
    <2>1. /\ stage = "exclude" /\ Stages!GroupOver
          /\ UNCHANGED <<req, cancelled, scanned, shipped, attached, readBack>>
      BY <1>2 DEF Stages!ExcludeRoutes
    <2>2. CASE Stages!Group(FanOut, "fanout") /\ UNCHANGED <<outcome, dirs>>
      <3>1. /\ FanOut \in SUBSET Stages!AllTasks
            /\ \A t \in FanOut : t[1] \in {"package", "sbom"}
        BY DEF Stages!AllTasks
      <3> HIDE DEF FanOut
      <3>2. QED
        BY <2>1, <2>2, <3>1, GroupStarts
    <2>3. CASE Stages!Return("failed") /\ UNCHANGED cause
      BY <2>1, <2>3, Returns
    <2>4. QED
      BY <1>2, <2>2, <2>3 DEF Stages!ExcludeRoutes
  <1>3. Stages!Subjects \subseteq Platforms \cup {"published"}
    BY DEF Stages!Subjects
  <1>4. CASE Stages!signAndSelfVerify
    <2>1. /\ {"sign"} \X Stages!Subjects \in SUBSET Stages!AllTasks
          /\ \A t \in {"sign"} \X Stages!Subjects : t[1] = "sign"
      BY <1>3 DEF Stages!AllTasks
    <2>2. /\ stage = "sign" /\ Stages!Group({"sign"} \X Stages!Subjects, "signing")
          /\ UNCHANGED <<req, cancelled, dirs, scanned, shipped, attached, readBack, outcome>>
      BY <1>4 DEF Stages!signAndSelfVerify
    <2>3. QED
      BY <2>1, <2>2, GroupStarts
  <1>5. CASE Stages!SelfVerify
    <2>1. /\ stage = "signing" /\ Stages!GroupOver
          /\ UNCHANGED <<req, cancelled, scanned, shipped, attached, readBack>>
      BY <1>5 DEF Stages!SelfVerify
    <2>2. CASE cause = NoTask
      <3>1. attached = Stages!Subjects
        <4>1. SUFFICES ASSUME NEW x \in Stages!Subjects PROVE x \in attached
          BY DEF Stages!TypeOK
        <4>2. <<"sign", x>> \in DOMAIN task
          BY <2>1
        <4>3. task[<<"sign", x>>] = "done"
          BY <2>1, <2>2, <4>2
        <4>4. QED
          BY <4>2, <4>3
      <3>2. /\ {"readback"} \X Stages!Subjects \in SUBSET Stages!AllTasks
            /\ \A t \in {"readback"} \X Stages!Subjects : t[1] = "readback"
        BY <1>3 DEF Stages!AllTasks
      <3>3. /\ Stages!Group({"readback"} \X Stages!Subjects, "readback")
            /\ UNCHANGED <<outcome, dirs>>
        BY <1>5, <2>2 DEF Stages!SelfVerify
      <3>4. QED
        BY <2>1, <3>1, <3>2, <3>3, GroupStarts
    <2>3. CASE cause # NoTask
      BY <1>5, <2>1, <2>3, Returns DEF Stages!SelfVerify
    <2>4. QED
      BY <2>2, <2>3
  <1>6. CASE Stages!Prepared \/ Stages!FannedOut
    <2>1. /\ stage \in {"preparing", "fanout"} /\ Stages!GroupOver
          /\ UNCHANGED <<req, cause, cancelled, scanned, shipped, attached, readBack>>
      BY <1>6 DEF Stages!Prepared, Stages!FannedOut
    <2>2. CASE cause # NoTask
      BY <1>6, <2>1, <2>2, Returns DEF Stages!Prepared, Stages!FannedOut
    <2>3. CASE cause = NoTask
      <3>1. /\ <<stage, stage'>> \in {<<"preparing", "scan">>, <<"fanout", "index">>}
            /\ task' = << >> /\ UNCHANGED <<outcome, dirs>>
        BY <1>6, <2>3 DEF Stages!Prepared, Stages!FannedOut
      <3>2. DOMAIN task' = {} /\ task' = [t \in {} |-> "done"]
        BY <3>1
      <3>3. (Stages!Cardinality(Stages!Holding) <= Stages!Slots)'
        BY <3>2, NobodyHolds
      <3>4. Stages!TypeOK'
        BY <2>1, <3>1, <3>2, <3>3 DEF Stages!TypeOK, Stages!Subjects
      <3>5. Stages!IInv'
        BY <2>1, <2>3, <3>1, <3>2 DEF Stages!Subjects
      <3>6. QED
        BY <3>4, <3>5
    <2>4. QED
      BY <2>2, <2>3
  <1>7. QED
    BY <1>1, <1>2, <1>4, <1>5, <1>6

\* A task moves: whichever it is, the others are as they were.
LEMMA WorkStep ==
  ASSUME Stages!Assumed, Stages!TypeOK, Stages!IInv, Stages!Work
  PROVE  Stages!TypeOK' /\ Stages!IInv'
  <1>1. PICK t \in DOMAIN task : \/ Stages!TakeSlot(t) \/ Stages!TaskCancelled(t)
                                 \/ Stages!TaskFails(t) \/ Stages!TaskDone(t)
    BY DEF Stages!Work
  <1> DEFINE st == task'[t]
  <1>2. /\ task' = [task EXCEPT ![t] = st] /\ task[t] \in {"waiting", "running"}
        /\ st \in {"running", "gone", "failed", "done"}
        /\ UNCHANGED <<req, stage, cancelled, dirs, scanned, outcome>>
    BY <1>1 DEF Stages!TakeSlot, Stages!TaskCancelled, Stages!TaskFails, Stages!TaskDone,
                Stages!Gone, Stages!Fails, Stages!TypeOK
  <1>3. stage \in {"preparing", "fanout", "signing", "readback"}
    BY <1>2 DEF Stages!TypeOK
  <1>4. (Stages!Cardinality(Stages!Holding) <= Stages!Slots)'
    <2>1. CASE Stages!TakeSlot(t)
      <3>1. Stages!Holding' \in {Stages!Holding, Stages!Holding \cup {t}}
        BY <2>1 DEF Stages!TakeSlot, Stages!Holding, Stages!TypeOK
      <3>2. QED
        BY <2>1, <3>1, OneMoreHolds, FewerHold DEF Stages!TakeSlot
    <2>2. CASE ~Stages!TakeSlot(t)
      <3>1. Stages!Holding' \subseteq Stages!Holding
        BY <1>1, <2>2
        DEF Stages!TaskCancelled, Stages!TaskFails, Stages!TaskDone, Stages!Gone, Stages!Fails,
            Stages!Holding, Stages!TypeOK
      <3>2. QED
        BY <3>1, FewerHold
    <2>3. QED
      BY <2>1, <2>2
  <1>5. CASE ~Stages!TaskDone(t)
    <2>1. UNCHANGED <<shipped, attached, readBack>> /\ st # "done"
      BY <1>1, <1>5 DEF Stages!TakeSlot, Stages!TaskCancelled, Stages!TaskFails,
                        Stages!Gone, Stages!Fails, Stages!TypeOK
    <2>2. /\ st \in {"failed", "gone"} => cause' = IF cause = NoTask THEN t ELSE cause
          /\ st = "running" => cause' = cause
          /\ st = "gone" => cancelled \/ cause # NoTask
      BY <1>1, <1>5 DEF Stages!TakeSlot, Stages!TaskCancelled, Stages!TaskFails,
                        Stages!Gone, Stages!Fails, Stages!TypeOK, Stages!Cancelled
    <2>3. Stages!TypeOK'
      BY <1>2, <1>4, <2>1 DEF Stages!TypeOK, Stages!Subjects
    <2>4. (Stages!TasksAreOfTheirStage /\ Stages!CauseIsKnown)'
      BY <1>2, <1>3, <2>1, <2>2 DEF Stages!TypeOK, Stages!Subjects, Stages!Assumed
    <2>5. Stages!ShippedTrees(req') = Stages!ShippedTrees(req)
      BY <1>2
    <2>6. (/\ Stages!FilesAreThere /\ Stages!ScanComesFirst /\ Stages!AttachedByTasks
           /\ Stages!ShippedIsScanned /\ Stages!ReadBackAfterAttach)'
      BY <1>2, <1>3, <2>1, <2>5 DEF Stages!TypeOK, Stages!Subjects
    <2>7. QED
      BY <2>3, <2>4, <2>6
  <1>6. CASE Stages!TaskDone(t)
    <2>1. /\ st = "done" /\ cause' = cause
          /\ shipped' = IF t[1] = "package" THEN shipped \cup Stages!ShippedTrees(req) ELSE shipped
          /\ attached' = IF t[1] = "sign" THEN attached \cup {t[2]} ELSE attached
          /\ readBack' = IF t[1] = "readback" THEN readBack \cup {t[2]} ELSE readBack
      BY <1>6 DEF Stages!TaskDone, Stages!TypeOK
    <2>2. /\ t[1] = "package" => stage = "fanout"
          /\ t[1] = "sign" => stage = "signing" /\ t[2] \in Stages!Subjects
          /\ t[1] = "readback" => stage = "readback" /\ t[2] \in Stages!Subjects
      BY <1>3
    <2>3. Stages!ShippedTrees(req) \subseteq Stages!Trees /\ req' = req
      BY <1>2, ShippedTreesAreScanned DEF Stages!TypeOK
    <2>4. Stages!TypeOK'
      BY <1>2, <1>4, <2>1, <2>2, <2>3 DEF Stages!TypeOK, Stages!Subjects
    <2>5. (Stages!TasksAreOfTheirStage /\ Stages!CauseIsKnown)'
      BY <1>2, <1>3, <2>1 DEF Stages!TypeOK, Stages!Subjects, Stages!Assumed
    <2>6. Stages!ShippedTrees(req') = Stages!ShippedTrees(req)
      BY <2>3
    <2>7. (Stages!FilesAreThere /\ Stages!ScanComesFirst /\ Stages!ShippedIsScanned)'
      BY <1>2, <1>3, <2>1, <2>2, <2>6 DEF Stages!TypeOK
    <2>8. (Stages!AttachedByTasks /\ Stages!ReadBackAfterAttach)'
      BY <1>2, <1>3, <2>1, <2>2 DEF Stages!TypeOK, Stages!Subjects
    <2>9. QED
      BY <2>4, <2>5, <2>7, <2>8
  <1>7. QED
    BY <1>5, <1>6

HIDE DEF Stages!IInv

LEMMA StagesAlways ==
  ASSUME Stages!Assumed
  PROVE  Stages!Spec => [](Stages!TypeOK /\ Stages!IInv)
  <1>1. Stages!TypeOK /\ Stages!IInv /\ [Stages!Next]_(Stages!buildVars)
          => (Stages!TypeOK /\ Stages!IInv)'
    <2>1. ASSUME Stages!TypeOK, Stages!IInv, UNCHANGED Stages!buildVars
          PROVE  Stages!TypeOK' /\ Stages!IInv'
      <3>1. UNCHANGED <<req, stage, task, cause, cancelled, dirs, scanned, shipped,
                        attached, readBack, outcome>>
        BY <2>1 DEF Stages!buildVars
      <3>2. (Stages!Cardinality(Stages!Holding) <= Stages!Slots)'
        BY <2>1, <3>1, FewerHold DEF Stages!Holding
      <3>3. Stages!ShippedTrees(req') = Stages!ShippedTrees(req)
        BY <3>1
      <3>4. QED
        BY <2>1, <3>1, <3>2, <3>3 DEF Stages!TypeOK, Stages!Subjects, Stages!IInv
    <2>2. ASSUME Stages!TypeOK, Stages!IInv, Stages!Next
          PROVE  Stages!TypeOK' /\ Stages!IInv'
      BY <2>2, StageStep, GroupStep, WorkStep DEF Stages!Next, Stages!Proceed
    <2>3. QED
      BY <2>1, <2>2
  <1>2. QED
    BY <1>1, StagesInit, PTL DEF Stages!Spec

\* However many platforms there are, and slots for them, and wherever failures and
\* cancellations fall: the error a group reports is of a task that failed by itself
\* unless the caller gave up, no package task outlives the directories it reads, and
\* Build never waits for a group that waits for it.
THEOREM GroupsAreOrdered ==
  ASSUME Stages!Assumed
  PROVE  Stages!Spec => [](/\ Stages!TypeOK /\ Stages!NothingOutlivesItsFiles
                           /\ Stages!CauseIsReported /\ Stages!NeverStuck)
  <1>1. Stages!TypeOK /\ Stages!IInv => Stages!CauseIsReported /\ Stages!NothingOutlivesItsFiles
    BY DEF Stages!TypeOK, Stages!IInv, Stages!CauseIsReported, Stages!NothingOutlivesItsFiles
  <1>2. ASSUME Stages!TypeOK, Stages!IInv PROVE Stages!NeverStuck
    <2>1. SUFFICES ASSUME ~Stages!BuildMayGoOn PROVE Stages!TaskMayGoOn
      BY DEF Stages!NeverStuck
    <2>2. PICK t \in DOMAIN task : task[t] \in {"waiting", "running"}
      BY <1>2, <2>1 DEF Stages!BuildMayGoOn, Stages!TypeOK
    <2>3. CASE \E u \in DOMAIN task : task[u] = "running"
      BY <2>3 DEF Stages!TaskMayGoOn
    <2>4. CASE \A u \in DOMAIN task : task[u] # "running"
      <3>1. Stages!Holding = {}
        BY <2>4 DEF Stages!Holding
      <3>2. Stages!Cardinality(Stages!Holding) = 0
        BY <3>1, FS_EmptySet, SameCount
      <3>3. Stages!Slots >= 1
        <4>1. IsFiniteSet(Platforms) /\ Platforms # {} /\ Concurrency \in Nat
          BY SameCount DEF Stages!Assumed
        <4>2. Cardinality(Platforms) \in Nat /\ Cardinality(Platforms) # 0
          BY <4>1, FS_CardinalityType, FS_EmptySet
        <4>3. QED
          BY <4>1, <4>2, SameCount DEF Stages!Slots
      <3>4. QED
        BY <2>2, <2>4, <3>2, <3>3, SlotsAreANumber DEF Stages!TaskMayGoOn
    <2>5. QED
      BY <2>3, <2>4
  <1>3. QED
    BY <1>1, <1>2, StagesAlways, PTL

\* What is packaged was scanned, and what is reported signed was attached to every
\* subject before any of them was read back.
THEOREM StagesHoldTheirGates ==
  ASSUME Stages!Assumed
  PROVE  Stages!Spec => [](Stages!ShippedIsScanned /\ Stages!ReadBackAfterAttach)
  <1> HIDE DEF Stages!ShippedIsScanned, Stages!ReadBackAfterAttach
  <1>1. Stages!IInv => Stages!ShippedIsScanned /\ Stages!ReadBackAfterAttach
    BY DEF Stages!IInv
  <1>2. QED
    BY <1>1, StagesAlways, PTL

-----------------------------------------------------------------------------
(* bunexec.Compiler.Prepare *)

LEMMA PrepareInit == Bundle!Assumed /\ Bundle!Init => Bundle!TypeOK /\ Bundle!IInv
  <1> SUFFICES ASSUME Bundle!Assumed, Bundle!Init PROVE Bundle!TypeOK /\ Bundle!IInv
    OBVIOUS
  <1>1. manifest \in Manifests /\ key \in Manifests
    BY DEF Bundle!Assumed, Bundle!Init
  <1>2. project \in Bundle!Projects
    BY DEF Bundle!Init, Bundle!Unread, Bundle!Projects
  <1>3. Bundle!TypeOK
    BY <1>1, <1>2 DEF Bundle!Init, Bundle!TypeOK
  <1>4. Bundle!IInv
    BY DEF Bundle!Init, Bundle!IInv, Bundle!JobIsOfTheRun, Bundle!StampIsTrue,
           Bundle!DecisionStands
  <1>5. QED
    BY <1>3, <1>4

USE DEF Bundle!stage

\* A build is taken over only where the project's script is plain, and is said to
\* leave out routes only if it reads the mirror.
LEMMA Decides ==
  ASSUME Bundle!Assumed, Bundle!TypeOK, Bundle!IInv, Bundle!Configure
  PROVE  Bundle!TypeOK' /\ Bundle!IInv'
  <1>1. PICK f \in Bundle!Facts, written, redirects \in BOOLEAN :
          LET wrapper    == Bundle!Wrapper(f) /\ written
              redirected == wrapper /\ redirects /\ Bundle!stageRoutesMirror(f)
              fatal      == Bundle!Refused(f) \/ (~f.adapter /\ ~written)
          IN /\ prep' = IF fatal THEN "failed" ELSE "building"
             /\ vendor' = IF f.layered /\ ~fatal THEN "reuse" ELSE "none"
             /\ routesMirror' = IF fatal THEN Bundle!stageRoutesMirror(f) ELSE redirected
             /\ project' = [layered |-> f.layered, plainScript |-> f.plainScript,
                            wrapper |-> wrapper /\ ~fatal,
                            excludedAtBuild |-> redirected /\ ~fatal]
    BY Zenon DEF Bundle!Configure
  <1>2. /\ prep = "idle" /\ key' = manifest
        /\ UNCHANGED <<manifest, staged, stamp, served, halfWiped>>
    BY DEF Bundle!Configure
  <1>3. {f.layered, f.plainScript, f.adapter, f.noInject, f.excludes, f.inlineConfig} \subseteq BOOLEAN
    BY DEF Bundle!Facts
  <1>4. project' \in Bundle!Projects
    BY <1>1, <1>3 DEF Bundle!Projects
  <1>5. Bundle!DecisionStands'
    BY <1>1, <1>3 DEF Bundle!DecisionStands, Bundle!Wrapper, Bundle!Refused
  <1>6. Bundle!JobIsOfTheRun' /\ Bundle!StampIsTrue'
    BY <1>1, <1>2, <1>3
    DEF Bundle!IInv, Bundle!JobIsOfTheRun, Bundle!StampIsTrue, Bundle!Whole
  <1>7. routesMirror' \in BOOLEAN
    BY <1>1, <1>3 DEF Bundle!stageRoutesMirror
  <1>8. Bundle!TypeOK'
    BY <1>1, <1>2, <1>4, <1>7 DEF Bundle!TypeOK
  <1>9. QED
    BY <1>5, <1>6, <1>8 DEF Bundle!IInv

\* The vendor job, the end of the run and the next one.
LEMMA VendorStep ==
  ASSUME Bundle!Assumed, Bundle!TypeOK, Bundle!IInv,
         \/ Bundle!Reuse \/ Bundle!Wipe \/ Bundle!Install \/ Bundle!writeVendorStamp
         \/ Bundle!Built \/ Bundle!stop \/ Bundle!Killed \/ Bundle!Again
  PROVE  Bundle!TypeOK' /\ Bundle!IInv'
  <1> USE DEF Bundle!TypeOK, Bundle!IInv, Bundle!JobIsOfTheRun, Bundle!StampIsTrue,
              Bundle!DecisionStands, Bundle!Whole, Bundle!Assumed
  <1>1. CASE Bundle!Reuse
    BY <1>1 DEF Bundle!Reuse, Bundle!reuseStagedVendorTree
  <1>2. CASE Bundle!Wipe
    BY <1>2 DEF Bundle!Wipe
  <1>3. CASE Bundle!Install
    <2>1. /\ vendor = "install" /\ vendor' \in {"install", "stamp", "failed"}
          /\ UNCHANGED <<prep, project, manifest, key, stamp, routesMirror, served, halfWiped>>
          /\ staged' \in {staged, [of |-> key, whole |-> FALSE], [of |-> key, whole |-> TRUE]}
          /\ vendor' = "stamp" => staged' = [of |-> key, whole |-> TRUE]
      BY <1>3 DEF Bundle!Install
    <2>2. \A b \in BOOLEAN : [of |-> key, whole |-> b] \in [of: Manifests, whole: BOOLEAN]
      OBVIOUS
    <2>3. staged' \in [of: Manifests, whole: BOOLEAN] \cup {NoTree}
      BY <2>1, <2>2, Zenon
    <2>4. QED
      BY <2>1, <2>3
  <1>4. CASE Bundle!writeVendorStamp
    BY <1>4 DEF Bundle!writeVendorStamp
  <1>5. CASE Bundle!Built
    BY <1>5 DEF Bundle!Built
  <1>6. CASE Bundle!stop \/ Bundle!Killed
    BY <1>6 DEF Bundle!stop, Bundle!Killed
  <1>7. CASE Bundle!Again
    BY <1>7 DEF Bundle!Again, Bundle!Unread, Bundle!Projects
  <1>8. QED
    BY <1>1, <1>2, <1>3, <1>4, <1>5, <1>6, <1>7

\* However many runs there are, with whichever manifests, and wherever they fail or
\* are killed: no install outlives its run, a prepared layered build ships a whole
\* install of its own manifest unless a run ended while it cleared the directory,
\* and a build is taken over only where nothing is lost by it.
THEOREM PreparedIsItsOwn ==
  ASSUME Bundle!Assumed
  PROVE  Bundle!Spec => [](/\ Bundle!TypeOK /\ Bundle!NoInstallOutlivesPrepare
                           /\ Bundle!ShipsItsOwnDependencies /\ Bundle!BuildIsTheProjectsOwn)
  <1>1. Bundle!TypeOK /\ Bundle!IInv /\ [Bundle!Next]_(Bundle!prepVars)
          => (Bundle!TypeOK /\ Bundle!IInv)'
    <2>1. ASSUME Bundle!TypeOK, Bundle!IInv, UNCHANGED Bundle!prepVars
          PROVE  Bundle!TypeOK' /\ Bundle!IInv'
      BY <2>1 DEF Bundle!prepVars, Bundle!TypeOK, Bundle!IInv, Bundle!JobIsOfTheRun,
                  Bundle!StampIsTrue, Bundle!DecisionStands
    <2>2. ASSUME Bundle!TypeOK, Bundle!IInv, Bundle!Next PROVE Bundle!TypeOK' /\ Bundle!IInv'
      BY <2>2, Decides, VendorStep DEF Bundle!Next
    <2>3. QED
      BY <2>1, <2>2
  <1>2. Bundle!TypeOK /\ Bundle!IInv =>
          /\ Bundle!NoInstallOutlivesPrepare /\ Bundle!ShipsItsOwnDependencies
          /\ Bundle!BuildIsTheProjectsOwn
    BY DEF Bundle!TypeOK, Bundle!IInv, Bundle!JobIsOfTheRun, Bundle!StampIsTrue,
           Bundle!DecisionStands, Bundle!NoInstallOutlivesPrepare, Bundle!Whole,
           Bundle!ShipsItsOwnDependencies, Bundle!BuildIsTheProjectsOwn
  <1>3. QED
    BY <1>1, <1>2, PrepareInit, PTL DEF Bundle!Spec

\* Neither Build nor Prepare returns, removes a directory or reports an error before
\* what it started is over.
THEOREM GroupsAreAlwaysWaitedFor ==
  ASSUME Stages!Assumed, Bundle!Assumed
  PROVE  Stages!Spec /\ Bundle!Spec => []GroupsAreWaitedFor
  <1>1. Stages!Spec => [](/\ Stages!TypeOK /\ Stages!NothingOutlivesItsFiles
                          /\ Stages!CauseIsReported /\ Stages!NeverStuck)
    BY GroupsAreOrdered
  <1>2. Bundle!Spec => [](/\ Bundle!TypeOK /\ Bundle!NoInstallOutlivesPrepare
                          /\ Bundle!ShipsItsOwnDependencies /\ Bundle!BuildIsTheProjectsOwn)
    BY PreparedIsItsOwn
  <1>3. QED
    BY <1>1, <1>2, PTL DEF GroupsAreWaitedFor

-----------------------------------------------------------------------------
(* The greatest and the least of a set of indices *)

\* A set of naturals that is not empty has a least element.
LEMMA LeastOf ==
  ASSUME NEW T \in SUBSET Nat, T # {}
  PROVE  \E x \in T : \A y \in T : x <= y
  <1> DEFINE R == {ss \in Nat \X Nat : ss[1] < ss[2]}
  <1>1. IsWellFoundedOn(R, Nat)
    BY NatLessThanWellFounded DEF OpToRel
  <1>2. PICK x \in T : \A y \in T : ~ (<<y, x>> \in R)
    <2> HIDE DEF R
    <2>1. QED
      BY <1>1, WFMin
  <1>3. x \in Nat
    OBVIOUS
  <1>4. ASSUME NEW y \in T
        PROVE  x <= y
    <2>1. ~ (<<y, x>> \in R)
      <3> HIDE DEF R
      <3>1. QED
        BY <1>2
    <2>2. y \in Nat /\ <<y, x>> \in Nat \X Nat
      BY <1>3
    <2>3. ~ (<<y, x>>[1] < <<y, x>>[2])
      BY <2>1, <2>2
    <2>4. QED
      BY <2>2, <2>3, <1>3
  <1>5. QED
    <2> HIDE DEF R
    <2>1. QED
      BY <1>3, <1>4

\* A set of naturals that is not empty and bounded has a greatest element.
LEMMA GreatestOf ==
  ASSUME NEW T \in SUBSET Nat, T # {}, NEW b \in Nat, \A y \in T : y <= b
  PROVE  \E x \in T : \A y \in T : y <= x
  <1> DEFINE Below == {k \in 0 .. b : b - k \in T}
  <1>1. PICK y \in T : TRUE
    OBVIOUS
  <1>2. y \in Nat /\ y <= b /\ b - y \in 0 .. b /\ b - (b - y) = y
    OBVIOUS
  <1>3. Below # {} /\ Below \in SUBSET Nat
    BY <1>2
  <1>4. PICK k \in Below : \A m \in Below : k <= m
    <2> HIDE DEF Below
    <2>1. QED
      BY <1>3, LeastOf
  <1>5. k \in 0 .. b /\ b - k \in T
    OBVIOUS
  <1>6. ASSUME NEW z \in T
        PROVE  z <= b - k
    <2>1. z \in Nat /\ z <= b /\ b - z \in 0 .. b /\ b - (b - z) = z
      OBVIOUS
    <2>2. b - z \in Below
      BY <2>1
    <2>3. k <= b - z
      BY <2>2, <1>4
    <2>4. QED
      BY <2>1, <2>3, <1>5
  <1>7. QED
    BY <1>5, <1>6

-----------------------------------------------------------------------------
(* Packager.Build, for every platform at once *)

USE DEF Pack!At, Pack!Do, Pack!disk, Pack!isStale, Pack!Settled

LEMMA PackInit == Pack!Assumed /\ Pack!Init => Pack!TypeOK /\ Pack!IInv
  <1> SUFFICES ASSUME Pack!Assumed, Pack!Init PROVE Pack!TypeOK /\ Pack!IInv
    OBVIOUS
  <1>1. 1 \in DOMAIN LayerOrder /\ \A n \in DOMAIN LayerOrder : n >= 1
    BY DEF Pack!Assumed
  <1>2. Pack!TypeOK
    BY <1>1 DEF Pack!Init, Pack!TypeOK
  <1>3. /\ packing = "no" /\ temp = {}
        /\ \A i \in Platforms : place[i] = 1 /\ doing[i] = "rewrite"
        /\ \A t \in Pack!Trees : memo[t] = "no"
    BY DEF Pack!Init
  <1>4. Pack!IInv
    <2>1. Pack!LocksAreHeld /\ Pack!OneAtATime
      BY <1>3 DEF Pack!LocksAreHeld, Pack!OneAtATime
    <2>2. Pack!WalksAreSettled
      BY <1>3 DEF Pack!WalksAreSettled
    <2>3. \A i \in Platforms : \A n \in DOMAIN LayerOrder : ~ (n < place[i])
      BY <1>1, <1>3 DEF Pack!Assumed
    <2>4. Pack!PassedIsBuilt
      BY <1>3, <2>3 DEF Pack!PassedIsBuilt
    <2>5. QED
      BY <2>1, <2>2, <2>4 DEF Pack!IInv
  <1>5. QED
    BY <1>2, <1>4

\* A platform is at a tree, and moves on to the next, if there is one.
LEMMA PlacesAreTrees ==
  ASSUME Pack!Assumed, Pack!TypeOK, NEW i \in Platforms
  PROVE  /\ Pack!Tree(i) = LayerOrder[place[i]] /\ Pack!Tree(i) \in Pack!Trees
         /\ place[i] \in DOMAIN LayerOrder /\ place[i] \in 1 .. Len(LayerOrder) /\ Len(LayerOrder) \in Nat
         /\ DOMAIN LayerOrder = 1 .. Len(LayerOrder)
         /\ Pack!Next_layer(i) =>
              \/ /\ place[i] = Len(LayerOrder) /\ place' = place
                 /\ doing' = [doing EXCEPT ![i] = "packed"]
              \/ /\ place[i] # Len(LayerOrder) /\ place[i] + 1 \in DOMAIN LayerOrder
                 /\ place' = [place EXCEPT ![i] = place[i] + 1]
                 /\ doing' = [doing EXCEPT ![i] = "rewrite"]
  BY DEF Pack!Assumed, Pack!TypeOK, Pack!Tree, Pack!Trees, Pack!Next_layer

\* The trees are rewritten: what one platform does at its own.
LEMMA Rewrites ==
  ASSUME Pack!Assumed, Pack!TypeOK, Pack!IInv, NEW i \in Platforms,
         \/ Pack!NothingToRewrite(i) \/ Pack!LockDir(i) \/ Pack!LeaveSidecar(i)
         \/ Pack!BeginSidecar(i) \/ Pack!writeSidecar(i) \/ Pack!stripTreeOnce(i)
         \/ Pack!StripDirectory(i)
  PROVE  Pack!TypeOK' /\ Pack!IInv'
  <1> DEFINE t == LayerOrder[place[i]]
             d == doing'[i]
  <1>1. t \in Pack!Trees /\ Pack!Tree(i) = t
    BY PlacesAreTrees
  <1>2. /\ doing' = [doing EXCEPT ![i] = d] /\ d \in {"compress", "writing", "stripping", "walk"}
        /\ packing = "yes" /\ UNCHANGED <<packing, place, memo, layer, temp>>
        /\ doing[i] \in {"rewrite", "compress", "writing", "stripping"}
    BY DEF Pack!NothingToRewrite, Pack!LockDir, Pack!LeaveSidecar, Pack!BeginSidecar,
           Pack!writeSidecar, Pack!stripTreeOnce, Pack!StripDirectory, Pack!TypeOK
  <1>3. \A x \in Platforms : /\ Pack!Tree(x)' = Pack!Tree(x) /\ Pack!Tree(x) \in Pack!Trees
                             /\ x # i => doing'[x] = doing[x]
    BY <1>2, PlacesAreTrees DEF Pack!Tree, Pack!TypeOK
  <1>4. /\ UNCHANGED smaller /\ (ioFailed => ioFailed') /\ ioFailed' \in BOOLEAN
        /\ \A x \in Pack!Trees \ {t} : /\ sidecar'[x] = sidecar[x] /\ dirLock'[x] = dirLock[x]
                                       /\ stripOnce'[x] = stripOnce[x] /\ bytes'[x] = bytes[x]
    <2>1. UNCHANGED smaller /\ (ioFailed => ioFailed') /\ ioFailed' \in BOOLEAN
      BY DEF Pack!NothingToRewrite, Pack!LockDir, Pack!LeaveSidecar, Pack!BeginSidecar,
             Pack!writeSidecar, Pack!stripTreeOnce, Pack!StripDirectory, Pack!TypeOK
    <2>2. /\ \E v : sidecar' \in {sidecar, [sidecar EXCEPT ![t] = v]}
          /\ \E v : dirLock' \in {dirLock, [dirLock EXCEPT ![t] = v]}
      BY <1>1 DEF Pack!NothingToRewrite, Pack!LockDir, Pack!LeaveSidecar, Pack!BeginSidecar,
             Pack!writeSidecar, Pack!stripTreeOnce, Pack!StripDirectory
    <2>3. /\ \E v : stripOnce' \in {stripOnce, [stripOnce EXCEPT ![t] = v]}
          /\ \E v : bytes' \in {bytes, [bytes EXCEPT ![t] = v]}
      BY <1>1 DEF Pack!NothingToRewrite, Pack!LockDir, Pack!LeaveSidecar, Pack!BeginSidecar,
             Pack!writeSidecar, Pack!stripTreeOnce, Pack!StripDirectory
    <2>4. ASSUME NEW x \in Pack!Trees \ {t}
          PROVE  /\ sidecar'[x] = sidecar[x] /\ dirLock'[x] = dirLock[x]
                 /\ stripOnce'[x] = stripOnce[x] /\ bytes'[x] = bytes[x]
      <3>1. sidecar'[x] = sidecar[x] /\ dirLock'[x] = dirLock[x]
        BY <2>2 DEF Pack!TypeOK
      <3>2. stripOnce'[x] = stripOnce[x] /\ bytes'[x] = bytes[x]
        BY <2>3 DEF Pack!TypeOK
      <3>3. QED
        BY <3>1, <3>2
    <2>5. QED
      BY <2>1, <2>4
  <1>5. /\ sidecar' \in [Pack!Trees -> {"none", "old", "torn", "whole"}]
        /\ dirLock' \in [Pack!Trees -> Platforms \cup {Nobody}]
        /\ stripOnce' \in [Pack!Trees -> {"no", "running", "done"}]
        /\ bytes' \in [Pack!Trees -> {"raw", "stripped"}]
    BY <1>1 DEF Pack!NothingToRewrite, Pack!LockDir, Pack!LeaveSidecar, Pack!BeginSidecar,
           Pack!writeSidecar, Pack!stripTreeOnce, Pack!StripDirectory, Pack!TypeOK
  <1>6. Pack!TypeOK'
    BY <1>2, <1>4, <1>5 DEF Pack!TypeOK, Pack!Trees
  <1>7. /\ doing[i] \in {"compress", "writing"} => t \in Precompressed /\ dirLock[t] = i
        /\ doing[i] = "writing" => sidecar[t] \in {"none", "old"} /\ smaller[t]
        /\ doing[i] = "stripping" => t \in Stripped /\ stripOnce[t] = "running"
        /\ \A x \in Platforms : doing[x] = "stripping" /\ Pack!Tree(x) = t =>
             /\ stripOnce[t] = "running"
             /\ doing[i] = "stripping" => x = i
        /\ \A x \in Platforms : doing[x] \in {"compress", "writing"} /\ Pack!Tree(x) = t =>
             t \in Precompressed /\ dirLock[t] = x
    BY <1>1 DEF Pack!IInv, Pack!LocksAreHeld, Pack!OneAtATime
  <1>8. Pack!LocksAreHeld'
    <2>1. SUFFICES ASSUME NEW x \in Platforms
                   PROVE  /\ doing'[x] \in {"compress", "writing"} =>
                               Pack!Tree(x) \in Precompressed /\ dirLock'[Pack!Tree(x)] = x
                          /\ doing'[x] = "writing" =>
                               sidecar'[Pack!Tree(x)] \in {"none", "old"} /\ smaller[Pack!Tree(x)]
      BY <1>3, <1>4 DEF Pack!LocksAreHeld
    <2>2. CASE x = i
      BY <1>1, <1>2, <1>7, <2>2
      DEF Pack!NothingToRewrite, Pack!LockDir, Pack!LeaveSidecar, Pack!BeginSidecar,
          Pack!writeSidecar, Pack!stripTreeOnce, Pack!StripDirectory, Pack!TypeOK
    <2>3. CASE x # i /\ Pack!Tree(x) # t
      BY <1>3, <1>4, <2>3 DEF Pack!IInv, Pack!LocksAreHeld
    <2>4. CASE x # i /\ Pack!Tree(x) = t
      <3>1. ASSUME doing[x] \in {"compress", "writing"}
            PROVE  dirLock' = dirLock /\ sidecar' = sidecar
        BY <1>1, <1>7, <2>4, <3>1
        DEF Pack!NothingToRewrite, Pack!LockDir, Pack!LeaveSidecar, Pack!BeginSidecar,
            Pack!writeSidecar, Pack!stripTreeOnce, Pack!StripDirectory, Pack!Assumed
      <3>2. QED
        BY <1>3, <2>4, <3>1 DEF Pack!IInv, Pack!LocksAreHeld
    <2>5. QED
      BY <2>2, <2>3, <2>4
  <1>9. Pack!OneAtATime'
    <2>1. /\ d # "walking"
          /\ d = "stripping" => t \in Stripped /\ stripOnce'[t] = "running" /\ stripOnce[t] = "no"
          /\ stripOnce[t] = "running" => stripOnce'[t] = "running" \/ doing[i] = "stripping"
      BY <1>1, <1>2
      DEF Pack!NothingToRewrite, Pack!LockDir, Pack!LeaveSidecar, Pack!BeginSidecar,
          Pack!writeSidecar, Pack!stripTreeOnce, Pack!StripDirectory, Pack!TypeOK
    <2>2. ASSUME NEW x \in Platforms
          PROVE  /\ doing'[x] = "stripping" =>
                      Pack!Tree(x) \in Stripped /\ stripOnce'[Pack!Tree(x)] = "running"
                 /\ doing'[x] = "walking" => memo[Pack!Tree(x)] = "running"
      BY <1>1, <1>2, <1>3, <1>4, <1>7, <2>1 DEF Pack!IInv, Pack!OneAtATime
    <2>3. ASSUME NEW x \in Platforms, NEW y \in Platforms,
                 doing'[x] \in {"stripping", "walking"}, doing'[y] = doing'[x],
                 Pack!Tree(y) = Pack!Tree(x)
          PROVE  x = y
      BY <1>1, <1>2, <1>3, <1>7, <2>1, <2>3 DEF Pack!IInv, Pack!OneAtATime
    <2>4. QED
      BY <1>2, <1>3, <2>2, <2>3 DEF Pack!OneAtATime
  <1>10. Pack!WalksAreSettled'
    <2>1. /\ sidecar[t] \notin {"none", "old"} => sidecar'[t] \notin {"none", "old"}
          /\ stripOnce[t] = "done" => stripOnce'[t] = "done"
      BY <1>1, <1>7
      DEF Pack!NothingToRewrite, Pack!LockDir, Pack!LeaveSidecar, Pack!BeginSidecar,
          Pack!writeSidecar, Pack!stripTreeOnce, Pack!StripDirectory, Pack!TypeOK
    <2>2. \A x \in Pack!Trees : Pack!Settled(x) => Pack!Settled(x)'
      BY <1>1, <1>4, <2>1
    <2>3. ASSUME d = "walk" PROVE Pack!Settled(t)'
      <3>1. t \in Precompressed => t \notin Stripped
        BY DEF Pack!Assumed
      <3>2. QED
        BY <1>1, <1>2, <1>4, <1>7, <2>3, <3>1
        DEF Pack!NothingToRewrite, Pack!LockDir, Pack!LeaveSidecar, Pack!BeginSidecar,
          Pack!writeSidecar, Pack!stripTreeOnce, Pack!StripDirectory, Pack!TypeOK
    <2>4. \A x \in Platforms : doing'[x] \in {"walk", "walking"} => Pack!Settled(Pack!Tree(x))'
      BY <1>1, <1>2, <1>3, <2>2, <2>3 DEF Pack!IInv, Pack!WalksAreSettled
    <2>5. \A x \in Pack!Trees : memo'[x] # "no" => Pack!Settled(x)'
      BY <1>2, <2>2 DEF Pack!IInv, Pack!WalksAreSettled
    <2>6. QED
      BY <1>3, <2>4, <2>5 DEF Pack!WalksAreSettled
  <1>11. Pack!PassedIsBuilt'
    BY <1>2 DEF Pack!IInv, Pack!PassedIsBuilt, Pack!TypeOK
  <1>12. QED
    BY <1>6, <1>8, <1>9, <1>10, <1>11 DEF Pack!IInv

\* The trees are walked: one platform for all, and each passes what is built.
LEMMA Walks ==
  ASSUME Pack!Assumed, Pack!TypeOK, Pack!IInv, NEW i \in Platforms,
         Pack!buildDirectoryTreeLayer(i) \/ Pack!WalkEnds(i)
  PROVE  Pack!TypeOK' /\ Pack!IInv'
  <1> DEFINE t == LayerOrder[place[i]]
             d == doing'[i]
  <1>1. t \in Pack!Trees /\ Pack!Tree(i) = t /\ place[i] \in 1 .. Len(LayerOrder)
    BY PlacesAreTrees
  <1>2. /\ packing = "yes" /\ UNCHANGED <<packing, dirLock, stripOnce, sidecar, smaller, bytes, ioFailed>>
        /\ doing[i] \in {"walk", "walking"}
    BY DEF Pack!buildDirectoryTreeLayer, Pack!WalkEnds
  <1>3. /\ \A x \in Pack!Trees : Pack!Settled(x)' <=> Pack!Settled(x)
        /\ Pack!Settled(t)
    BY <1>1, <1>2 DEF Pack!IInv, Pack!WalksAreSettled
  <1>4. \/ /\ doing[i] = "walk" /\ memo[t] = "no" /\ memo' = [memo EXCEPT ![t] = "running"]
           /\ temp' = temp \cup {t} /\ doing' = [doing EXCEPT ![i] = "walking"] /\ place' = place
        \/ /\ doing[i] = "walking" /\ memo[t] = "running" /\ memo' = [memo EXCEPT ![t] = "failed"]
           /\ temp' = temp \ {t} /\ doing' = [doing EXCEPT ![i] = "failed"] /\ place' = place
        \/ /\ doing[i] = "walk" /\ memo[t] = "failed" /\ memo' = memo
           /\ temp' = temp /\ doing' = [doing EXCEPT ![i] = "failed"] /\ place' = place
        \/ /\ doing[i] = "walk" /\ memo[t] = "built" /\ memo' = memo
           /\ temp' = temp /\ Pack!Next_layer(i)
        \/ /\ doing[i] = "walking" /\ memo[t] = "running" /\ memo' = [memo EXCEPT ![t] = "built"]
           /\ temp' = temp /\ Pack!Next_layer(i)
    BY <1>1 DEF Pack!buildDirectoryTreeLayer, Pack!WalkEnds, Pack!IInv, Pack!OneAtATime
  <1>5. /\ memo' = [memo EXCEPT ![t] = memo'[t]]
        /\ memo'[t] \in {"running", "built", "failed"}
        /\ memo[t] = "built" => memo'[t] = "built"
        /\ memo[t] = "running" => doing[i] = "walking"
        /\ memo'[t] \in {"running", "built"} => t \in temp'
        /\ \A x \in Pack!Trees \ {t} : x \in temp' <=> x \in temp
        /\ temp' \subseteq Pack!Trees
    BY <1>1, <1>2, <1>4 DEF Pack!TypeOK, Pack!IInv, Pack!PassedIsBuilt
  <1>6. /\ doing' = [doing EXCEPT ![i] = d]
        /\ d \in {"rewrite", "walking", "packed", "failed"}
        /\ d = "walking" => memo[t] = "no" /\ memo'[t] = "running" /\ place' = place
        /\ doing[i] = "walking" => d # "walking"
        /\ \/ place' = place /\ (d = "packed" => place[i] = Len(LayerOrder) /\ memo'[t] = "built")
           \/ /\ place' = [place EXCEPT ![i] = place[i] + 1] /\ place[i] + 1 \in DOMAIN LayerOrder
              /\ memo'[t] = "built" /\ d = "rewrite"
    BY <1>1, <1>4, PlacesAreTrees DEF Pack!TypeOK
  <1> HIDE DEF t, d
  <1>7. Pack!TypeOK'
    <2>1. /\ place' \in [Platforms -> DOMAIN LayerOrder]
          /\ doing' \in [Platforms -> {"rewrite", "compress", "writing", "stripping", "walk",
                                     "walking", "packed", "failed"}]
      BY <1>6 DEF Pack!TypeOK
    <2>2. memo' \in [Pack!Trees -> {"no", "running", "built", "failed"}]
      BY <1>5 DEF Pack!TypeOK
    <2>3. QED
      BY <1>2, <1>5, <2>1, <2>2 DEF Pack!TypeOK, Pack!Trees
  <1>8. \A x \in Platforms \ {i} : /\ doing'[x] = doing[x] /\ place'[x] = place[x]
                                  /\ Pack!Tree(x)' = Pack!Tree(x) /\ Pack!Tree(x) \in Pack!Trees
    BY <1>6, PlacesAreTrees DEF Pack!Tree, Pack!TypeOK
  <1>9. d # "rewrite" => Pack!Tree(i)' = t
    BY <1>1, <1>6 DEF Pack!Tree
  <1>10. doing'[i] = d
    BY <1>6 DEF Pack!TypeOK
  <1>11. Pack!LocksAreHeld'
    BY <1>2, <1>6, <1>8, <1>10 DEF Pack!IInv, Pack!LocksAreHeld
  <1>12. Pack!OneAtATime'
    <2>1. ASSUME NEW x \in Platforms
          PROVE  /\ doing'[x] = "stripping" =>
                      Pack!Tree(x)' \in Stripped /\ stripOnce'[Pack!Tree(x)'] = "running"
                 /\ doing'[x] = "walking" => memo'[Pack!Tree(x)'] = "running"
      <3>1. CASE x = i
        BY <1>6, <1>9, <1>10, <3>1
      <3>2. CASE x # i
        <4>1. doing[x] = "walking" /\ Pack!Tree(x) = t => doing[i] # "walking" /\ memo[t] = "running"
          BY <1>1, <3>2 DEF Pack!IInv, Pack!OneAtATime
        <4>2. doing[x] = "walking" => Pack!Tree(x) # t
          BY <1>5, <4>1
        <4>3. QED
          BY <1>2, <1>5, <1>8, <3>2, <4>2 DEF Pack!IInv, Pack!OneAtATime, Pack!TypeOK
      <3>3. QED
        BY <3>1, <3>2
    <2>2. ASSUME NEW x \in Platforms, NEW y \in Platforms, doing'[x] \in {"stripping", "walking"},
                 doing'[y] = doing'[x], Pack!Tree(y)' = Pack!Tree(x)'
          PROVE  x = y
      <3>1. \A z \in Platforms \ {i} : doing[z] = "walking" /\ Pack!Tree(z) = t => memo[t] = "running"
        BY DEF Pack!IInv, Pack!OneAtATime
      <3>2. QED
        BY <1>6, <1>8, <1>9, <1>10, <2>2, <3>1 DEF Pack!IInv, Pack!OneAtATime
    <2>3. QED
      BY <2>1, <2>2 DEF Pack!OneAtATime
  <1>13. Pack!WalksAreSettled'
    BY <1>1, <1>3, <1>5, <1>6, <1>8, <1>9, <1>10 DEF Pack!IInv, Pack!WalksAreSettled, Pack!TypeOK
  <1>14. Pack!PassedIsBuilt'
    <2>1. \A x \in Pack!Trees : memo[x] = "built" => memo'[x] = "built"
      BY <1>5 DEF Pack!TypeOK
    <2>2. \A n \in DOMAIN LayerOrder : LayerOrder[n] \in Pack!Trees
      BY DEF Pack!Trees
    <2>3. ASSUME NEW x \in Platforms, NEW n \in DOMAIN LayerOrder, n < place'[x] \/ doing'[x] = "packed"
          PROVE  memo'[LayerOrder[n]] = "built"
      <3>1. CASE x # i
        BY <1>8, <2>1, <2>2, <2>3, <3>1 DEF Pack!IInv, Pack!PassedIsBuilt
      <3>2. CASE x = i
        <4>1. n \in 1 .. Len(LayerOrder) /\ place[i] \in DOMAIN LayerOrder /\ Len(LayerOrder) \in Nat
          BY PlacesAreTrees
        <4>2. n < place[i] \/ n = place[i]
          BY <1>6, <1>10, <2>3, <3>2, <4>1, <1>1 DEF Pack!TypeOK
        <4>3. n = place[i] => memo'[t] = "built"
          BY <1>1, <1>6, <1>10, <2>3, <3>2, <4>1 DEF Pack!TypeOK
        <4>4. QED
          BY <2>1, <2>2, <4>2, <4>3 DEF Pack!IInv, Pack!PassedIsBuilt, t
      <3>3. QED
        BY <3>1, <3>2
    <2>4. \A x \in Pack!Trees : memo'[x] \in {"running", "built"} => x \in temp'
      BY <1>2, <1>5 DEF Pack!IInv, Pack!PassedIsBuilt, Pack!TypeOK
    <2>5. QED
      BY <1>2, <2>3, <2>4 DEF Pack!PassedIsBuilt
  <1>15. QED
    BY <1>7, <1>11, <1>12, <1>13, <1>14 DEF Pack!IInv

USE DEF Pack!IInv, Pack!LocksAreHeld, Pack!OneAtATime, Pack!WalksAreSettled, Pack!PassedIsBuilt

LEMMA PackAlways ==
  ASSUME Pack!Assumed
  PROVE  Pack!Spec => [](Pack!TypeOK /\ Pack!IInv)
  <1>1. Pack!TypeOK /\ Pack!IInv /\ [Pack!Next]_(Pack!packVars) => (Pack!TypeOK /\ Pack!IInv)'
    <2>1. ASSUME Pack!TypeOK, Pack!IInv, UNCHANGED Pack!packVars PROVE Pack!TypeOK' /\ Pack!IInv'
      <3>1. UNCHANGED <<packing, place, doing, dirLock, stripOnce, sidecar, smaller, bytes, memo,
                        layer, temp, ioFailed>>
        BY <2>1 DEF Pack!packVars
      <3>2. \A i \in Platforms : Pack!Tree(i)' = Pack!Tree(i)
        BY <3>1 DEF Pack!Tree
      <3>3. Pack!TypeOK'
        BY <2>1, <3>1 DEF Pack!TypeOK
      <3>4. Pack!IInv'
        BY <2>1, <3>1, <3>2
      <3>5. QED
        BY <3>3, <3>4
    <2>2. ASSUME Pack!TypeOK, Pack!IInv, Pack!StartPacking PROVE Pack!TypeOK' /\ Pack!IInv'
      <3>1. /\ \A i \in Platforms : doing[i] = "rewrite" /\ Pack!Tree(i)' = Pack!Tree(i)
            /\ \A t \in Pack!Trees : memo[t] = "no"
            /\ packing' = "yes"
            /\ UNCHANGED <<place, doing, dirLock, stripOnce, bytes, memo, layer, temp, ioFailed>>
        BY <2>2 DEF Pack!StartPacking, Pack!Tree
      <3>2. /\ sidecar' \in [Pack!Trees -> {"none", "old", "whole"}]
            /\ smaller' \in [Pack!Trees -> BOOLEAN]
        BY <2>2 DEF Pack!StartPacking
      <3>3. Pack!TypeOK'
        BY <2>2, <3>1, <3>2 DEF Pack!TypeOK
      <3>4. (Pack!LocksAreHeld /\ Pack!OneAtATime /\ Pack!WalksAreSettled)'
        BY <3>1
      <3>5. Pack!PassedIsBuilt'
        BY <2>2, <3>1
      <3>6. QED
        BY <3>3, <3>4, <3>5
    <2>3. ASSUME Pack!TypeOK, Pack!IInv, Pack!Waited \/ Pack!cleanup
          PROVE  Pack!TypeOK' /\ Pack!IInv'
      <3>1. /\ packing # "no" /\ packing' \in {"packed", "failed", "cleaned"}
            /\ packing' = "packed" => \A i \in Platforms : doing[i] = "packed"
            /\ packing' = "cleaned" => temp' = {}
            /\ packing' # "cleaned" => packing # "cleaned" /\ temp' = temp
            /\ temp' \subseteq temp
            /\ UNCHANGED <<place, doing, dirLock, stripOnce, sidecar, smaller, bytes, memo, layer,
                           ioFailed>>
        BY <2>3 DEF Pack!Waited, Pack!cleanup, Pack!TypeOK
      <3>2. \A i \in Platforms : Pack!Tree(i)' = Pack!Tree(i)
        BY <3>1 DEF Pack!Tree
      <3>3. Pack!TypeOK'
        BY <2>3, <3>1 DEF Pack!TypeOK
      <3>4. (Pack!LocksAreHeld /\ Pack!OneAtATime /\ Pack!WalksAreSettled)'
        BY <2>3, <3>1, <3>2
      <3>5. Pack!PassedIsBuilt'
        BY <2>3, <3>1
      <3>6. QED
        BY <3>3, <3>4, <3>5
    <2>4. ASSUME Pack!TypeOK, Pack!IInv, NEW i \in Platforms, Pack!Step(i)
          PROVE  Pack!TypeOK' /\ Pack!IInv'
      BY <2>4, Rewrites, Walks DEF Pack!Step
    <2>5. QED
      BY <2>1, <2>2, <2>3, <2>4 DEF Pack!Next
  <1> HIDE DEF Pack!IInv
  <1>2. QED
    BY <1>1, PackInit, PTL DEF Pack!Spec

\* The last record of a path is that of the layer that ends up on top.
LEMMA LastIsTop ==
  ASSUME Pack!Assumed, NEW f \in LayerFiles
  PROVE  Pack!RecordOf(f) = Pack!Mounted(f)
  <1> DEFINE with == {n \in DOMAIN LayerOrder : f \in filesOf[LayerOrder[n]]}
             Last(n) == n \in with /\ \A k \in with : k <= n
             Top(n) == n \in DOMAIN LayerOrder /\ f \in filesOf[LayerOrder[n]]
                         /\ \A m \in n + 1 .. Len(LayerOrder) : f \notin filesOf[LayerOrder[m]]
  <1>1. DOMAIN LayerOrder = 1 .. Len(LayerOrder) /\ Len(LayerOrder) \in Nat /\ with # {}
    BY DEF Pack!Assumed
  <1>3. PICK top \in with : Last(top)
    <2>1. with \in SUBSET Nat /\ \A k \in with : k <= Len(LayerOrder)
      BY <1>1
    <2> HIDE DEF with
    <2>2. QED
      BY <1>1, <2>1, GreatestOf
  <1>4. \A n : Last(n) => n = top
    BY <1>1, <1>3
  <1>5. \A n : Top(n) <=> Last(n)
    <2>1. ASSUME NEW n, Top(n) PROVE Last(n)
      BY <1>1, <2>1
    <2>2. ASSUME NEW n, Last(n) PROVE Top(n)
      <3>1. \A m \in n + 1 .. Len(LayerOrder) : m \in DOMAIN LayerOrder /\ ~ (m <= n)
        BY <1>1, <2>2
      <3>2. QED
        BY <2>2, <3>1
    <2>3. QED
      BY <2>1, <2>2
  <1>6. top = CHOOSE n \in with : \A k \in with : k <= n
    BY <1>3, <1>4
  <1>7. top = CHOOSE n \in DOMAIN LayerOrder :
                f \in filesOf[LayerOrder[n]] /\ \A m \in n + 1 .. Len(LayerOrder) : f \notin filesOf[LayerOrder[m]]
    BY <1>3, <1>4, <1>5
  <1>8. \A n \in DOMAIN LayerOrder : f \in Pack!Records[n].rel <=> f \in filesOf[LayerOrder[n]]
    BY DEF Pack!Records
  <1>9. {n \in DOMAIN LayerOrder : f \in Pack!Records[n].rel} = with
    BY <1>8
  <1>10. Pack!RecordOf(f) = Pack!Records[top].sha
    BY <1>6, <1>9 DEF Pack!RecordOf
  <1>11. Pack!Mounted(f) = layer[LayerOrder[top]]
    BY <1>7 DEF Pack!Mounted
  <1>12. QED
    BY <1>3, <1>10, <1>11 DEF Pack!Records

\* However many platforms package the same trees: none is rewritten under a walk or
\* after it, except for a sidecar whose writing failed, every layer of a finished
\* build can be read until it is over, the attestation is of what is mounted, and
\* the cache gives the bytes that a layer's digest names.
THEOREM LayersAreAlwaysWhatRuns ==
  ASSUME Pack!Assumed, Cache!Assumed
  PROVE  Pack!Spec /\ Cache!Spec => []LayersAreWhatRuns
  <1>1. ASSUME Pack!TypeOK, Pack!IInv, Cache!ServesWhatItNames PROVE LayersAreWhatRuns
    <2>1. Pack!NoWriteUnderWalk
      <3>1. \A i \in Platforms : Pack!Tree(i) \in Pack!Trees
        BY <1>1, PlacesAreTrees
      <3>2. QED
        BY <1>1, <3>1 DEF Pack!NoWriteUnderWalk
    <2>2. Pack!LayersStayReadable
      <3>1. ASSUME packing = "packed" PROVE temp = Pack!Trees
        <4>1. PICK i \in Platforms : doing[i] = "packed"
          BY <1>1, <3>1 DEF Pack!Assumed
        <4>2. \A n \in DOMAIN LayerOrder : memo[LayerOrder[n]] = "built" /\ LayerOrder[n] \in Pack!Trees
          BY <1>1, <4>1 DEF Pack!Trees
        <4>3. QED
          BY <1>1, <3>1, <4>2 DEF Pack!Trees, Pack!TypeOK
      <3>2. QED
        BY <1>1, <3>1 DEF Pack!LayersStayReadable
    <2>3. Pack!AttestsWhatIsMounted
      BY LastIsTop DEF Pack!AttestsWhatIsMounted
    <2>4. QED
      BY <1>1, <2>1, <2>2, <2>3 DEF LayersAreWhatRuns
  <1> HIDE DEF Pack!IInv, LayersAreWhatRuns
  <1>2. QED
    BY <1>1, PackAlways, CacheServesWhatItNames, PTL

-----------------------------------------------------------------------------
(* Jobs that push to one repository *)

LEMMA PushOf ==
  ASSUME Images!Assumed, NEW j \in Jobs
  PROVE  /\ Images!digest(j) \in ImageDigests /\ Images!digest(j) # NoDigest
         /\ Pushes[j].mode \in {"referrer", "tag", "auto"} /\ Pushes[j].signs \in BOOLEAN
         /\ Len(Images!tagsOrDefault(j)) \in Nat \ {0}
         /\ DOMAIN Images!tagsOrDefault(j) = 1 .. Len(Images!tagsOrDefault(j))
         /\ \A i \in DOMAIN Images!tagsOrDefault(j) : Images!tagsOrDefault(j)[i] \in Images!Tags
  <1>1. Pushes[j] \in Images!Push /\ Pushes[j].tags # <<>>
    BY DEF Images!Assumed
  <1>2. /\ Pushes[j].digest \in ImageDigests /\ Pushes[j].tags \in Seq(Images!Tags)
        /\ Pushes[j].mode \in {"referrer", "tag", "auto"} /\ Pushes[j].signs \in BOOLEAN
    BY <1>1 DEF Images!Push
  <1>3. Len(Pushes[j].tags) \in Nat \ {0} /\ DOMAIN Pushes[j].tags = 1 .. Len(Pushes[j].tags)
    BY <1>1, <1>2
  <1>4. \A i \in DOMAIN Pushes[j].tags : Pushes[j].tags[i] \in Images!Tags
    BY <1>2, <1>3
  <1>5. QED
    BY <1>2, <1>3, <1>4 DEF Images!Assumed, Images!digest, Images!tagsOrDefault

\* A tag of an attachment names one or none.
LEMMA OneOrNone ==
  /\ Images!Cardinality({}) <= 1
  /\ \A a : Images!Cardinality({a}) <= 1
  <1>1. Cardinality({}) = 0
    BY FS_EmptySet
  <1>2. \A a : Cardinality({a}) = 1
    BY FS_Singleton, Zenon
  <1>3. Cardinality({}) <= 1 /\ \A a : Cardinality({a}) <= 1
    BY SMTT(60), <1>1, <1>2
  <1>4. QED
    BY <1>3 DEF Images!Cardinality, Cardinality

LEMMA ImagesInit ==
  ASSUME Images!Assumed
  PROVE  Images!Init => Images!TypeOK /\ Images!IInv
  <1> SUFFICES ASSUME Images!Init PROVE Images!TypeOK /\ Images!IInv
    OBVIOUS
  <1>1. /\ manifests \subseteq ImageDigests /\ named \in [Images!Tags -> manifests \cup {NoDigest}]
        /\ api \in BOOLEAN /\ referrers \subseteq Images!Attachment
        /\ refTag \in [ImageDigests -> SUBSET Images!Attachment]
    BY DEF Images!Init
  <1>2. /\ attTags \in [ImageDigests -> [Images!Kinds -> SUBSET Images!Attachment]]
        /\ \A d \in ImageDigests, k \in Images!Kinds : attTags[d][k] = {}
    BY DEF Images!Init
  <1>3. /\ job \in [Jobs -> Images!Stages] /\ nth \in [Jobs -> Nat \ {0}]
        /\ copy \in [Jobs -> SUBSET Images!Attachment] /\ reported \in [Jobs -> SUBSET Images!Kinds]
        /\ pointed \in [Jobs -> SUBSET Images!Tags]
    BY DEF Images!Init, Images!Stages
  <1>4. \A d \in ImageDigests, k \in Images!Kinds : Images!Cardinality(attTags[d][k]) <= 1
    BY <1>2, OneOrNone
  <1>5. Images!TypeOK
    BY <1>1, <1>2, <1>3, <1>4 DEF Images!TypeOK
  <1>6. Images!TagsInOrder
    <2>1. ASSUME NEW j \in Jobs
          PROVE  /\ job[j] = "head" /\ nth[j] = 1 /\ 1 \in DOMAIN Images!tagsOrDefault(j)
                 /\ \A i \in DOMAIN Images!tagsOrDefault(j) : ~ (i < 1)
      BY PushOf DEF Images!Init
    <2>2. QED
      BY <2>1 DEF Images!TagsInOrder
  <1>7. Images!TagsAreOfTheirKind
    BY <1>2 DEF Images!TagsAreOfTheirKind
  <1>8. Images!PushedTagsWereMoved /\ Images!AttachmentsAreFound
    BY DEF Images!Init, Images!PushedTagsWereMoved, Images!Published, Images!AttachmentsAreFound
  <1>9. QED
    BY <1>5, <1>6, <1>7, <1>8 DEF Images!IInv

\* What has named a digest is not forgotten.
LEMMA PointedGrows ==
  ASSUME Images!Assumed, Images!TypeOK, Images!Next
  PROVE  /\ pointed' \in [Jobs -> SUBSET Images!Tags]
         /\ \A i \in Jobs : pointed[i] \subseteq pointed'[i]
         /\ \A i \in Jobs, t \in Images!Tags :
              named'[t] = Images!digest(i) /\ job'[i] # "head" => t \in pointed'[i]
  <1>1. pointed' = [i \in Jobs |-> pointed[i] \cup
                     {t \in Images!Tags : named'[t] = Images!digest(i) /\ job'[i] # "head"}]
    BY DEF Images!Next
  <1>2. QED
    BY <1>1 DEF Images!TypeOK

\* The tag a push is at has named its digest: it goes to the next, or is over.
LEMMA TagIsDone ==
  ASSUME Images!Assumed, Images!TypeOK, Images!IInv, Images!Next, NEW j \in Jobs,
         job[j] \in {"write", "check", "retag"}, NEW more \in {"write", "check"},
         named'[Images!tagsOrDefault(j)[nth[j]]] = Images!digest(j), Images!After(j, nth[j], more)
  PROVE  /\ job' \in [Jobs -> Images!Stages] /\ nth' \in [Jobs -> Nat \ {0}]
         /\ Images!TagsInOrder' /\ Images!PushedTagsWereMoved'
  <1> DEFINE tags(i) == Images!tagsOrDefault(i)
             here == nth[j]
             pushing == {"head", "write", "check", "retag"}
  <1>1. \A i \in Jobs : DOMAIN tags(i) = 1 .. Len(tags(i)) /\ Len(tags(i)) \in Nat \ {0}
    BY PushOf
  <1>2. /\ job \in [Jobs -> Images!Stages] /\ nth \in [Jobs -> Nat \ {0}]
        /\ nth' = [nth EXCEPT ![j] = here + 1]
        /\ job' = [job EXCEPT ![j] = IF here < Len(tags(j)) THEN more ELSE "sbom"]
    BY DEF Images!TypeOK, Images!After, Images!Goto
  <1>3. /\ here \in 1 .. Len(tags(j))
        /\ \A i \in DOMAIN tags(j) : i < here => tags(j)[i] \in pointed[j]
    BY <1>1 DEF Images!IInv, Images!TagsInOrder
  <1>4. tags(j)[here] \in pointed'[j]
    <2>1. tags(j)[here] \in Images!Tags /\ job'[j] # "head"
      BY <1>1, <1>2, <1>3, PushOf
    <2>2. QED
      BY <2>1, PointedGrows
  <1>5. \A i \in DOMAIN tags(j) : i < here + 1 => tags(j)[i] \in pointed'[j]
    <2>1. ASSUME NEW i \in DOMAIN tags(j), i < here + 1
          PROVE  tags(j)[i] \in pointed'[j]
      <3>1. i = here \/ i < here
        BY <2>1, <1>1, <1>3
      <3>2. QED
        BY <3>1, <1>3, <1>4, PointedGrows
    <2>2. QED
      BY <2>1
  <1>6. job' \in [Jobs -> Images!Stages] /\ nth' \in [Jobs -> Nat \ {0}]
    <2>1. here \in Nat /\ here + 1 \in Nat \ {0}
      BY <1>1, <1>3
    <2>2. nth' \in [Jobs -> Nat \ {0}]
      <3> HIDE DEF here
      <3>1. QED
        BY <1>2, <2>1
    <2>3. (IF here < Len(tags(j)) THEN more ELSE "sbom") \in Images!Stages
      BY DEF Images!Stages
    <2>4. QED
      BY <1>2, <2>2, <2>3
  <1>7. ASSUME NEW i \in Jobs
        PROVE  /\ job'[i] # "index" /\ (job'[i] = "head" => nth'[i] = 1)
               /\ job'[i] \in pushing =>
                    /\ nth'[i] \in DOMAIN tags(i)
                    /\ \A k \in DOMAIN tags(i) : k < nth'[i] => tags(i)[k] \in pointed'[i]
               /\ Images!Published(i)' => \A k \in DOMAIN tags(i) : tags(i)[k] \in pointed'[i]
    <2>1. CASE i = j
      <3>1. nth'[j] = here + 1 /\ job'[j] \notin {"head", "index"}
        BY <1>2
      <3>2. job'[j] \in pushing => here + 1 \in DOMAIN tags(j)
        BY <1>1, <1>2, <1>3
      <3>3. Images!Published(j)' => \A k \in DOMAIN tags(j) : k < here + 1
        BY <1>1, <1>2, <1>3 DEF Images!Published
      <3>4. QED
        BY <2>1, <3>1, <3>2, <3>3, <1>5
    <2>2. CASE i # j
      <3>1. nth'[i] = nth[i] /\ job'[i] = job[i] /\ (Images!Published(i)' <=> Images!Published(i))
        BY <2>2, <1>2 DEF Images!Published
      <3>2. QED
        BY <3>1, PointedGrows DEF Images!IInv, Images!TagsInOrder, Images!PushedTagsWereMoved
    <2>3. QED
      BY <2>1, <2>2
  <1>8. Images!TagsInOrder'
    BY <1>7 DEF Images!TagsInOrder, Images!tagsOrDefault
  <1>9. Images!PushedTagsWereMoved'
    BY <1>7 DEF Images!PushedTagsWereMoved, Images!tagsOrDefault
  <1>10. QED
    BY <1>6, <1>8, <1>9

\* A step that is at the same tag as before, or after the push.
LEMMA TagIsTheSame ==
  ASSUME Images!Assumed, Images!TypeOK, Images!IInv, Images!Next, NEW j \in Jobs,
         NEW towards \in Images!Stages \ {"head", "index"}, Images!Goto(j, towards), nth' = nth,
         towards \in {"write", "check", "retag"} => job[j] \in {"head", "write", "check", "retag"},
         towards \notin {"write", "check", "retag", "failed"} => Images!Published(j)
  PROVE  /\ job' \in [Jobs -> Images!Stages] /\ nth' \in [Jobs -> Nat \ {0}]
         /\ Images!TagsInOrder' /\ Images!PushedTagsWereMoved'
  <1>1. job \in [Jobs -> Images!Stages] /\ job' = [job EXCEPT ![j] = towards]
    BY DEF Images!TypeOK, Images!Goto
  <1>2. Images!TagsInOrder'
    BY <1>1, PointedGrows DEF Images!IInv, Images!TagsInOrder, Images!tagsOrDefault
  <1>3. Images!PushedTagsWereMoved'
    BY <1>1, PointedGrows DEF Images!IInv, Images!PushedTagsWereMoved, Images!Published,
                              Images!tagsOrDefault
  <1>4. QED
    BY <1>1, <1>2, <1>3 DEF Images!TypeOK

\* A step of Push.
LEMMA PushSteps ==
  ASSUME Images!Assumed, Images!TypeOK, Images!IInv, Images!Next, NEW j \in Jobs,
         \/ Images!digestExists(j) \/ Images!writePayload(j) \/ Images!reconcileTags(j)
         \/ Images!Retag(j) \/ Images!PushFails(j)
  PROVE  Images!TypeOK' /\ Images!IInv'
  <1> DEFINE here == Images!tagsOrDefault(j)[nth[j]]
             Moved == /\ job' \in [Jobs -> Images!Stages] /\ nth' \in [Jobs -> Nat \ {0}]
                      /\ Images!TagsInOrder' /\ Images!PushedTagsWereMoved'
             Kept == UNCHANGED <<api, attTags, referrers, refTag, copy, reported>>
  <1>1. /\ Images!digest(j) \in ImageDigests
        /\ job[j] \in {"write", "check", "retag"} => here \in Images!Tags
    BY PushOf DEF Images!IInv, Images!TagsInOrder
  <1>2. ASSUME Images!Name(j, here), job[j] \in {"write", "check", "retag"}
        PROVE  /\ manifests' \subseteq ImageDigests /\ named' \in [Images!Tags -> manifests' \cup {NoDigest}]
               /\ named'[here] = Images!digest(j)
    <2>1. /\ manifests' = manifests \cup {Images!digest(j)} /\ manifests \subseteq ImageDigests
          /\ named \in [Images!Tags -> manifests \cup {NoDigest}]
          /\ named' = [named EXCEPT ![here] = Images!digest(j)]
      BY <1>2 DEF Images!Name, Images!TypeOK
    <2>2. here \in Images!Tags /\ Images!digest(j) \in ImageDigests
      BY <1>1, <1>2
    <2>3. QED
      <3> HIDE DEF here
      <3>1. QED
        BY <2>1, <2>2
  <1>3. /\ manifests' \subseteq ImageDigests /\ named' \in [Images!Tags -> manifests' \cup {NoDigest}]
        /\ Moved /\ Kept
    <2>1. CASE Images!digestExists(j)
      <3>1. PICK towards \in {"check", "write"} : Images!Goto(j, towards)
        BY <2>1 DEF Images!digestExists
      <3>2. Moved
        BY <2>1, <3>1, TagIsTheSame DEF Images!digestExists, Images!Stages
      <3>3. QED
        BY <2>1, <3>2 DEF Images!digestExists, Images!registryVars, Images!TypeOK
    <2>2. CASE Images!writePayload(j)
      <3>1. Moved
        BY <2>2, <1>2, TagIsDone DEF Images!writePayload
      <3>2. QED
        BY <2>2, <1>2, <3>1 DEF Images!writePayload, Images!Name, Images!After
    <2>3. CASE Images!reconcileTags(j)
      <3>1. CASE Images!NamesIt(j, here) /\ Images!After(j, nth[j], "check")
        <4>1. named'[here] = Images!digest(j)
          BY <2>3, <3>1 DEF Images!reconcileTags, Images!registryVars, Images!NamesIt
        <4>2. Moved
          BY <2>3, <3>1, <4>1, TagIsDone DEF Images!reconcileTags
        <4>3. QED
          BY <2>3, <3>1, <4>2 DEF Images!reconcileTags, Images!registryVars, Images!After, Images!TypeOK
      <3>2. CASE Images!Goto(j, "retag") /\ UNCHANGED <<nth, copy, reported>>
        <4>1. Moved
          BY <2>3, <3>2, TagIsTheSame DEF Images!reconcileTags, Images!Stages
        <4>2. QED
          BY <2>3, <3>2, <4>1 DEF Images!reconcileTags, Images!registryVars, Images!TypeOK
      <3>3. QED
        BY <2>3, <3>1, <3>2 DEF Images!reconcileTags
    <2>4. CASE Images!Retag(j)
      <3>1. Moved
        BY <2>4, <1>2, TagIsDone DEF Images!Retag
      <3>2. QED
        BY <2>4, <1>2, <3>1 DEF Images!Retag, Images!Name, Images!After
    <2>5. CASE Images!PushFails(j)
      <3>1. Moved
        BY <2>5, TagIsTheSame DEF Images!PushFails, Images!Stages
      <3>2. QED
        BY <2>5, <3>1 DEF Images!PushFails, Images!registryVars, Images!TypeOK
    <2>6. QED
      BY <2>1, <2>2, <2>3, <2>4, <2>5
  <1>4. Images!TypeOK'
    BY <1>3, PointedGrows DEF Images!TypeOK, Images!Cardinality
  <1>5. Images!TagsAreOfTheirKind' /\ Images!AttachmentsAreFound'
    BY <1>3 DEF Images!IInv, Images!TagsAreOfTheirKind, Images!AttachmentsAreFound, Images!Listed,
                Images!fetchAttachmentImage, Images!Made, Images!digest
  <1>6. QED
    BY <1>3, <1>4, <1>5 DEF Images!IInv

\* What an attachment leaves of the tags of pushes.
LEMMA AfterPush ==
  ASSUME Images!Assumed, Images!TypeOK, Images!IInv, Images!Next, NEW j \in Jobs, Images!Published(j),
         NEW towards \in {"failed", "att", "att referrer", "sig", "sig referrer", "done"},
         Images!Goto(j, towards), UNCHANGED <<manifests, named, nth, copy, refTag, api>>
  PROVE  /\ job' \in [Jobs -> Images!Stages] /\ nth' \in [Jobs -> Nat \ {0}]
         /\ Images!TagsInOrder' /\ Images!PushedTagsWereMoved'
         /\ manifests' \subseteq ImageDigests /\ named' \in [Images!Tags -> manifests' \cup {NoDigest}]
         /\ pointed' \in [Jobs -> SUBSET Images!Tags] /\ api' \in BOOLEAN
         /\ refTag' \in [ImageDigests -> SUBSET Images!Attachment]
         /\ copy' \in [Jobs -> SUBSET Images!Attachment]
  <1>1. /\ job' \in [Jobs -> Images!Stages] /\ nth' \in [Jobs -> Nat \ {0}]
        /\ Images!TagsInOrder' /\ Images!PushedTagsWereMoved'
    BY TagIsTheSame DEF Images!Stages
  <1>2. QED
    BY <1>1, PointedGrows DEF Images!TypeOK

\* A tag or an entry that is made is found, and so are those there were.
LEMMA MadeIsFound ==
  ASSUME Images!Assumed, Images!TypeOK, Images!IInv, NEW j \in Jobs, NEW k \in Images!Kinds,
         \/ Images!pushTag(j, k) /\ (k # "sbom" \/ Pushes[j].mode = "tag" \/ (Pushes[j].mode = "auto" /\ ~api))
         \/ Images!pushReferrer(j, k) /\ k = "sbom" /\ Pushes[j].mode # "tag",
         Images!Report(j, k)
  PROVE  /\ attTags' \in [ImageDigests -> [Images!Kinds -> SUBSET Images!Attachment]]
         /\ \A d \in ImageDigests, kk \in Images!Kinds : Images!Cardinality(attTags'[d][kk]) <= 1
         /\ referrers' \subseteq Images!Attachment /\ reported' \in [Jobs -> SUBSET Images!Kinds]
         /\ Images!TagsAreOfTheirKind' /\ Images!AttachmentsAreFound'
  <1> DEFINE d0 == Images!digest(j)
             a0 == Images!Made(j, k)
  <1>1. /\ d0 \in ImageDigests /\ a0 \in Images!Attachment /\ a0.kind = k /\ a0.subject = d0
        /\ \A i \in Jobs : Images!digest(i) \in ImageDigests
    BY PushOf DEF Images!Made, Images!Attachment
  <1>2. /\ attTags \in [ImageDigests -> [Images!Kinds -> SUBSET Images!Attachment]]
        /\ referrers \subseteq Images!Attachment /\ reported \in [Jobs -> SUBSET Images!Kinds]
        /\ reported' = [reported EXCEPT ![j] = @ \cup {k}]
        /\ \A d \in ImageDigests, kk \in Images!Kinds : Images!Cardinality(attTags[d][kk]) <= 1
        /\ api' = api /\ refTag' = refTag
    BY DEF Images!TypeOK, Images!Report, Images!pushTag, Images!pushReferrer
  <1>3. /\ attTags' = attTags \/ attTags' = [attTags EXCEPT ![d0][k] = {a0}]
        /\ referrers' = referrers \/ referrers' = referrers \cup {a0}
    BY DEF Images!pushTag, Images!pushReferrer
  <1> HIDE DEF d0, a0
  <1>4. /\ attTags' \in [ImageDigests -> [Images!Kinds -> SUBSET Images!Attachment]]
        /\ referrers' \subseteq Images!Attachment /\ reported' \in [Jobs -> SUBSET Images!Kinds]
    <2>1. referrers' \subseteq Images!Attachment /\ reported' \in [Jobs -> SUBSET Images!Kinds]
      BY <1>1, <1>2, <1>3
    <2>2. [attTags[d0] EXCEPT ![k] = {a0}] \in [Images!Kinds -> SUBSET Images!Attachment]
      <3>1. attTags[d0] \in [Images!Kinds -> SUBSET Images!Attachment]
        BY <1>1, <1>2
      <3>2. QED
        BY <3>1, <1>1
    <2>3. [attTags EXCEPT ![d0] = [attTags[d0] EXCEPT ![k] = {a0}]]
            \in [ImageDigests -> [Images!Kinds -> SUBSET Images!Attachment]]
      BY <2>2, <1>1, <1>2
    <2>4. QED
      BY <2>1, <2>3, <1>2, <1>3
  <1>5. \A d \in ImageDigests, kk \in Images!Kinds :
          attTags'[d][kk] = attTags[d][kk] \/ (attTags'[d][kk] = {a0} /\ d = d0 /\ kk = k)
    <2>1. ASSUME NEW d \in ImageDigests, NEW kk \in Images!Kinds,
                 attTags' = [attTags EXCEPT ![d0][k] = {a0}]
          PROVE  attTags'[d][kk] = attTags[d][kk] \/ (attTags'[d][kk] = {a0} /\ d = d0 /\ kk = k)
      <3>1. CASE d = d0 /\ kk = k
        BY <3>1, <2>1, <1>1, <1>2
      <3>2. CASE d # d0
        BY <3>2, <2>1, <1>1, <1>2
      <3>3. CASE d = d0 /\ kk # k
        <4>1. attTags'[d0] = [attTags[d0] EXCEPT ![k] = {a0}]
          BY <2>1, <1>1, <1>2
        <4>2. attTags[d0] \in [Images!Kinds -> SUBSET Images!Attachment]
          BY <1>1, <1>2
        <4>3. QED
          BY <3>3, <4>1, <4>2
      <3>4. QED
        BY <3>1, <3>2, <3>3
    <2>2. QED
      BY <2>1, <1>3
  <1>6. \A d \in ImageDigests, kk \in Images!Kinds : Images!Cardinality(attTags'[d][kk]) <= 1
    BY <1>2, <1>5, OneOrNone
  <1>7. Images!TagsAreOfTheirKind'
    <2>1. \A d \in ImageDigests, kk \in Images!Kinds : \A a \in attTags[d][kk] : a.kind = kk /\ a.subject = d
      BY DEF Images!IInv, Images!TagsAreOfTheirKind
    <2>2. \A d \in ImageDigests, kk \in Images!Kinds : \A a \in attTags'[d][kk] : a.kind = kk /\ a.subject = d
      BY <2>1, <1>1, <1>5
    <2>3. QED
      BY <2>2 DEF Images!TagsAreOfTheirKind, Images!Kinds
  <1> DEFINE byTag(i, kk) == \E a \in attTags[Images!digest(i)][kk] : a.kind = kk /\ a.subject = Images!digest(i)
             byTagNow(i, kk) == \E a \in attTags'[Images!digest(i)][kk] : a.kind = kk /\ a.subject = Images!digest(i)
             listed(i, kk) == Images!Made(i, kk) \in Images!Listed(Images!digest(i))
             FoundBy(i, kk, tagged, entered) ==
               /\ kk # "sbom" \/ Pushes[i].mode = "tag" => tagged
               /\ kk = "sbom" /\ Pushes[i].mode = "referrer" => entered
               /\ kk = "sbom" /\ Pushes[i].mode = "auto" => entered \/ (~api /\ tagged)
  <1>8. \A i \in Jobs, kk \in Images!Kinds : byTag(i, kk) => byTagNow(i, kk)
    BY <1>1, <1>5
  <1>9. \A i \in Jobs, kk \in Images!Kinds : listed(i, kk) => listed(i, kk)'
    BY <1>2, <1>3 DEF Images!Listed, Images!Made, Images!digest
  <1>10. \A i \in Jobs : \A kk \in reported[i] : FoundBy(i, kk, byTag(i, kk), listed(i, kk))
    BY DEF Images!IInv, Images!AttachmentsAreFound, Images!fetchAttachmentImage
  <1>11. FoundBy(j, k, byTagNow(j, k), listed(j, k)')
    <2>1. CASE Images!pushTag(j, k) /\ (k # "sbom" \/ Pushes[j].mode = "tag" \/ (Pushes[j].mode = "auto" /\ ~api))
      <3>1. attTags'[d0][k] = {a0}
        <4>1. attTags' = [attTags EXCEPT ![d0][k] = {a0}]
          BY <2>1 DEF Images!pushTag, d0, a0
        <4>2. attTags'[d0] = [attTags[d0] EXCEPT ![k] = {a0}] /\ attTags[d0] \in [Images!Kinds -> SUBSET Images!Attachment]
          BY <4>1, <1>1, <1>2
        <4>3. QED
          BY <4>2
      <3>2. byTagNow(j, k)
        BY <3>1, <1>1 DEF d0
      <3>3. QED
        <4> HIDE DEF byTagNow, listed
        <4>1. QED
          BY <2>1, <3>2
    <2>2. CASE Images!pushReferrer(j, k) /\ k = "sbom" /\ Pushes[j].mode # "tag"
      <3>1. listed(j, k)' /\ api
        BY <2>2 DEF Images!pushReferrer, Images!Listed, Images!Made, Images!digest
      <3>2. QED
        <4> HIDE DEF byTagNow, listed
        <4>1. QED
          BY <2>2, <3>1
    <2>3. QED
      BY <2>1, <2>2
  <1>12. ASSUME NEW i \in Jobs, NEW kk \in reported'[i]
         PROVE  FoundBy(i, kk, byTagNow(i, kk), listed(i, kk)')
    <2>1. kk \in Images!Kinds /\ (kk \in reported[i] \/ (i = j /\ kk = k))
      BY <1>2, <1>4
    <2> HIDE DEF byTag, byTagNow, listed
    <2>2. QED
      BY <2>1, <1>8, <1>9, <1>10, <1>11
  <1>13. Images!AttachmentsAreFound'
    BY <1>2, <1>12 DEF Images!AttachmentsAreFound, Images!fetchAttachmentImage, Images!digest
  <1>14. QED
    BY <1>4, <1>6, <1>7, <1>13

\* A step that attaches, or fails to.
LEMMA AttachSteps ==
  ASSUME Images!Assumed, Images!TypeOK, Images!IInv, Images!Next, NEW j \in Jobs,
         \/ Images!AttachSBOM(j) \/ Images!WriteRefTag(j)
         \/ \E k \in {"att", "sig"} : Images!attachSupplyChainImage(j, k) \/ Images!Refer(j, k)
  PROVE  Images!TypeOK' /\ Images!IInv'
  <1> DEFINE Later == {"failed", "att", "att referrer", "sig", "sig referrer", "done"}
             Step(towards) == Images!Goto(j, towards) /\ UNCHANGED <<manifests, named, nth, copy, refTag, api>>
             Makes(k) ==
               /\ \/ Images!pushTag(j, k) /\ (k # "sbom" \/ Pushes[j].mode = "tag" \/ (Pushes[j].mode = "auto" /\ ~api))
                  \/ Images!pushReferrer(j, k) /\ k = "sbom" /\ Pushes[j].mode # "tag"
               /\ Images!Report(j, k)
             Enters == UNCHANGED <<attTags, reported>> /\ referrers \subseteq referrers'
                       /\ referrers' \subseteq Images!Attachment
             Outcome == /\ Images!Published(j) /\ Pushes[j].mode \in {"referrer", "tag", "auto"}
                        /\ \E towards \in Later : Step(towards)
                        /\ Enters \/ \E k \in Images!Kinds : Makes(k)
             Found == /\ attTags' \in [ImageDigests -> [Images!Kinds -> SUBSET Images!Attachment]]
                      /\ \A d \in ImageDigests, kk \in Images!Kinds : Images!Cardinality(attTags'[d][kk]) <= 1
                      /\ referrers' \subseteq Images!Attachment
                      /\ reported' \in [Jobs -> SUBSET Images!Kinds]
                      /\ Images!TagsAreOfTheirKind' /\ Images!AttachmentsAreFound'
  <1>1. Outcome
    <2>1. \A k \in Images!Kinds :
            /\ Images!Next_kind(k) \in Later
            /\ Images!GoOn(j, k) => \E towards \in Later : Images!Goto(j, towards)
            /\ Images!Made(j, k) \in Images!Attachment
      BY PushOf DEF Images!Kinds, Images!Next_kind, Images!GoOn, Images!Made, Images!Attachment
    <2>2. Pushes[j].mode \in {"referrer", "tag", "auto"} /\ referrers \subseteq Images!Attachment
      BY PushOf DEF Images!TypeOK
    <2>3. CASE Images!AttachSBOM(j)
      <3>1. Images!Published(j) /\ "sbom" \in Images!Kinds
        BY <2>3 DEF Images!AttachSBOM, Images!Published, Images!Stages, Images!Kinds
      <3>2. CASE Images!Goto(j, "failed") /\ UNCHANGED <<Images!registryVars, nth, copy, reported>>
        <4>1. Step("failed") /\ Enters
          BY <3>2, <2>2 DEF Images!registryVars
        <4>2. QED
          BY <4>1, <3>1, <2>2
      <3>3. CASE /\ \/ Images!pushTag(j, "sbom") /\ (Pushes[j].mode = "tag" \/ (Pushes[j].mode = "auto" /\ ~api))
                    \/ Images!pushReferrer(j, "sbom") /\ Pushes[j].mode # "tag"
                 /\ Images!Report(j, "sbom") /\ Images!GoOn(j, "sbom")
        <4>1. Makes("sbom")
          BY <3>3
        <4>2. PICK towards \in Later : Images!Goto(j, towards)
          BY <3>1, <3>3, <2>1
        <4>3. Step(towards)
          BY <3>3, <4>2 DEF Images!pushTag, Images!pushReferrer, Images!Report
        <4>4. QED
          BY <3>1, <4>1, <4>3, <2>2
      <3>4. QED
        <4> HIDE DEF Outcome
        <4>1. QED
          BY <2>3, <3>2, <3>3 DEF Images!AttachSBOM, Images!ReadRefTag, Images!referrersTagFallback
    <2>4. CASE Images!WriteRefTag(j)
      BY <2>4 DEF Images!WriteRefTag, Images!IInv, Images!TagsInOrder
    <2>5. ASSUME NEW k \in {"att", "sig"}, Images!attachSupplyChainImage(j, k)
          PROVE  Outcome
      <3>1. Images!Published(j) /\ k \in Images!Kinds /\ Images!Referring(k) \in Later
        BY <2>5 DEF Images!attachSupplyChainImage, Images!Published, Images!Stages, Images!Kinds,
                    Images!Referring
      <3>2. CASE Images!Goto(j, "failed") /\ UNCHANGED <<Images!registryVars, nth, copy, reported>>
        <4>1. Step("failed") /\ Enters
          BY <3>2, <2>2 DEF Images!registryVars
        <4>2. QED
          BY <4>1, <3>1, <2>2
      <3>3. CASE Images!pushTag(j, k) /\ Images!Report(j, k) /\ Images!Goto(j, Images!Referring(k))
        <4>1. Makes(k)
          BY <3>3
        <4>2. Step(Images!Referring(k))
          BY <3>3 DEF Images!pushTag, Images!Report
        <4>3. QED
          BY <3>1, <4>1, <4>2, <2>2
      <3>4. QED
        BY <2>5, <3>2, <3>3 DEF Images!attachSupplyChainImage
    <2>6. ASSUME NEW k \in {"att", "sig"}, Images!Refer(j, k)
          PROVE  Outcome
      <3>1. Images!Published(j) /\ k \in Images!Kinds
        BY <2>6 DEF Images!Refer, Images!Published, Images!Stages, Images!Kinds, Images!Referring
      <3>2. PICK towards \in Later : Images!Goto(j, towards)
        BY <2>1, <2>6, <3>1 DEF Images!Refer
      <3>3. Step(towards) /\ Enters
        BY <2>1, <2>2, <2>6, <3>1, <3>2 DEF Images!Refer, Images!pushReferrer, Images!registryVars
      <3>4. QED
        BY <3>1, <3>2, <3>3, <2>2
    <2>7. QED
      <3> HIDE DEF Outcome
      <3>1. QED
        BY <2>3, <2>4, <2>5, <2>6
  <1>2. PICK towards \in Later : Step(towards)
    BY <1>1
  <1>3. /\ job' \in [Jobs -> Images!Stages] /\ nth' \in [Jobs -> Nat \ {0}]
        /\ Images!TagsInOrder' /\ Images!PushedTagsWereMoved'
        /\ manifests' \subseteq ImageDigests /\ named' \in [Images!Tags -> manifests' \cup {NoDigest}]
        /\ pointed' \in [Jobs -> SUBSET Images!Tags] /\ api' \in BOOLEAN
        /\ refTag' \in [ImageDigests -> SUBSET Images!Attachment]
        /\ copy' \in [Jobs -> SUBSET Images!Attachment]
    BY <1>1, <1>2, AfterPush
  <1>4. Found
    <2>1. ASSUME NEW k \in Images!Kinds, Makes(k)
          PROVE  Found
      BY <2>1, MadeIsFound
    <2>2. CASE Enters
      <3>1. \A i \in Jobs, kk \in Images!Kinds :
              Images!Made(i, kk) \in Images!Listed(Images!digest(i)) =>
                (Images!Made(i, kk) \in Images!Listed(Images!digest(i)))'
        BY <1>2, <2>2 DEF Images!Listed, Images!Made, Images!digest
      <3>2. Images!AttachmentsAreFound'
        BY <1>2, <2>2, <3>1 DEF Images!IInv, Images!AttachmentsAreFound, Images!TypeOK,
                                Images!fetchAttachmentImage, Images!digest
      <3>3. QED
        BY <2>2, <3>2 DEF Images!TypeOK, Images!IInv, Images!TagsAreOfTheirKind
    <2>3. QED
      BY <1>1, <2>1, <2>2
  <1>5. Images!TypeOK'
    BY <1>3, <1>4 DEF Images!TypeOK
  <1>6. QED
    BY <1>3, <1>4, <1>5 DEF Images!IInv

LEMMA ImagesStep ==
  ASSUME Images!Assumed, Images!TypeOK, Images!IInv, Images!Next
  PROVE  Images!TypeOK' /\ Images!IInv'
  <1>1. PICK j \in Jobs : Images!JobStep(j)
    BY DEF Images!Next
  <1>2. CASE \/ Images!digestExists(j) \/ Images!writePayload(j) \/ Images!reconcileTags(j)
             \/ Images!Retag(j) \/ Images!PushFails(j)
    BY <1>2, PushSteps
  <1>3. CASE \/ Images!AttachSBOM(j) \/ Images!WriteRefTag(j)
             \/ \E k \in {"att", "sig"} : Images!attachSupplyChainImage(j, k) \/ Images!Refer(j, k)
    BY <1>3, AttachSteps
  <1>4. QED
    BY <1>1, <1>2, <1>3 DEF Images!JobStep

-----------------------------------------------------------------------------
(* The outputs of a build that are not pushed *)

\* The child at an index of the index.
LEMMA ChildOf ==
  ASSUME Outputs!Assumed, NEW i \in DOMAIN ImageIndex
  PROVE  ImageIndex[i] \in [platform : {ImageIndex[k].platform : k \in DOMAIN ImageIndex}, digest : Outputs!Digests]
  <1> DEFINE Children == [platform : {ImageIndex[k].platform : k \in DOMAIN ImageIndex}, digest : Outputs!Digests]
  <1>1. ImageIndex \in Seq(Children)
    BY DEF Outputs!Assumed
  <1>2. QED
    <2> HIDE DEF Children
    <2>1. ImageIndex[i] \in Children
      BY <1>1
    <2>2. QED
      BY <2>1 DEF Children

\* The daemon is offered a child of the index that runs on the platform asked for.
LEMMA SelectedRunsThere ==
  ASSUME Outputs!Assumed, NEW asked, Outputs!selectIndexChild(asked) # Nothing
  PROVE  \E i \in DOMAIN ImageIndex :
           ImageIndex[i] = [platform |-> asked, digest |-> Outputs!selectIndexChild(asked)]
  <1> DEFINE T == Outputs!Matches(asked)
             First(c) == c \in T /\ \A k \in T : c <= k
  <1>1. T # {} /\ Outputs!selectIndexChild(asked) = ImageIndex[CHOOSE i \in T : \A k \in T : i <= k].digest
    BY DEF Outputs!selectIndexChild
  <1>2. DOMAIN ImageIndex = 1 .. Len(ImageIndex) /\ Len(ImageIndex) \in Nat
    BY DEF Outputs!Assumed
  <1>3. T \in SUBSET DOMAIN ImageIndex /\ \A i \in T : ImageIndex[i].platform = asked
    BY DEF Outputs!Matches, Outputs!Runnable
  <1>4. T \in SUBSET Nat
    BY <1>2, <1>3
  <1>5. \E c \in T : \A k \in T : c <= k
    <2> HIDE DEF T
    <2>1. QED
      BY <1>1, <1>4, LeastOf
  <1>6. PICK c \in T : c = CHOOSE i \in T : \A k \in T : i <= k
    <2> HIDE DEF T
    <2>1. QED
      BY <1>5
  <1>7. ImageIndex[c] \in [platform : {ImageIndex[i].platform : i \in DOMAIN ImageIndex}, digest : Outputs!Digests]
    <2> HIDE DEF T
    <2>1. c \in DOMAIN ImageIndex
      BY <1>3
    <2>2. QED
      BY <2>1, ChildOf
  <1>8. ImageIndex[c] = [platform |-> asked, digest |-> ImageIndex[c].digest]
    BY <1>7, <1>3
  <1>9. QED
    <2> HIDE DEF T
    <2>1. QED
      BY <1>1, <1>3, <1>6, <1>8

\* A tag of a tarball names a child of the platform it says.
LEMMA TarballSaysItsPlatforms ==
  ASSUME Outputs!Assumed, NEW tags, NEW x \in DOMAIN Outputs!flattenIndexTags(tags)
  PROVE  \E i \in DOMAIN ImageIndex :
           ImageIndex[i] = [platform |-> x[2], digest |-> Outputs!flattenIndexTags(tags)[x]]
  <1> DEFINE T == {i \in Outputs!Runnable : ImageIndex[i].platform = x[2]}
             Last == CHOOSE i \in Outputs!Runnable :
                       /\ ImageIndex[i].platform = x[2]
                       /\ \A k \in Outputs!Runnable : ImageIndex[k].platform = x[2] => k <= i
  <1>1. /\ x \in tags \X {ImageIndex[i].platform : i \in Outputs!Runnable}
        /\ Outputs!flattenIndexTags(tags)[x] = ImageIndex[Last].digest
    BY DEF Outputs!flattenIndexTags
  <1>2. DOMAIN ImageIndex = 1 .. Len(ImageIndex) /\ Len(ImageIndex) \in Nat
    BY DEF Outputs!Assumed
  <1>3. Outputs!Runnable \in SUBSET DOMAIN ImageIndex
    BY DEF Outputs!Runnable
  <1>4. T # {} /\ T \in SUBSET Nat /\ \A i \in T : i <= Len(ImageIndex)
    BY <1>1, <1>2, <1>3
  <1>5. \E c \in T : \A k \in T : k <= c
    <2> HIDE DEF T
    <2>1. QED
      BY <1>2, <1>4, GreatestOf
  <1>6. /\ Last \in Outputs!Runnable /\ ImageIndex[Last].platform = x[2]
    <2> HIDE DEF Last
    <2>1. \E c \in Outputs!Runnable :
            /\ ImageIndex[c].platform = x[2]
            /\ \A k \in Outputs!Runnable : ImageIndex[k].platform = x[2] => k <= c
      BY <1>5
    <2>2. QED
      BY <2>1 DEF Last
  <1>7. ImageIndex[Last] \in [platform : {ImageIndex[i].platform : i \in DOMAIN ImageIndex}, digest : Outputs!Digests]
    <2> HIDE DEF Last
    <2>1. QED
      BY <1>3, <1>6, ChildOf
  <1>8. ImageIndex[Last] = [platform |-> x[2], digest |-> ImageIndex[Last].digest]
    <2> HIDE DEF Last
    <2>1. QED
      BY <1>6, <1>7
  <1>9. QED
    <2> HIDE DEF Last
    <2>1. QED
      BY <1>1, <1>3, <1>6, <1>8

LEMMA OutputsInit ==
  ASSUME Outputs!Assumed
  PROVE  Outputs!Init => Outputs!TypeOK /\ Outputs!IInv
  <1> SUFFICES ASSUME Outputs!Init PROVE Outputs!TypeOK /\ Outputs!IInv
    OBVIOUS
  <1>1. /\ dest \in Outputs!Contents /\ archive \in Outputs!Contents /\ had \in BOOLEAN
        /\ host \in hostPlatforms /\ loaded \in [Outputs!Tags -> Outputs!Digests \cup {Nothing}]
        /\ loading \in 0 .. Outputs!LoadFailed
    <2>1. Len(LoadTags) \in Nat
      BY DEF Outputs!Assumed
    <2>2. QED
      BY <2>1 DEF Outputs!Init, Outputs!Contents, Outputs!LoadFailed
  <1>2. /\ staging \in [Writers -> Outputs!Contents] /\ backup \in [Writers -> Outputs!Contents]
        /\ \A w \in Writers : writer[w] = "write" /\ backup[w] # Torn
    BY DEF Outputs!Init, Outputs!Contents, Outputs!Assumed
  <1>3. Outputs!TypeOK /\ Outputs!StagedIsWhole
    BY <1>1, <1>2 DEF Outputs!Init, Outputs!TypeOK, Outputs!StagedIsWhole
  <1>4. Outputs!AsideIsKept /\ Outputs!OutputsAreWhole
    BY DEF Outputs!Assumed, Outputs!Init, Outputs!AsideIsKept, Outputs!OutputsAreWhole
  <1>5. Outputs!LoadedRunsHere
    BY TarballSaysItsPlatforms DEF Outputs!Init, Outputs!LoadedRunsHere
  <1>6. QED
    BY <1>3, <1>4, <1>5 DEF Outputs!IInv

\* A step of a writer.
LEMMA WriterSteps ==
  ASSUME Outputs!Assumed, Outputs!TypeOK, Outputs!StagedIsWhole, Outputs!AsideIsKept,
         Outputs!OutputsAreWhole, NEW w \in Writers, Outputs!WriterStep(w),
         had' = (had \/ dest' # Nothing)
  PROVE  /\ Outputs!TypeOK' /\ Outputs!StagedIsWhole' /\ Outputs!AsideIsKept'
         /\ Outputs!OutputsAreWhole' /\ UNCHANGED Outputs!daemonVars
  <1> USE DEF Outputs!Assumed, Outputs!TypeOK, Outputs!Contents, Outputs!Goto, Outputs!StagedIsWhole,
              Outputs!AsideIsKept, Outputs!OutputsAreWhole, Outputs!daemonVars
  <1>1. CASE Outputs!BeginStaging(w)
    BY <1>1 DEF Outputs!BeginStaging
  <1>2. CASE Outputs!Staged(w)
    BY <1>2 DEF Outputs!Staged
  <1>3. CASE Outputs!RenameArchive(w)
    BY <1>3 DEF Outputs!RenameArchive
  <1>4. CASE Outputs!LookAtDest(w)
    BY <1>4 DEF Outputs!LookAtDest
  <1>5. CASE Outputs!MoveAside(w)
    BY <1>5 DEF Outputs!MoveAside
  <1>6. CASE Outputs!Install(w)
    BY <1>6 DEF Outputs!Install
  <1>7. CASE Outputs!Restore(w)
    BY <1>7 DEF Outputs!Restore
  <1>8. CASE Outputs!RemoveBackup(w)
    BY <1>8 DEF Outputs!RemoveBackup
  <1>9. CASE Outputs!Fails(w)
    BY <1>9 DEF Outputs!Fails
  <1>10. CASE Outputs!CleanUp(w)
    BY <1>10 DEF Outputs!CleanUp
  <1>11. CASE Outputs!Killed(w)
    BY <1>11 DEF Outputs!Killed
  <1>12. QED
    BY <1>1, <1>2, <1>3, <1>4, <1>5, <1>6, <1>7, <1>8, <1>9, <1>10, <1>11 DEF Outputs!WriterStep

\* A tag that is set names a child of the index that runs on the daemon.
LEMMA LoadSteps ==
  ASSUME Outputs!Assumed, Outputs!TypeOK, Outputs!LoadedRunsHere, Outputs!Load \/ Outputs!LoadFails
  PROVE  /\ loaded' \in [Outputs!Tags -> Outputs!Digests \cup {Nothing}]
         /\ loading' \in 0 .. Outputs!LoadFailed /\ Outputs!LoadedRunsHere'
         /\ host' = host /\ UNCHANGED Outputs!outputVars
  <1> DEFINE Runs(d) == \E i \in DOMAIN ImageIndex : ImageIndex[i] = [platform |-> host, digest |-> d]
  <1>1. /\ loaded \in [Outputs!Tags -> Outputs!Digests \cup {Nothing}]
        /\ loading \in 0 .. Len(LoadTags) + 1 /\ Len(LoadTags) \in Nat
        /\ \A i \in 1 .. Len(LoadTags) : LoadTags[i] \in Outputs!Tags
    BY DEF Outputs!TypeOK, Outputs!Assumed, Outputs!Tags, Outputs!LoadFailed
  <1>2. \A t \in Outputs!Tags : loaded[t] = Nothing \/ Runs(loaded[t])
    BY <1>1 DEF Outputs!LoadedRunsHere
  <1>3. \A d : Runs(d) => d \in Outputs!Digests
    BY ChildOf
  <1>4. host' = host /\ UNCHANGED Outputs!outputVars
    BY DEF Outputs!Load, Outputs!LoadFails
  <1>5. /\ loaded' \in [Outputs!Tags -> Outputs!Digests \cup {Nothing}]
        /\ loading' \in 0 .. Len(LoadTags) + 1
        /\ \A t \in Outputs!Tags : loaded'[t] = Nothing \/ Runs(loaded'[t])
    <2>1. CASE Outputs!LoadFails
      BY <2>1, <1>1, <1>2 DEF Outputs!LoadFails, Outputs!LoadFailed
    <2>2. CASE Outputs!Load
      <3>1. PICK d \in Outputs!Digests \cup {Nothing} :
              /\ loaded' = [loaded EXCEPT ![LoadTags[loading + 1]] = d]
              /\ d = Nothing \/ Runs(d)
        <4>1. CASE loading = 0
          <5>1. Runs(Outputs!selectIndexChild(host))
            BY <2>2, SelectedRunsThere DEF Outputs!Load
          <5>2. QED
            BY <2>2, <4>1, <5>1, <1>3 DEF Outputs!Load
        <4>2. CASE loading # 0
          <5>1. 1 \in 1 .. Len(LoadTags)
            BY <2>2, <4>2, <1>1 DEF Outputs!Load
          <5>2. QED
            BY <2>2, <4>2, <5>1, <1>1, <1>2 DEF Outputs!Load
        <4>3. QED
          BY <4>1, <4>2
      <3>2. loading' \in 0 .. Len(LoadTags) + 1
        BY <2>2, <1>1 DEF Outputs!Load
      <3>3. QED
        <4> HIDE DEF Runs
        <4>1. QED
          BY <3>1, <3>2, <1>1, <1>2
    <2>3. QED
      BY <2>1, <2>2
  <1>6. Outputs!LoadedRunsHere'
    <2>1. \A t \in DOMAIN loaded' : loaded'[t] # Nothing =>
            \E i \in DOMAIN ImageIndex : ImageIndex[i] = [platform |-> host', digest |-> loaded'[t]]
      BY <1>4, <1>5
    <2>2. QED
      BY <2>1, TarballSaysItsPlatforms DEF Outputs!LoadedRunsHere
  <1>7. QED
    BY <1>4, <1>5, <1>6 DEF Outputs!LoadFailed

LEMMA OutputsStep ==
  ASSUME Outputs!Assumed, Outputs!TypeOK, Outputs!IInv, Outputs!Next
  PROVE  Outputs!TypeOK' /\ Outputs!IInv'
  <1>1. CASE \E w \in Writers : Outputs!WriterStep(w)
    <2>1. /\ Outputs!TypeOK' /\ Outputs!StagedIsWhole' /\ Outputs!AsideIsKept'
          /\ Outputs!OutputsAreWhole' /\ UNCHANGED Outputs!daemonVars
      BY <1>1, WriterSteps DEF Outputs!IInv, Outputs!Next
    <2>2. Outputs!LoadedRunsHere'
      BY <2>1 DEF Outputs!IInv, Outputs!LoadedRunsHere, Outputs!daemonVars
    <2>3. QED
      BY <2>1, <2>2 DEF Outputs!IInv
  <1>2. CASE Outputs!Load \/ Outputs!LoadFails
    <2>1. /\ loaded' \in [Outputs!Tags -> Outputs!Digests \cup {Nothing}]
          /\ loading' \in 0 .. Outputs!LoadFailed /\ Outputs!LoadedRunsHere'
          /\ host' = host /\ UNCHANGED Outputs!outputVars
      BY <1>2, LoadSteps DEF Outputs!IInv
    <2>2. had' \in BOOLEAN /\ (had' => had \/ dest # Nothing)
      BY <2>1 DEF Outputs!Next, Outputs!TypeOK, Outputs!outputVars
    <2>3. Outputs!TypeOK'
      BY <2>1, <2>2 DEF Outputs!TypeOK, Outputs!outputVars
    <2>4. Outputs!StagedIsWhole' /\ Outputs!AsideIsKept' /\ Outputs!OutputsAreWhole'
      BY <2>1, <2>2 DEF Outputs!IInv, Outputs!StagedIsWhole, Outputs!AsideIsKept,
                        Outputs!OutputsAreWhole, Outputs!outputVars
    <2>5. QED
      BY <2>1, <2>3, <2>4 DEF Outputs!IInv
  <1>3. QED
    BY <1>1, <1>2 DEF Outputs!Next

\* A push that says it succeeded had each of its tags name its digest, whatever
\* else is pushed beside it, and what is reported as attached can be found.
THEOREM PushesAreAsReported ==
  ASSUME Images!Assumed
  PROVE  Images!Spec => [](Images!TypeOK /\ Images!PushedTagsWereMoved /\ Images!AttachmentsAreFound)
  <1>1. Images!Init => Images!TypeOK /\ Images!IInv
    BY ImagesInit
  <1>2. Images!TypeOK /\ Images!IInv /\ [Images!Next]_<<Images!registryVars, Images!jobVars, pointed>>
          => Images!TypeOK' /\ Images!IInv'
    <2>1. ASSUME Images!TypeOK, Images!IInv, UNCHANGED <<Images!registryVars, Images!jobVars, pointed>>
          PROVE  Images!TypeOK' /\ Images!IInv'
      <3>1. UNCHANGED <<api, manifests, named, attTags, referrers, refTag, job, nth, copy, reported, pointed>>
        BY <2>1 DEF Images!registryVars, Images!jobVars
      <3>2. Images!TypeOK'
        BY <2>1, <3>1 DEF Images!TypeOK
      <3>3. Images!IInv'
        BY <2>1, <3>1 DEF Images!IInv, Images!TagsInOrder, Images!TagsAreOfTheirKind,
             Images!PushedTagsWereMoved, Images!Published, Images!AttachmentsAreFound, Images!Listed,
             Images!fetchAttachmentImage, Images!tagsOrDefault, Images!digest, Images!Made
      <3>4. QED
        BY <3>2, <3>3
    <2>2. QED
      BY <2>1, ImagesStep
  <1>3. Images!IInv => Images!PushedTagsWereMoved /\ Images!AttachmentsAreFound
    BY DEF Images!IInv
  <1>4. QED
    BY <1>1, <1>2, <1>3, PTL DEF Images!Spec

\* A layout and a tarball at a path are whole at any time and a layout is lost
\* to no writer, and what is loaded runs on the daemon.
THEOREM OutputsAreAsReported ==
  ASSUME Outputs!Assumed
  PROVE  Outputs!Spec => [](Outputs!TypeOK /\ Outputs!OutputsAreWhole /\ Outputs!LoadedRunsHere)
  <1>1. Outputs!Init => Outputs!TypeOK /\ Outputs!IInv
    BY OutputsInit
  <1>2. Outputs!TypeOK /\ Outputs!IInv /\ [Outputs!Next]_<<Outputs!outputVars, had, Outputs!daemonVars>>
          => Outputs!TypeOK' /\ Outputs!IInv'
    <2>1. ASSUME Outputs!TypeOK, Outputs!IInv, UNCHANGED <<Outputs!outputVars, had, Outputs!daemonVars>>
          PROVE  Outputs!TypeOK' /\ Outputs!IInv'
      <3>1. UNCHANGED <<dest, archive, staging, backup, writer, had, host, loaded, loading>>
        BY <2>1 DEF Outputs!outputVars, Outputs!daemonVars
      <3>2. QED
        BY <2>1, <3>1 DEF Outputs!TypeOK, Outputs!IInv, Outputs!StagedIsWhole, Outputs!AsideIsKept,
             Outputs!OutputsAreWhole, Outputs!LoadedRunsHere
    <2>2. QED
      BY <2>1, OutputsStep
  <1>3. Outputs!IInv => Outputs!OutputsAreWhole /\ Outputs!LoadedRunsHere
    BY DEF Outputs!IInv
  <1>4. QED
    BY <1>1, <1>2, <1>3, PTL DEF Outputs!Spec

\* A build's image is where it reports it, pushed or not.
THEOREM ImagesAreWhereReported ==
  ASSUME Images!Assumed, Outputs!Assumed
  PROVE  Images!Spec /\ Outputs!Spec => []ReportedIsThere
  <1>1. Images!Spec => [](Images!TypeOK /\ Images!PushedTagsWereMoved /\ Images!AttachmentsAreFound)
    BY PushesAreAsReported
  <1>2. Outputs!Spec => [](Outputs!TypeOK /\ Outputs!OutputsAreWhole /\ Outputs!LoadedRunsHere)
    BY OutputsAreAsReported
  <1>3. QED
    BY <1>1, <1>2, PTL DEF ReportedIsThere

-----------------------------------------------------------------------------
(* --asset-overlay *)

LEMMA OverlayInit ==
  ASSUME Pages!Assumed
  PROVE  Pages!Init => Pages!TypeOK /\ Pages!IInv
  <1> SUFFICES ASSUME Pages!Init PROVE Pages!TypeOK /\ Pages!IInv
    OBVIOUS
  <1>1. DOMAIN images = {} /\ \A S : <<>> \in Seq(S) /\ Len(<<>>) = 0
    BY DEF Pages!Init
  <1>2. Pages!TypeOK
    BY <1>1 DEF Pages!Init, Pages!TypeOK, Pages!Unsaid, Pages!Assumed
  <1>3. ASSUME NEW b \in Builds PROVE Pages!BuildIsRight(b)
    BY <1>1 DEF Pages!Init, Pages!BuildIsRight, Pages!NothingYet, Pages!ChainIsLineage,
                Pages!MergedIsChain, Pages!Unsaid, Pages!Done, Pages!Alike
  <1>4. Pages!ImagesAreOfBuilds /\ Pages!LookedIsReplaced
    BY <1>1 DEF Pages!Init, Pages!ImagesAreOfBuilds, Pages!LookedIsReplaced, Pages!Unsaid
  <1>5. QED
    BY <1>2, <1>3, <1>4 DEF Pages!IInv

\* A build is right while nobody touches what it has: images are only added.
LEMMA OthersStay ==
  ASSUME Pages!TypeOK, NEW x \in Builds, Pages!BuildIsRight(x),
         \A d \in DOMAIN images : d \in DOMAIN images' /\ images'[d] = images[d],
         live # DOMAIN images => live' # DOMAIN images',
         where'[x] = where[x], cursor'[x] = cursor[x], chain'[x] = chain[x],
         replaced'[x] = replaced[x], merged'[x] = merged[x], left'[x] = left[x],
         looked'[x] = looked[x]
  PROVE  Pages!BuildIsRight(x)'
  <1>1. /\ chain[x] \in Seq(DOMAIN images) /\ Len(chain[x]) \in Nat
        /\ \A i \in 1 .. Len(chain[x]) : chain[x][i] \in DOMAIN images
        /\ chain[x] # <<>> => Len(chain[x]) \in 1 .. Len(chain[x])
    BY DEF Pages!TypeOK
  <1>2. Pages!NothingYet(x)'
    BY DEF Pages!BuildIsRight, Pages!NothingYet, Pages!Done, Pages!LooksUp
  <1>3. chain[x] # <<>> => Pages!last(x)' = Pages!last(x)
    BY <1>1 DEF Pages!last
  <1>4. Pages!ChainIsLineage(x)'
    <2> SUFFICES ASSUME Pages!LooksUp(x) PROVE Pages!ChainIsLineage(x)'
      BY DEF Pages!ChainIsLineage, Pages!LooksUp
    <2>1. \A i \in 1 .. Len(chain[x]) - 1 : i \in 1 .. Len(chain[x])
      BY <1>1
    <2>2. \A i \in 1 .. Len(chain[x]) - 1 : images'[chain[x][i]].predecessor = chain[x][i + 1]
      BY <1>1, <2>1 DEF Pages!BuildIsRight, Pages!ChainIsLineage
    <2> HIDE DEF Pages!last
    <2>3. QED
      BY <1>3, <2>2 DEF Pages!BuildIsRight, Pages!ChainIsLineage, Pages!Done, Pages!ToSet
  <1>5. Pages!MergedIsChain(x)'
    BY <1>1 DEF Pages!BuildIsRight, Pages!MergedIsChain, Pages!Done, Pages!ToSet, Pages!Alike
  <1>6. QED
    BY <1>2, <1>4, <1>5 DEF Pages!BuildIsRight

\* What a build is told to begin with is taken as it is, or it fails.
LEMMA OverlayBegins ==
  ASSUME Pages!Assumed, Pages!TypeOK, Pages!IInv, NEW b \in Builds, Pages!Begin(b)
  PROVE  Pages!TypeOK' /\ Pages!IInv'
  <1> DEFINE n == IF Len(Source[b].from) < Source[b].depth THEN Len(Source[b].from)
                  ELSE Source[b].depth
             told == SubSeq(Source[b].from, 1, n)
  <1>1. where[b] = "idle" /\ UNCHANGED <<images, live, current, replaced, merged, looked, succeeded>>
    BY DEF Pages!Begin
  <1>2. PICK to \in {"push", "merge", "failed", "lookup"} : where' = [where EXCEPT ![b] = to]
    BY DEF Pages!Begin, Pages!Go
  <1>3. UNCHANGED cursor
    BY DEF Pages!Begin
  <1>4. /\ (to = "merge" => /\ ~Pages!LooksUp(b) /\ Source[b].depth > 0 /\ Pages!ToSet(told) \subseteq live
                          /\ chain' = [chain EXCEPT ![b] = told] /\ left' = [left EXCEPT ![b] = told])
        /\ (to # "merge" => UNCHANGED <<chain, left>>)
        /\ (to = "lookup" => Pages!LooksUp(b))
        /\ (to = "push" => Source[b].depth = 0)
    BY <1>2 DEF Pages!Begin, Pages!LooksUp, Pages!Go, Pages!TypeOK, Pages!Assumed
  <1>5. to = "merge" => told \in Seq(DOMAIN images) /\ Len(told) <= Source[b].depth
    <2>1. Source[b].from \in Seq(Pages!ToSet(Source[b].from)) /\ Source[b].depth \in Nat
      BY DEF Pages!Assumed
    <2>2. n \in Nat /\ n <= Len(Source[b].from) /\ n <= Source[b].depth
      BY <2>1
    <2> HIDE DEF n
    <2>3. told \in Seq(Pages!ToSet(Source[b].from)) /\ Len(told) = n /\ DOMAIN told = 1 .. n
      BY <2>1, <2>2
    <2> HIDE DEF told
    <2>4. ASSUME Pages!ToSet(told) \subseteq live PROVE told \in Seq(DOMAIN images)
      <3>1. \A i \in 1 .. n : told[i] \in DOMAIN images
        BY <2>3, <2>4 DEF Pages!ToSet, Pages!TypeOK
      <3>2. QED
        BY <2>2, <2>3, <3>1
    <2>5. QED
      BY <1>4, <2>2, <2>3, <2>4
  <1> HIDE DEF told
  <1>6. Pages!TypeOK'
    <2>1. where' \in [Builds -> {"idle", "lookup", "merge", "push", "pushed", "failed"}]
      BY <1>2 DEF Pages!TypeOK
    <2>2. chain' \in [Builds -> Seq(DOMAIN images)] /\ left' \in [Builds -> Seq(DOMAIN images)]
      <3>1. chain \in [Builds -> Seq(DOMAIN images)] /\ left \in [Builds -> Seq(DOMAIN images)]
        BY DEF Pages!TypeOK
      <3>2. CASE to = "merge"
        <4>1. PICK S : S = Seq(DOMAIN images)
          OBVIOUS
        <4>2. /\ chain \in [Builds -> S] /\ left \in [Builds -> S] /\ told \in S
              /\ chain' = [chain EXCEPT ![b] = told] /\ left' = [left EXCEPT ![b] = told]
          BY <1>4, <1>5, <3>1, <3>2, <4>1
        <4>3. chain' \in [Builds -> S] /\ left' \in [Builds -> S]
          BY Zenon, <4>2
        <4>4. QED
          BY <4>1, <4>3
      <3>3. CASE to # "merge"
        BY Zenon, <1>4, <3>1, <3>3
      <3>4. QED
        BY <3>2, <3>3
    <2>3. ASSUME NEW x \in Builds PROVE Len(chain'[x]) <= Source[x].depth
      <3>1. chain \in [Builds -> Seq(DOMAIN images)] /\ Len(chain[x]) <= Source[x].depth
        BY DEF Pages!TypeOK
      <3>2. CASE to = "merge" /\ x = b
        BY <1>4, <1>5, <3>1, <3>2
      <3>3. CASE to # "merge" \/ x # b
        <4>1. chain'[x] = chain[x]
          BY <1>4, <3>1, <3>3
        <4>2. QED
          BY Zenon, <3>1, <4>1
      <3>4. QED
        BY <3>2, <3>3
    <2>4. /\ DOMAIN images' \subseteq Builds /\ live' \subseteq DOMAIN images'
          /\ current' \in live' \cup {None}
          /\ cursor' \in [Builds -> Builds \cup {None}] /\ replaced' \in [Builds -> Builds \cup {None}]
          /\ looked' \in [Builds -> Builds \cup {None}] /\ succeeded' \in [Builds -> Builds \cup {None}]
          /\ merged' \in [Builds -> SUBSET Pages!Assets]
      BY <1>1, <1>3 DEF Pages!TypeOK
    <2>5. images' = images
      BY <1>1
    <2>6. QED
      BY <2>1, <2>2, <2>3, <2>4, <2>5 DEF Pages!TypeOK
  <1>7. /\ where'[b] = to /\ chain[b] = <<>> /\ replaced'[b] = None /\ merged'[b] = {}
        /\ left[b] = <<>> /\ Pages!LooksUp(b)' = Pages!LooksUp(b)
        /\ IF to = "merge" THEN chain'[b] = told /\ left'[b] = told ELSE chain'[b] = <<>> /\ left'[b] = <<>>
    BY <1>1, <1>2, <1>4 DEF Pages!TypeOK, Pages!IInv, Pages!BuildIsRight, Pages!NothingYet, Pages!LooksUp
  <1>8. Pages!NothingYet(b)'
    BY <1>4, <1>7 DEF Pages!NothingYet, Pages!Done, Pages!LooksUp
  <1>9. Pages!ChainIsLineage(b)'
    BY <1>4, <1>7 DEF Pages!ChainIsLineage, Pages!Done, Pages!LooksUp, Pages!Assumed
  <1>10. Pages!MergedIsChain(b)'
    <2>1. Pages!Alike(merged[b])'
      BY <1>7 DEF Pages!Alike
    <2>2. CASE to = "merge"
      <3>1. \A i \in 1 .. Len(told) : told[i] \in Pages!ToSet(told)
        BY <1>5, <2>2 DEF Pages!ToSet
      <3>2. QED
        BY <1>7, <2>1, <2>2, <3>1 DEF Pages!MergedIsChain, Pages!ToSet
    <2>3. CASE to # "merge"
      BY <1>7, <2>1, <2>3 DEF Pages!MergedIsChain
    <2>4. QED
      BY <2>2, <2>3
  <1>11. ASSUME NEW x \in Builds, x # b PROVE Pages!BuildIsRight(x)'
    BY <1>1, <1>2, <1>3, <1>4, <1>11, OthersStay DEF Pages!IInv, Pages!TypeOK
  <1>12. Pages!ImagesAreOfBuilds' /\ Pages!LookedIsReplaced'
    BY <1>1, <1>2, <1>4 DEF Pages!TypeOK, Pages!IInv, Pages!ImagesAreOfBuilds,
       Pages!LookedIsReplaced, Pages!Overlay
  <1>13. QED
    BY <1>6, <1>8, <1>9, <1>10, <1>11, <1>12 DEF Pages!IInv, Pages!BuildIsRight

\* What a found image names is none, or an image.
LEMMA NamesAnImage ==
  ASSUME Pages!TypeOK, Pages!IInv, NEW d \in DOMAIN images
  PROVE  images[d].predecessor \in DOMAIN images \cup {None}
  <1>1. d \in Builds /\ images[d].predecessor = replaced[d] /\ Pages!Done(d)
    BY DEF Pages!TypeOK, Pages!IInv, Pages!ImagesAreOfBuilds, Pages!Done
  <1>2. Pages!NothingYet(d) /\ Pages!ChainIsLineage(d)
    BY <1>1 DEF Pages!IInv, Pages!BuildIsRight
  <1>3. chain[d] # <<>> => chain[d][1] \in DOMAIN images
    BY <1>1 DEF Pages!TypeOK
  <1>4. QED
    BY <1>1, <1>2, <1>3 DEF Pages!NothingYet, Pages!ChainIsLineage

LEMMA OneMore ==
  ASSUME NEW S, NEW s \in Seq(S), NEW e \in S
  PROVE  /\ Append(s, e) \in Seq(S) /\ Len(Append(s, e)) = Len(s) + 1 /\ Append(s, e) # <<>>
         /\ Append(s, e)[Len(s) + 1] = e /\ \A i \in 1 .. Len(s) : Append(s, e)[i] = s[i]
  <1>1. Append(s, e) \in Seq(S) /\ Len(Append(s, e)) = Len(s) + 1
    OBVIOUS
  <1>2. Append(s, e)[Len(s) + 1] = e /\ \A i \in 1 .. Len(s) : Append(s, e)[i] = s[i]
    OBVIOUS
  <1>3. Append(s, e) # <<>>
    <2>1. Len(s) \in Nat /\ Len(<<>>) = 0
      OBVIOUS
    <2>2. SUFFICES ASSUME Append(s, e) = <<>> PROVE FALSE
      OBVIOUS
    <2>3. Len(Append(s, e)) = 0
      BY <2>1, <2>2
    <2>4. QED
      BY <1>1, <2>1, <2>3
  <1>4. QED
    BY <1>1, <1>2, <1>3

\* The chain that is found is the lineage, as far as the registry has it.
LEMMA ChainIsFound ==
  ASSUME Pages!Assumed, Pages!TypeOK, Pages!IInv, NEW b \in Builds,
         Pages!ResolvePredecessorChain(b)
  PROVE  Pages!TypeOK' /\ Pages!IInv'
  <1> DEFINE digest == IF chain[b] = <<>> THEN current ELSE cursor[b]
             found == Append(chain[b], digest)
             following == images[digest].predecessor
  <1>1. /\ where[b] = "lookup" /\ UNCHANGED <<images, live, current, merged, succeeded>>
        /\ Pages!LooksUp(b) /\ replaced[b] = None /\ merged[b] = {} /\ left[b] = <<>>
    BY DEF Pages!ResolvePredecessorChain, Pages!IInv, Pages!BuildIsRight, Pages!NothingYet
  <1>2. looked' = IF chain[b] = <<>> THEN [looked EXCEPT ![b] = current] ELSE looked
    BY DEF Pages!ResolvePredecessorChain
  <1>3. /\ chain[b] \in Seq(DOMAIN images) /\ Len(chain[b]) \in Nat
        /\ Len(chain[b]) <= Source[b].depth /\ Source[b].depth \in Nat
        /\ chain[b] # <<>> => Len(chain[b]) \in 1 .. Len(chain[b]) /\ chain[b][Len(chain[b])] \in DOMAIN images
    BY DEF Pages!TypeOK, Pages!Assumed
  <1>4. Pages!ChainIsLineage(b)
    BY DEF Pages!IInv, Pages!BuildIsRight
  <1>5. digest \in DOMAIN images \cup {None}
    <2>1. chain[b] = <<>> => current \in DOMAIN images \cup {None}
      BY DEF Pages!TypeOK
    <2>2. chain[b] # <<>> => cursor[b] \in DOMAIN images \cup {None}
      BY <1>1, <1>3, <1>4, NamesAnImage DEF Pages!ChainIsLineage, Pages!last
    <2>3. QED
      BY <2>1, <2>2
  <1>6. /\ looked'[b] = IF chain[b] = <<>> THEN digest ELSE looked[b]
        /\ looked' \in [Builds -> Builds \cup {None}]
        /\ \A x \in Builds \ {b} : looked'[x] = looked[x]
    <2>1. current \in Builds \cup {None}
      BY DEF Pages!TypeOK
    <2>2. QED
      BY <1>2, <2>1 DEF Pages!TypeOK
  <1>7. Pages!LookedIsReplaced'
    BY <1>1, <1>2 DEF Pages!TypeOK, Pages!IInv, Pages!LookedIsReplaced, Pages!ImagesAreOfBuilds
  <1>8. ASSUME where'[b] \in {"lookup", "merge", "failed"}, Pages!TypeOK', Pages!BuildIsRight(b)',
               \A x \in Builds \ {b} : /\ where'[x] = where[x] /\ cursor'[x] = cursor[x]
                                       /\ chain'[x] = chain[x] /\ replaced'[x] = replaced[x]
                                       /\ left'[x] = left[x]
        PROVE  Pages!TypeOK' /\ Pages!IInv'
    <2>1. ASSUME NEW x \in Builds, x # b PROVE Pages!BuildIsRight(x)'
      BY <1>1, <1>6, <1>8, <2>1, OthersStay DEF Pages!IInv
    <2>2. Pages!ImagesAreOfBuilds'
      BY <1>1, <1>8 DEF Pages!TypeOK, Pages!IInv, Pages!ImagesAreOfBuilds, Pages!Overlay
    <2>3. QED
      BY <1>7, <1>8, <2>1, <2>2 DEF Pages!IInv
  <1>9. CASE Pages!Go(b, "failed") /\ UNCHANGED <<cursor, chain, replaced, left>> /\ chain[b] = <<>>
    <2>1. /\ where' = [where EXCEPT ![b] = "failed"] /\ where'[b] = "failed"
          /\ \A x \in Builds \ {b} : where'[x] = where[x]
      BY <1>9 DEF Pages!Go, Pages!TypeOK
    <2>2. Pages!TypeOK'
      BY <1>1, <1>6, <1>9, <2>1 DEF Pages!TypeOK
    <2>3. Pages!BuildIsRight(b)'
      BY <1>1, <1>9, <2>1 DEF Pages!BuildIsRight, Pages!NothingYet, Pages!ChainIsLineage,
         Pages!MergedIsChain, Pages!Done, Pages!LooksUp, Pages!Alike
    <2>4. QED
      BY <1>8, <1>9, <2>1, <2>2, <2>3
  <1>10. ASSUME NEW all, Pages!ChainEnds(b, all), all \in Seq(DOMAIN images),
                Len(all) <= Source[b].depth,
                all # <<>> => all[1] = looked'[b],
                all = <<>> => looked'[b] = None,
                \A i \in 1 .. Len(all) - 1 : images[all[i]].predecessor = all[i + 1],
                \/ Len(all) = Source[b].depth \/ all = <<>>
                \/ images[all[Len(all)]].predecessor \in {None} \cup Pages!ToSet(all)
                \/ live # DOMAIN images
         PROVE  Pages!TypeOK' /\ Pages!IInv'
    <2>1. /\ chain' = [chain EXCEPT ![b] = all] /\ left' = [left EXCEPT ![b] = all]
          /\ replaced' = [replaced EXCEPT ![b] = IF all = <<>> THEN None ELSE all[1]]
          /\ where' = [where EXCEPT ![b] = "merge"] /\ UNCHANGED cursor
      BY <1>10 DEF Pages!ChainEnds, Pages!Go
    <2>2. /\ chain'[b] = all /\ left'[b] = all /\ where'[b] = "merge"
          /\ replaced'[b] = IF all = <<>> THEN None ELSE all[1]
      BY <2>1 DEF Pages!TypeOK
    <2>3. Pages!TypeOK'
      <3>1. all # <<>> => all[1] \in Builds
        BY <1>10 DEF Pages!TypeOK
      <3>2. QED
        BY <1>1, <1>6, <1>10, <2>1, <3>1 DEF Pages!TypeOK
    <2>4. Pages!NothingYet(b)'
      BY <1>1, <2>2 DEF Pages!NothingYet, Pages!Done, Pages!LooksUp
    <2>5. Pages!ChainIsLineage(b)'
      BY <1>1, <1>10, <2>2 DEF Pages!ChainIsLineage, Pages!last, Pages!ToSet
    <2>6. Pages!MergedIsChain(b)'
      <3>1. \A i \in 1 .. Len(all) : all[i] \in Pages!ToSet(all)
        BY <1>10 DEF Pages!ToSet
      <3>2. QED
        BY <1>1, <2>2, <3>1 DEF Pages!MergedIsChain, Pages!Alike, Pages!ToSet
    <2>7. \A x \in Builds \ {b} : /\ where'[x] = where[x] /\ cursor'[x] = cursor[x]
                                  /\ chain'[x] = chain[x] /\ replaced'[x] = replaced[x]
                                  /\ left'[x] = left[x]
      BY <2>1 DEF Pages!TypeOK
    <2>8. QED
      BY <1>8, <2>2, <2>3, <2>4, <2>5, <2>6, <2>7 DEF Pages!BuildIsRight
  <1>11. CASE Pages!ChainEnds(b, chain[b]) /\ (digest = None \/ digest \notin live \/ digest \in Pages!ToSet(chain[b]))
    <2>1. chain[b] = <<>> => looked'[b] = None
      <3>1. Pages!ToSet(<<>>) = {}
        BY DEF Pages!ToSet
      <3>2. current \in live \cup {None}
        BY DEF Pages!TypeOK
      <3>3. QED
        BY <1>6, <1>11, <3>1, <3>2
    <2>2. chain[b] # <<>> => digest = images[chain[b][Len(chain[b])]].predecessor /\ digest # None
      BY <1>1, <1>4 DEF Pages!ChainIsLineage, Pages!last
    <2>3. digest \notin live => digest = None \/ live # DOMAIN images
      BY <1>5
    <2>4. /\ chain[b] # <<>> => chain[b][1] = looked'[b]
          /\ \A i \in 1 .. Len(chain[b]) - 1 : images[chain[b][i]].predecessor = chain[b][i + 1]
      BY <1>1, <1>4, <1>6 DEF Pages!ChainIsLineage
    <2> HIDE DEF digest
    <2>5. \/ Len(chain[b]) = Source[b].depth \/ chain[b] = <<>>
          \/ images[chain[b][Len(chain[b])]].predecessor \in {None} \cup Pages!ToSet(chain[b])
          \/ live # DOMAIN images
      BY <1>11, <2>2, <2>3
    <2>6. QED
      BY <1>3, <1>10, <1>11, <2>1, <2>4, <2>5
  <1>12. CASE digest \in live /\ digest \notin Pages!ToSet(chain[b])
              /\ IF following = None \/ Len(found) = Source[b].depth THEN Pages!ChainEnds(b, found)
                 ELSE /\ chain' = [chain EXCEPT ![b] = found] /\ cursor' = [cursor EXCEPT ![b] = following]
                      /\ UNCHANGED <<where, replaced, left>>
    <2>1. digest \in DOMAIN images /\ digest # None
      BY <1>12 DEF Pages!TypeOK, Pages!Assumed
    <2>2. chain[b] # <<>> => digest = images[chain[b][Len(chain[b])]].predecessor
      BY <1>1, <1>4 DEF Pages!ChainIsLineage, Pages!last
    <2>3. looked'[b] = IF chain[b] = <<>> THEN digest ELSE looked[b]
      BY <1>6
    <2>4. chain[b] # <<>> => chain[b][1] = looked[b]
      BY <1>1, <1>4 DEF Pages!ChainIsLineage
    <2>5. \A i \in 1 .. Len(chain[b]) - 1 : images[chain[b][i]].predecessor = chain[b][i + 1]
      BY <1>1, <1>4 DEF Pages!ChainIsLineage
    <2>6. following \in Builds \cup {None}
      BY <2>1, NamesAnImage DEF Pages!TypeOK
    <2> HIDE DEF digest
    <2>7. /\ found \in Seq(DOMAIN images) /\ Len(found) = Len(chain[b]) + 1 /\ found # <<>>
          /\ found[Len(chain[b]) + 1] = digest
          /\ \A i \in 1 .. Len(chain[b]) : found[i] = chain[b][i]
      BY <1>3, <2>1, OneMore
    <2> HIDE DEF found
    <2>8. found[1] = looked'[b]
      <3>1. CASE chain[b] = <<>>
        BY <2>3, <2>7, <3>1
      <3>2. CASE chain[b] # <<>>
        BY <1>3, <2>3, <2>4, <2>7, <3>2
      <3>3. QED
        BY <3>1, <3>2
    <2>9. \A i \in 1 .. Len(found) - 1 : images[found[i]].predecessor = found[i + 1]
      <3> SUFFICES ASSUME NEW i \in 1 .. Len(chain[b]) PROVE images[found[i]].predecessor = found[i + 1]
        BY <1>3, <2>7
      <3>1. CASE i = Len(chain[b])
        BY <1>3, <2>2, <2>7, <3>1
      <3>2. CASE i # Len(chain[b])
        BY <1>3, <2>5, <2>7, <3>2
      <3>3. QED
        BY <3>1, <3>2
    <2>10. Len(found) <= Source[b].depth
      <3>1. chain[b] = <<>> => Len(chain[b]) = 0 /\ Source[b].depth > 0
        BY <1>1 DEF Pages!LooksUp
      <3>2. chain[b] # <<>> => Len(chain[b]) < Source[b].depth
        BY <1>1, <1>4 DEF Pages!ChainIsLineage
      <3>3. QED
        BY <1>3, <2>7, <3>1, <3>2
    <2>11. CASE following = None \/ Len(found) = Source[b].depth
      <3>1. Pages!ChainEnds(b, found) /\ found[Len(found)] = digest
        BY <1>3, <1>12, <2>7, <2>11
      <3>2. QED
        BY <1>10, <2>7, <2>8, <2>9, <2>10, <2>11, <3>1
    <2>12. CASE ~(following = None \/ Len(found) = Source[b].depth)
      <3>1. /\ chain' = [chain EXCEPT ![b] = found] /\ cursor' = [cursor EXCEPT ![b] = following]
            /\ UNCHANGED <<where, replaced, left>>
        BY <1>12, <2>12
      <3>2. chain'[b] = found /\ cursor'[b] = following /\ where'[b] = "lookup"
        BY <1>1, <3>1 DEF Pages!TypeOK
      <3>3. Pages!TypeOK'
        BY <1>1, <1>6, <2>6, <2>7, <2>10, <3>1 DEF Pages!TypeOK
      <3>4. Pages!NothingYet(b)'
        BY <1>1, <3>1, <3>2 DEF Pages!NothingYet, Pages!Done, Pages!LooksUp
      <3>5. Pages!last(b)' = following
        BY <1>1, <1>3, <2>7, <3>2 DEF Pages!last
      <3>6. Len(found) # Source[b].depth /\ following # None
        BY <2>12
      <3> HIDE DEF following
      <3>7. Pages!ChainIsLineage(b)'
        BY <1>1, <1>3, <2>7, <2>8, <2>9, <2>10, <3>2, <3>5, <3>6 DEF Pages!ChainIsLineage, Pages!Done
      <3>8. Pages!MergedIsChain(b)'
        BY <1>1, <3>2 DEF Pages!MergedIsChain, Pages!Done, Pages!Alike
      <3>9. \A x \in Builds \ {b} : /\ where'[x] = where[x] /\ cursor'[x] = cursor[x]
                                    /\ chain'[x] = chain[x] /\ replaced'[x] = replaced[x]
                                    /\ left'[x] = left[x]
        BY <3>1 DEF Pages!TypeOK
      <3>10. QED
        BY <1>8, <3>2, <3>3, <3>4, <3>7, <3>8, <3>9 DEF Pages!BuildIsRight
    <2>13. QED
      BY <2>11, <2>12
  <1>13. QED
    BY <1>1, <1>9, <1>11, <1>12 DEF Pages!ResolvePredecessorChain

LEMMA AllButOne ==
  ASSUME NEW S, NEW s \in Seq(S), s # <<>>
  PROVE  /\ Len(s) \in Nat /\ Len(s) # 0 /\ Tail(s) \in Seq(S) /\ s[1] \in S
         /\ DOMAIN s = 1 .. Len(s) /\ DOMAIN Tail(s) = 1 .. Len(s) - 1
         /\ \A i \in 1 .. Len(s) - 1 : Tail(s)[i] = s[i + 1]
  <1>1. Len(s) \in Nat /\ Len(s) # 0 /\ DOMAIN s = 1 .. Len(s)
    OBVIOUS
  <1>2. s[1] \in S
    BY <1>1
  <1>3. Tail(s) \in Seq(S)
    OBVIOUS
  <1>4. Len(Tail(s)) = Len(s) - 1 /\ \A i \in 1 .. Len(s) - 1 : Tail(s)[i] = s[i + 1]
    OBVIOUS
  <1>5. DOMAIN Tail(s) = 1 .. Len(Tail(s))
    BY <1>3
  <1>6. QED
    BY <1>1, <1>2, <1>3, <1>4, <1>5

\* What is merged is that of one more source, and nothing comes over another.
LEMMA OverlayMerges ==
  ASSUME Pages!Assumed, Pages!TypeOK, Pages!IInv, NEW b \in Builds,
         Pages!ExtractClientImmutableAssets(b)
  PROVE  Pages!TypeOK' /\ Pages!IInv'
  <1> DEFINE d == left[b][1]
             assets == IF images[d].squashed THEN {} ELSE images[d].own
  <1>1. /\ where[b] = "merge" /\ left[b] # <<>>
        /\ UNCHANGED <<images, live, current, cursor, chain, replaced, looked, succeeded>>
    BY DEF Pages!ExtractClientImmutableAssets
  <1>2. /\ left[b] \in Seq(DOMAIN images) /\ Len(left[b]) \in Nat /\ Tail(left[b]) \in Seq(DOMAIN images)
        /\ d \in DOMAIN images /\ Pages!ToSet(left[b]) \subseteq {d} \cup Pages!ToSet(Tail(left[b]))
    <2>1. left[b] \in Seq(DOMAIN images)
      BY DEF Pages!TypeOK
    <2>2. PICK s \in Seq(DOMAIN images) : s = left[b] /\ s # <<>>
      BY <1>1, <2>1
    <2>3. /\ Len(s) \in Nat /\ Len(s) # 0 /\ Tail(s) \in Seq(DOMAIN images) /\ s[1] \in DOMAIN images
          /\ DOMAIN s = 1 .. Len(s) /\ DOMAIN Tail(s) = 1 .. Len(s) - 1
          /\ \A i \in 1 .. Len(s) - 1 : Tail(s)[i] = s[i + 1]
      BY <2>2, AllButOne
    <2>4. ASSUME NEW i \in 1 .. Len(s), i # 1 PROVE s[i] \in Pages!ToSet(Tail(s))
      <3>1. i - 1 \in 1 .. Len(s) - 1 /\ Tail(s)[i - 1] = s[i]
        BY <2>3, <2>4
      <3>2. QED
        BY <2>3, <3>1 DEF Pages!ToSet
    <2>5. Pages!ToSet(s) \subseteq {s[1]} \cup Pages!ToSet(Tail(s))
      BY <2>2, <2>3, <2>4 DEF Pages!ToSet
    <2>6. QED
      BY <2>2, <2>3, <2>5
  <1>3. /\ assets \subseteq Pages!Assets /\ Pages!Alike(assets)
        /\ images[d].squashed \/ images[d].own = assets
    <2>1. d \in Builds /\ images[d].own = Source[d].own
      BY <1>2 DEF Pages!TypeOK, Pages!IInv, Pages!ImagesAreOfBuilds
    <2>2. QED
      BY <2>1 DEF Pages!Assets, Pages!Assumed, Pages!Alike
  <1>4. /\ merged[b] \subseteq Pages!Assets /\ Pages!Alike(merged[b]) /\ Pages!MergedIsChain(b)
        /\ Pages!NothingYet(b) /\ Pages!ChainIsLineage(b)
    BY DEF Pages!TypeOK, Pages!IInv, Pages!BuildIsRight, Pages!MergedIsChain
  <1>5. ASSUME NEW to \in {"merge", "failed"}, NEW m \in SUBSET Pages!Assets,
               NEW l \in Seq(DOMAIN images),
               where' = [where EXCEPT ![b] = to], merged' = [merged EXCEPT ![b] = m],
               left' = [left EXCEPT ![b] = l], Pages!Alike(m),
               to = "merge" => \A i \in 1 .. Len(chain[b]) :
                 \/ chain[b][i] \in Pages!ToSet(l)
                 \/ images[chain[b][i]].squashed \/ images[chain[b][i]].own \subseteq m
        PROVE  Pages!TypeOK' /\ Pages!IInv'
    <2>1. Pages!TypeOK'
      BY <1>1, <1>5 DEF Pages!TypeOK
    <2>2. where'[b] = to /\ merged'[b] = m /\ left'[b] = l
      BY <1>5 DEF Pages!TypeOK
    <2>3. Pages!NothingYet(b)'
      BY <1>1, <1>4, <2>2 DEF Pages!NothingYet, Pages!Done, Pages!LooksUp
    <2>4. Pages!ChainIsLineage(b)'
      BY <1>1, <1>4, <2>2 DEF Pages!ChainIsLineage, Pages!last, Pages!Done, Pages!LooksUp, Pages!ToSet
    <2>5. Pages!MergedIsChain(b)'
      BY <1>1, <1>5, <2>2 DEF Pages!MergedIsChain, Pages!Done, Pages!Alike, Pages!ToSet
    <2>6. ASSUME NEW x \in Builds, x # b PROVE Pages!BuildIsRight(x)'
      BY <1>1, <1>5, <2>6, OthersStay DEF Pages!IInv, Pages!TypeOK
    <2>7. Pages!ImagesAreOfBuilds' /\ Pages!LookedIsReplaced'
      BY <1>1, <1>5, <2>2 DEF Pages!TypeOK, Pages!IInv, Pages!ImagesAreOfBuilds,
         Pages!LookedIsReplaced, Pages!Overlay
    <2>8. QED
      BY <2>1, <2>3, <2>4, <2>5, <2>6, <2>7 DEF Pages!IInv, Pages!BuildIsRight
  <1>6. CASE d \in live /\ Pages!extractImmutableAssets(b, assets)
    <2> DEFINE m == merged[b] \cup {a \in assets : a[1] \notin Pages!Files(merged[b])}
    <2>1. /\ merged' = [merged EXCEPT ![b] = m] /\ left' = [left EXCEPT ![b] = Tail(left[b])]
          /\ where' = [where EXCEPT ![b] = "merge"]
      BY <1>1, <1>6 DEF Pages!ExtractClientImmutableAssets, Pages!TypeOK
    <2>2. \A x \in assets, y \in merged[b] : x[1] = y[1] => x[2] = y[2]
      BY <1>6 DEF Pages!extractImmutableAssets
    <2> HIDE DEF assets
    <2>3. Pages!Alike(m)
      BY <1>3, <1>4, <2>2 DEF Pages!Alike
    <2>4. assets \subseteq m
      <3> SUFFICES ASSUME NEW a \in assets, a[1] \in Pages!Files(merged[b]) PROVE a \in m
        OBVIOUS
      <3>1. PICK y \in merged[b] : y[1] = a[1]
        BY DEF Pages!Files
      <3>2. a[2] = y[2]
        BY <2>2, <3>1
      <3>3. PICK T, U : Pages!Assets \subseteq T \X U
        BY DEF Pages!Assumed
      <3>4. a \in T \X U /\ y \in T \X U
        BY <1>3, <1>4, <3>3
      <3>5. a = y
        BY <3>1, <3>2, <3>4
      <3>6. QED
        BY <3>5
    <2>5. m \subseteq Pages!Assets /\ merged[b] \subseteq m
      BY <1>3, <1>4
    <2> HIDE DEF m
    <2>6. ASSUME NEW i \in 1 .. Len(chain[b])
          PROVE  \/ chain[b][i] \in Pages!ToSet(Tail(left[b]))
                 \/ images[chain[b][i]].squashed \/ images[chain[b][i]].own \subseteq m
      <3>1. \/ chain[b][i] \in Pages!ToSet(left[b])
            \/ images[chain[b][i]].squashed \/ images[chain[b][i]].own \subseteq merged[b]
        BY <1>1, <1>4 DEF Pages!MergedIsChain, Pages!Done
      <3>2. QED
        BY <1>2, <1>3, <2>4, <2>5, <3>1
    <2>7. QED
      BY <1>2, <1>5, <2>1, <2>3, <2>5, <2>6
  <1>7. CASE ~(d \in live /\ Pages!extractImmutableAssets(b, assets))
    <2>1. /\ merged' = [merged EXCEPT ![b] = {}] /\ left' = [left EXCEPT ![b] = left[b]]
          /\ where' = [where EXCEPT ![b] = "failed"]
      BY <1>1, <1>7 DEF Pages!ExtractClientImmutableAssets, Pages!TypeOK, Pages!Go
    <2>2. Pages!Alike({})
      BY DEF Pages!Alike
    <2>3. QED
      BY <1>2, <1>5, <2>1, <2>2
  <1>8. QED
    BY <1>6, <1>7

LEMMA MergingEnds ==
  ASSUME Pages!Assumed, Pages!TypeOK, Pages!IInv, NEW b \in Builds, Pages!MergeEnds(b)
  PROVE  Pages!TypeOK' /\ Pages!IInv'
  <1>1. /\ where[b] = "merge" /\ left[b] = <<>> /\ where' = [where EXCEPT ![b] = "push"]
        /\ UNCHANGED <<images, live, current, cursor, chain, replaced, merged, left, looked, succeeded>>
    BY DEF Pages!MergeEnds, Pages!Go
  <1>2. where'[b] = "push"
    BY <1>1 DEF Pages!TypeOK
  <1>3. Pages!TypeOK'
    BY <1>1 DEF Pages!TypeOK
  <1>4. Pages!BuildIsRight(b)'
    <2>1. Pages!NothingYet(b)'
      BY <1>1, <1>2 DEF Pages!IInv, Pages!BuildIsRight, Pages!NothingYet, Pages!Done, Pages!LooksUp
    <2>2. Pages!ChainIsLineage(b)'
      BY <1>1, <1>2 DEF Pages!IInv, Pages!BuildIsRight, Pages!ChainIsLineage, Pages!Done,
         Pages!LooksUp, Pages!last, Pages!ToSet
    <2>3. Pages!MergedIsChain(b)'
      BY <1>1, <1>2 DEF Pages!IInv, Pages!BuildIsRight, Pages!MergedIsChain, Pages!Done,
         Pages!Alike, Pages!ToSet
    <2>4. QED
      BY <2>1, <2>2, <2>3 DEF Pages!BuildIsRight
  <1>5. ASSUME NEW x \in Builds, x # b PROVE Pages!BuildIsRight(x)'
    BY <1>1, <1>5, OthersStay DEF Pages!IInv, Pages!TypeOK
  <1>6. Pages!ImagesAreOfBuilds' /\ Pages!LookedIsReplaced'
    BY <1>1, <1>2 DEF Pages!TypeOK, Pages!IInv, Pages!ImagesAreOfBuilds,
       Pages!LookedIsReplaced, Pages!Overlay
  <1>7. QED
    BY <1>3, <1>4, <1>5, <1>6 DEF Pages!IInv

\* A push adds an image and moves the tag.
LEMMA OverlayPush ==
  ASSUME Pages!Assumed, Pages!TypeOK, Pages!IInv, NEW b \in Builds, Pages!Push(b)
  PROVE  Pages!TypeOK' /\ Pages!IInv'
  <1> DEFINE image == [own |-> Source[b].own, squashed |-> Source[b].squashed,
                       sources |-> chain[b], predecessor |-> replaced[b],
                       serves |-> Pages!Overlay(b, Source[b].own)]
  <1>1. /\ where[b] = "push" /\ b \notin DOMAIN images
        /\ images' = [d \in DOMAIN images \cup {b} |-> IF d # b THEN images[d] ELSE image]
        /\ live' = live \cup {b} /\ current' = b /\ succeeded' = [succeeded EXCEPT ![b] = current]
        /\ where' = [where EXCEPT ![b] = "pushed"]
        /\ UNCHANGED <<cursor, chain, replaced, merged, left, looked>>
    BY DEF Pages!Push, Pages!Go, Pages!IInv, Pages!ImagesAreOfBuilds
  <1> HIDE DEF image
  <1>2. /\ DOMAIN images' = DOMAIN images \cup {b} /\ images'[b] = image
        /\ \A d \in DOMAIN images : images'[d] = images[d] /\ d # b
    BY <1>1
  <1>3. where'[b] = "pushed" /\ succeeded'[b] = current
        /\ \A x \in Builds \ {b} : where'[x] = where[x] /\ succeeded'[x] = succeeded[x]
    BY <1>1 DEF Pages!TypeOK
  <1>4. live # DOMAIN images => live' # DOMAIN images'
    BY <1>1, <1>2 DEF Pages!TypeOK
  <1>5. Pages!TypeOK'
    <2>1. /\ DOMAIN images' \subseteq Builds /\ live' \subseteq DOMAIN images'
          /\ current' \in live' \cup {None}
          /\ where' \in [Builds -> {"idle", "lookup", "merge", "push", "pushed", "failed"}]
      BY <1>1, <1>2 DEF Pages!TypeOK
    <2>2. current \in Builds \cup {None}
      BY DEF Pages!TypeOK
    <2>3. succeeded' \in [Builds -> Builds \cup {None}]
      BY <1>1, <2>2 DEF Pages!TypeOK
    <2>4. \A s \in Seq(DOMAIN images) : s \in Seq(DOMAIN images')
      <3> SUFFICES ASSUME NEW s \in Seq(DOMAIN images) PROVE s \in Seq(DOMAIN images')
        OBVIOUS
      <3>1. Len(s) \in Nat /\ s \in [1 .. Len(s) -> DOMAIN images]
        OBVIOUS
      <3>2. s \in [1 .. Len(s) -> DOMAIN images']
        BY <1>2, <3>1
      <3>3. QED
        BY <3>1, <3>2
    <2>5. chain' \in [Builds -> Seq(DOMAIN images')] /\ left' \in [Builds -> Seq(DOMAIN images')]
      BY <1>1, <2>4 DEF Pages!TypeOK
    <2>6. QED
      BY <1>1, <2>1, <2>3, <2>5 DEF Pages!TypeOK
  <1>6. /\ chain[b] \in Seq(DOMAIN images) /\ Len(chain[b]) \in Nat
        /\ \A i \in 1 .. Len(chain[b]) : chain[b][i] \in DOMAIN images
        /\ chain[b] # <<>> => Len(chain[b]) \in 1 .. Len(chain[b])
        /\ \A i \in 1 .. Len(chain[b]) - 1 : i \in 1 .. Len(chain[b])
    BY DEF Pages!TypeOK
  <1>7. Pages!BuildIsRight(b)'
    <2>1. Pages!NothingYet(b)'
      BY <1>1, <1>3 DEF Pages!IInv, Pages!BuildIsRight, Pages!NothingYet, Pages!Done, Pages!LooksUp
    <2>2. chain[b] # <<>> => Pages!last(b)' = Pages!last(b)
      BY <1>1, <1>2, <1>6 DEF Pages!last
    <2>3. \A i \in 1 .. Len(chain[b]) - 1 : images'[chain[b][i]] = images[chain[b][i]]
      BY <1>2, <1>6
    <2> HIDE DEF Pages!last
    <2>4. Pages!ChainIsLineage(b)'
      <3> SUFFICES ASSUME Pages!LooksUp(b) PROVE Pages!ChainIsLineage(b)'
        BY DEF Pages!ChainIsLineage, Pages!LooksUp
      <3>1. /\ chain[b] # <<>> => chain[b][1] = looked[b]
            /\ \A i \in 1 .. Len(chain[b]) - 1 : images[chain[b][i]].predecessor = chain[b][i + 1]
            /\ replaced[b] = IF chain[b] = <<>> THEN None ELSE chain[b][1]
            /\ chain[b] = <<>> => looked[b] = None
            /\ \/ Len(chain[b]) = Source[b].depth \/ chain[b] = <<>>
               \/ Pages!last(b) \in {None} \cup Pages!ToSet(chain[b]) \/ live # DOMAIN images
        BY <1>1 DEF Pages!IInv, Pages!BuildIsRight, Pages!ChainIsLineage, Pages!Done
      <3>2. Pages!Done(b)'
        BY <1>3 DEF Pages!Done
      <3>3. \/ Len(chain[b]) = Source[b].depth \/ chain[b] = <<>>
            \/ Pages!last(b)' \in {None} \cup Pages!ToSet(chain[b]) \/ live' # DOMAIN images'
        BY <1>4, <2>2, <3>1
      <3>4. Pages!ToSet(chain[b])' = Pages!ToSet(chain[b])
        BY <1>1 DEF Pages!ToSet
      <3>5. /\ chain' = chain /\ replaced' = replaced /\ looked' = looked /\ where'[b] = "pushed"
            /\ \A i \in 1 .. Len(chain[b]) - 1 : images'[chain[b][i]].predecessor = chain[b][i + 1]
        BY <1>1, <1>3, <2>3, <3>1
      <3>6. QED
        BY <3>1, <3>3, <3>4, <3>5 DEF Pages!ChainIsLineage
    <2>5. Pages!MergedIsChain(b)'
      <3>1. Pages!MergedIsChain(b) /\ Pages!Done(b)
        BY <1>1 DEF Pages!IInv, Pages!BuildIsRight, Pages!Done
      <3>2. chain'[b] = chain[b] /\ left'[b] = left[b] /\ merged'[b] = merged[b]
        BY <1>1
      <3>3. Pages!Alike(merged[b])' <=> Pages!Alike(merged[b])
        BY <3>2 DEF Pages!Alike
      <3>4. Pages!ToSet(left[b])' = Pages!ToSet(left[b])
        BY <3>2 DEF Pages!ToSet
      <3>5. \A i \in 1 .. Len(chain[b]) : images'[chain[b][i]] = images[chain[b][i]]
        BY <1>2, <1>6
      <3>6. QED
        BY <3>1, <3>2, <3>3, <3>4, <3>5 DEF Pages!MergedIsChain
    <2>6. QED
      BY <2>1, <2>4, <2>5 DEF Pages!BuildIsRight
  <1>8. ASSUME NEW x \in Builds, x # b PROVE Pages!BuildIsRight(x)'
    BY <1>1, <1>2, <1>3, <1>4, <1>8, OthersStay DEF Pages!IInv
  <1>9. Pages!ImagesAreOfBuilds'
    <2>1. \A x \in Builds : x \in DOMAIN images' <=> where'[x] = "pushed"
      BY <1>1, <1>2, <1>3 DEF Pages!IInv, Pages!ImagesAreOfBuilds
    <2>2. images'[b] = image /\ image = [own |-> Source[b].own, squashed |-> Source[b].squashed,
                   sources |-> chain[b], predecessor |-> replaced[b],
                   serves |-> Pages!Overlay(b, Source[b].own)]
      BY <1>2 DEF image
    <2>3. \A x : Pages!Overlay(x, Source[x].own)' = Pages!Overlay(x, Source[x].own)
      BY <1>1 DEF Pages!Overlay, Pages!Files
    <2>4. ASSUME NEW x \in DOMAIN images'
          PROVE  images'[x] = [own |-> Source[x].own, squashed |-> Source[x].squashed,
                               sources |-> chain[x], predecessor |-> replaced[x],
                               serves |-> Pages!Overlay(x, Source[x].own)]
      BY <1>2, <2>2 DEF Pages!IInv, Pages!ImagesAreOfBuilds
    <2>5. chain' = chain /\ replaced' = replaced
      BY <1>1
    <2>6. ASSUME NEW x \in DOMAIN images'
          PROVE  images'[x] = [own |-> Source[x].own, squashed |-> Source[x].squashed,
                               sources |-> chain'[x], predecessor |-> replaced'[x],
                               serves |-> Pages!Overlay(x, Source[x].own)']
      BY <2>3, <2>4, <2>5
    <2>7. QED
      BY Zenon, <2>1, <2>6 DEF Pages!ImagesAreOfBuilds
  <1>10. Pages!LookedIsReplaced'
    <2> SUFFICES ASSUME NEW x \in Builds, looked[x] # None
                 PROVE  \/ IF x \in DOMAIN images' THEN looked[x] = succeeded'[x] ELSE looked[x] = b
                        \/ \E c \in DOMAIN images' \ {x} : succeeded'[c] = looked[x]
      BY <1>1 DEF Pages!LookedIsReplaced
    <2>1. \/ IF x \in DOMAIN images THEN looked[x] = succeeded[x] ELSE looked[x] = current
          \/ \E c \in DOMAIN images \ {x} : succeeded[c] = looked[x]
      BY DEF Pages!IInv, Pages!LookedIsReplaced
    <2>2. \A d \in DOMAIN images : succeeded'[d] = succeeded[d]
      BY <1>2, <1>3 DEF Pages!TypeOK
    <2>3. QED
      BY <1>2, <1>3, <2>1, <2>2
  <1>11. QED
    BY <1>5, <1>7, <1>8, <1>9, <1>10 DEF Pages!IInv

LEMMA OverlayCollect ==
  ASSUME Pages!Assumed, Pages!TypeOK, Pages!IInv, NEW d \in live, Pages!Collect(d)
  PROVE  Pages!TypeOK' /\ Pages!IInv'
  <1>1. /\ d # current /\ live' = live \ {d} /\ d \in DOMAIN images
        /\ UNCHANGED <<images, current, where, cursor, chain, replaced, merged, left, looked, succeeded>>
    BY DEF Pages!Collect, Pages!TypeOK
  <1>2. Pages!TypeOK'
    BY <1>1 DEF Pages!TypeOK
  <1>3. ASSUME NEW x \in Builds PROVE Pages!BuildIsRight(x)'
    BY <1>1, OthersStay DEF Pages!IInv
  <1>4. Pages!ImagesAreOfBuilds' /\ Pages!LookedIsReplaced'
    BY <1>1 DEF Pages!IInv, Pages!ImagesAreOfBuilds, Pages!LookedIsReplaced, Pages!Overlay
  <1>5. QED
    BY <1>2, <1>3, <1>4 DEF Pages!IInv

\* What an image was made of is in it, but what its own build replaces.
LEMMA SourcesAreServed ==
  ASSUME Pages!TypeOK, Pages!IInv, NEW b \in DOMAIN images, NEW i \in 1 .. Len(chain[b]),
         ~images[chain[b][i]].squashed
  PROVE  images[chain[b][i]].own \subseteq merged[b]
  <1>1. b \in Builds /\ where[b] = "pushed" /\ left[b] = <<>> /\ Pages!MergedIsChain(b)
    BY DEF Pages!TypeOK, Pages!IInv, Pages!ImagesAreOfBuilds, Pages!BuildIsRight, Pages!NothingYet
  <1>2. Pages!ToSet(<<>>) = {}
    BY DEF Pages!ToSet
  <1>3. QED
    BY <1>1, <1>2 DEF Pages!MergedIsChain, Pages!Done

LEMMA PagesFindTheirAssets ==
  ASSUME Pages!Assumed, Pages!TypeOK, Pages!IInv
  PROVE  Pages!OldPagesFindTheirAssets
  <1> SUFFICES ASSUME NEW b \in DOMAIN images, Source[b].from = <<>>,
                      {d \in DOMAIN images : d \notin live} = {},
                      NEW e \in Pages!Generations(b, Source[b].depth), ~images[e].squashed,
                      NEW a \in images[e].own
               PROVE  a \in images[b].serves \/ a[1] \in Pages!Files(images[b].own)
    BY DEF Pages!OldPagesFindTheirAssets
  <1> DEFINE c == chain[b]
  <1>1. /\ b \in Builds /\ where[b] = "pushed" /\ Source[b].depth \in Nat /\ None \notin Builds
        /\ c \in Seq(DOMAIN images) /\ Len(c) \in Nat /\ DOMAIN c = 1 .. Len(c)
        /\ images[b].predecessor = replaced[b] /\ images[b].serves = Pages!Overlay(b, Source[b].own)
        /\ images[b].own = Source[b].own
    BY DEF Pages!TypeOK, Pages!IInv, Pages!ImagesAreOfBuilds, Pages!Assumed
  <1>a. PICK k \in 1 .. Source[b].depth :
          \E path \in [0 .. k -> DOMAIN images] :
            /\ path[0] = b /\ path[k] = e
            /\ \A i \in 1 .. k : images[path[i - 1]].predecessor = path[i]
    BY DEF Pages!Generations
  <1>2. PICK path \in [0 .. k -> DOMAIN images] :
          /\ path[0] = b /\ path[k] = e
          /\ \A i \in 1 .. k : images[path[i - 1]].predecessor = path[i]
    BY <1>a
  <1>3. k \in Nat /\ 0 < k /\ k <= Source[b].depth
    BY <1>1, <1>2
  <1>4. Pages!LooksUp(b) /\ Pages!Done(b) /\ Pages!ChainIsLineage(b)
    BY <1>1, <1>3 DEF Pages!LooksUp, Pages!Done, Pages!IInv, Pages!BuildIsRight
  <1>5. \A i \in 0 .. k : path[i] \in DOMAIN images /\ path[i] # None
    BY <1>1, <1>2 DEF Pages!TypeOK
  <1>6. path[1] = replaced[b]
    BY <1>1, <1>2, <1>3
  <1>7. c # <<>> /\ path[1] = c[1]
    BY <1>3, <1>4, <1>5, <1>6 DEF Pages!ChainIsLineage
  <1>8. /\ \A i \in 1 .. Len(c) - 1 : images[c[i]].predecessor = c[i + 1]
        /\ \/ Len(c) = Source[b].depth
           \/ images[c[Len(c)]].predecessor \in {None} \cup {c[i] : i \in 1 .. Len(c)}
    BY <1>1, <1>4, <1>7 DEF Pages!ChainIsLineage, Pages!last, Pages!ToSet, Pages!TypeOK
  <1> HIDE DEF c
  <1> DEFINE Off(i) == ~ /\ \E j \in 1 .. Len(c) : path[i] = c[j]
                         /\ i <= Len(c) => path[i] = c[i]
  <1>9. \A i \in 1 .. k : ~Off(i)
    <2> SUFFICES ASSUME NEW o \in 1 .. k, Off(o) PROVE FALSE
      OBVIOUS
    <2>1. PICK i \in {x \in 1 .. k : Off(x)} : \A y \in {x \in 1 .. k : Off(x)} : i <= y
      <3>1. {x \in 1 .. k : Off(x)} \in SUBSET Nat /\ {x \in 1 .. k : Off(x)} # {}
        BY <1>3
      <3>2. QED
        BY <3>1, LeastOf
    <2>2. Len(c) \in Nat /\ Len(c) # 0
      BY <1>1, <1>7
    <2>3. CASE i = 1
      BY <1>7, <2>1, <2>2, <2>3
    <2>4. CASE i # 1
      <3>1. i - 1 \in 1 .. k /\ ~(i <= i - 1)
        BY <1>3, <2>4
      <3>2. ~Off(i - 1)
        BY <2>1, <3>1
      <3>3. images[path[i - 1]].predecessor = path[i] /\ path[i] # None
        BY <1>2, <1>5, <2>1
      <3>4. PICK j \in 1 .. Len(c) : path[i - 1] = c[j]
        BY <3>2
      <3>5. CASE i <= Len(c)
        <4>1. path[i - 1] = c[i - 1] /\ i - 1 \in 1 .. Len(c) - 1
          BY <2>2, <3>1, <3>2, <3>5
        <4>2. path[i] = c[i]
          BY <1>8, <3>3, <4>1
        <4>3. QED
          BY <2>1, <2>2, <3>5, <4>2
      <3>6. CASE ~(i <= Len(c))
        <4>1. Len(c) # Source[b].depth
          BY <1>1, <1>3, <2>2, <3>6
        <4>2. CASE j = Len(c)
          BY <1>8, <2>1, <3>3, <3>4, <3>6, <4>1, <4>2
        <4>3. CASE j # Len(c)
          <5>1. j \in 1 .. Len(c) - 1 /\ j + 1 \in 1 .. Len(c)
            BY <2>2, <4>3
          <5>2. path[i] = c[j + 1]
            BY <1>8, <3>3, <3>4, <5>1
          <5>3. QED
            BY <2>1, <3>6, <5>1, <5>2
        <4>4. QED
          BY <4>2, <4>3
      <3>7. QED
        BY <3>5, <3>6
    <2>5. QED
      BY <2>3, <2>4
  <1>10. PICK j \in 1 .. Len(c) : e = c[j]
    BY <1>2, <1>3, <1>9
  <1>11. a \in merged[b]
    BY <1>10, SourcesAreServed DEF c
  <1>12. QED
    BY <1>1, <1>11 DEF Pages!Overlay

LEMMA AssetsAreNotMixed ==
  ASSUME Pages!Assumed, Pages!TypeOK, Pages!IInv
  PROVE  Pages!NothingIsMixed
  <1> SUFFICES ASSUME NEW b \in DOMAIN images, NEW d \in Pages!ToSet(images[b].sources),
                      NEW a \in images[d].own, NEW s \in images[b].serves,
                      ~images[d].squashed, a[1] = s[1], s \notin images[b].own
               PROVE  a[2] = s[2]
    BY DEF Pages!NothingIsMixed
  <1>1. /\ b \in Builds /\ images[b].sources = chain[b] /\ images[b].own = Source[b].own
        /\ images[b].serves = Pages!Overlay(b, Source[b].own)
        /\ chain[b] \in Seq(DOMAIN images)
    BY DEF Pages!TypeOK, Pages!IInv, Pages!ImagesAreOfBuilds
  <1>2. PICK i \in 1 .. Len(chain[b]) : d = chain[b][i]
    BY <1>1 DEF Pages!ToSet
  <1>3. a \in merged[b]
    BY <1>2, SourcesAreServed
  <1>4. s \in merged[b]
    BY <1>1 DEF Pages!Overlay
  <1>5. QED
    BY <1>1, <1>3, <1>4 DEF Pages!IInv, Pages!BuildIsRight, Pages!MergedIsChain, Pages!Alike

LEMMA LineagesAreTrue ==
  ASSUME Pages!Assumed, Pages!TypeOK, Pages!IInv
  PROVE  Pages!LineageIsTrue
  <1> SUFFICES ASSUME NEW b \in DOMAIN images
               PROVE  /\ (Source[b].depth > 0 /\ Source[b].from = <<>>) => images[b].predecessor = looked[b]
                      /\ \/ images[b].predecessor \in {None, succeeded[b]}
                         \/ \E c \in DOMAIN images \ {b} : succeeded[c] = images[b].predecessor
    BY DEF Pages!LineageIsTrue
  <1>1. b \in Builds /\ images[b].predecessor = replaced[b] /\ Pages!Done(b)
    BY DEF Pages!TypeOK, Pages!IInv, Pages!ImagesAreOfBuilds, Pages!Done
  <1>2. Pages!ChainIsLineage(b) /\ Pages!NothingYet(b)
    BY <1>1 DEF Pages!IInv, Pages!BuildIsRight
  <1>3. IF Pages!LooksUp(b) THEN images[b].predecessor = looked[b] ELSE images[b].predecessor = None
    BY <1>1, <1>2 DEF Pages!ChainIsLineage, Pages!NothingYet
  <1>4. QED
    BY <1>1, <1>3 DEF Pages!IInv, Pages!LookedIsReplaced, Pages!LooksUp

\* However many builds run at once and whatever the registry collects: a page
\* loaded from an image that a build knows to be before it finds its assets in
\* it, no asset is served with the bytes of another, and the predecessor that an
\* image names was the one of its tag.
THEOREM OldPagesAreServed ==
  ASSUME Pages!Assumed
  PROVE  Pages!Spec => [](/\ Pages!TypeOK /\ Pages!OldPagesFindTheirAssets
                          /\ Pages!NothingIsMixed /\ Pages!LineageIsTrue)
  <1>1. Pages!Init => Pages!TypeOK /\ Pages!IInv
    BY OverlayInit
  <1>2. Pages!TypeOK /\ Pages!IInv /\ [Pages!Next]_(Pages!vars) => (Pages!TypeOK /\ Pages!IInv)'
    <2>1. ASSUME Pages!TypeOK, Pages!IInv, UNCHANGED Pages!vars
          PROVE  Pages!TypeOK' /\ Pages!IInv'
      <3> USE <2>1 DEF Pages!vars
      <3>1. Pages!TypeOK'
        BY DEF Pages!TypeOK
      <3>2. ASSUME NEW x \in Builds PROVE Pages!BuildIsRight(x)'
        BY OthersStay DEF Pages!IInv
      <3>3. Pages!ImagesAreOfBuilds' /\ Pages!LookedIsReplaced'
        BY DEF Pages!IInv, Pages!ImagesAreOfBuilds, Pages!LookedIsReplaced, Pages!Overlay
      <3>4. QED
        BY <3>1, <3>2, <3>3 DEF Pages!IInv
    <2>2. ASSUME Pages!TypeOK, Pages!IInv, Pages!Next PROVE Pages!TypeOK' /\ Pages!IInv'
      BY <2>2, OverlayBegins, ChainIsFound, OverlayMerges, MergingEnds, OverlayPush, OverlayCollect
      DEF Pages!Next
    <2>3. QED
      BY <2>1, <2>2
  <1>3. Pages!TypeOK /\ Pages!IInv =>
          Pages!OldPagesFindTheirAssets /\ Pages!NothingIsMixed /\ Pages!LineageIsTrue
    BY PagesFindTheirAssets, AssetsAreNotMixed, LineagesAreTrue
  <1>4. QED
    BY <1>1, <1>2, <1>3, PTL DEF Pages!Spec

\* A build ships its own dependencies and what it ships of builds before it is
\* theirs, whatever ran before, fails or runs beside it.
THEOREM ShippedIsItsOwn ==
  ASSUME Bundle!Assumed, Pages!Assumed
  PROVE  Bundle!Spec /\ Pages!Spec => []ShipsItsOwnDependencies
  <1>1. Bundle!Spec => [](/\ Bundle!TypeOK /\ Bundle!NoInstallOutlivesPrepare
                          /\ Bundle!ShipsItsOwnDependencies /\ Bundle!BuildIsTheProjectsOwn)
    BY PreparedIsItsOwn
  <1>2. Pages!Spec => [](/\ Pages!TypeOK /\ Pages!OldPagesFindTheirAssets
                         /\ Pages!NothingIsMixed /\ Pages!LineageIsTrue)
    BY OldPagesAreServed
  <1>3. QED
    BY <1>1, <1>2, PTL DEF ShipsItsOwnDependencies
=============================================================================
