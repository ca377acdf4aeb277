-------------------------- MODULE AttestationProofs ---------------------------
(***************************************************************************)
(* What a startup attestation that passes says of the tree, for any files,  *)
(* any number of workers and any changes made while it runs.                *)
(***************************************************************************)
EXTENDS Attestation, FiniteSetTheorems, SequenceTheorems, TLAPS

Bytes == Contents \cup {Empty}
Steps == {"take", "look", "hash", "raise", "done"}
Attests == expected \notin {Blank, Malformed}

Types ==
  /\ tree \in [Files -> Entries] /\ expected \in Manifests
  /\ where \in {"list", "hash", "passed", "refused"}
  /\ tasks \in Seq(Files) /\ next \in Nat \ {0}
  /\ aborted \in BOOLEAN /\ firstErr \in BOOLEAN
  /\ at \in [Workers -> Steps] /\ job \in [Workers -> Nat]
  /\ records \in Seq(Bytes)
  /\ toList \in Seq({RootOf[f] : f \in Files})
  /\ where = "hash" => Attests

\* The history holds what is there.
Remembered ==
  /\ DOMAIN was = Files
  /\ \A f \in Files : <<tree[f].kind, Read(tree, f)>> \in was[f]

\* A path of a root that was listed is a task, or was no file.
WasNoFile(f) == \E k \in {"none", "link"}, c \in Bytes : <<k, c>> \in was[f]
Listed ==
  Attests => \A f \in Files : \/ \E i \in DOMAIN toList : toList[i] = RootOf[f]
                              \/ \E i \in DOMAIN tasks : tasks[i] = f
                              \/ WasNoFile(f)

\* A slot that is filled holds what its file held.
WasThere(f, c) == \E k \in {"file", "link"} : <<k, c>> \in was[f]
Recorded ==
  (where \in {"hash", "passed"} /\ Attests) =>
    /\ toList = <<>> /\ Len(records) = Len(tasks)
    /\ \A i \in DOMAIN tasks : records[i] # Empty => WasThere(tasks[i], records[i])

Compared == Attested => attestRootDigest = expected

IInv == Types /\ Remembered /\ Listed /\ Recorded /\ Compared

-----------------------------------------------------------------------------
\* What a path holds is bytes, and only a file or a link holds any.
LEMMA ReadType ==
  ASSUME NEW t \in [Files -> Entries], NEW f \in Files
  PROVE  /\ Read(t, f) \in Bytes
         /\ t[f].kind \in {"file", "link", "none"}
         /\ Read(t, f) # Empty => t[f].kind \in {"file", "link"}
<1>1. \A e \in Entries : /\ e.kind \in {"file", "link", "none"}
                         /\ e.kind = "file" => e.of \in Contents
                         /\ e.kind = "link" => e.of \in Files
  BY DEF Entries, NoEntry
<1>2. \A g \in Files : t[g] \in Entries
  OBVIOUS
<1>3. ASSUME t[f].kind = "link", t[t[f].of].kind = "file"
      PROVE  t[t[f].of].of \in Contents
  <2>1. t[f].of \in Files
    BY <1>1, <1>2, <1>3
  <2> QED
    BY <1>1, <1>2, <1>3, <2>1
<1> QED
  BY <1>1, <1>2, <1>3 DEF Read, Bytes

\* At the start the tree is as it is, and every root is still to be listed.
LEMMA Starts ==
  ASSUME Assumed, \A t \in Trees : t \in [Files -> Entries], Init
  PROVE  IInv
<1>1. Types
  <2>1. at \in [Workers -> Steps] /\ job \in [Workers -> Nat]
    BY DEF Init, Steps
  <2>2. tasks \in Seq(Files) /\ records \in Seq(Bytes)
    BY DEF Init
  <2>3. toList \in Seq({RootOf[f] : f \in Files})
    BY DEF Init, Assumed
  <2>4. tree \in [Files -> Entries] /\ expected \in Manifests
    BY DEF Init
  <2>5. where = "list" /\ next = 1
    BY DEF Init
  <2>6. aborted \in BOOLEAN /\ firstErr \in BOOLEAN
    BY DEF Init
  <2>7. where \in {"list", "hash", "passed", "refused"} /\ (where = "hash" => Attests)
    BY <2>5
  <2>8. next \in Nat \ {0}
    BY <2>5
  <2> QED
    BY <2>1, <2>2, <2>3, <2>4, <2>6, <2>7, <2>8, Zenon DEF Types
<1>2. Remembered
  BY <1>1, ReadType DEF Init, Seen, Remembered, Types
<1> QED
  BY <1>1, <1>2 DEF IInv, Init, Assumed, Listed, Recorded, Compared, Attested

\* The history only grows: what it says of a path stays said.
Grows == DOMAIN was' = Files /\ \A f \in Files : was[f] \subseteq was'[f]

LEMMA StaysSaid ==
  ASSUME Grows
  PROVE  /\ \A f \in Files : WasNoFile(f) => WasNoFile(f)'
         /\ \A c : \A f \in Files : WasThere(f, c) => WasThere(f, c)'
BY DEF Grows, WasNoFile, WasThere

\* One root listed: its files are tasks, and the others were none.
LEMMA ListingKeeps ==
  ASSUME Assumed, IInv, collectAttestTasks
  PROVE  IInv'
<1> USE DEF IInv, collectAttestTasks
<1>1. CASE where' = "refused" /\ UNCHANGED <<toList, tasks>>
  <2>1. Types'
    BY <1>1 DEF Types
  <2>2. Remembered' /\ Listed'
    BY <1>1 DEF Remembered, Read, Listed, WasNoFile, Attests
  <2> QED
    BY <1>1, <2>1, <2>2 DEF Recorded, Compared, Attested
<1>2. ASSUME NEW found, found = {f \in Files : RootOf[f] = Head(toList) /\ tree[f].kind = "file"},
             NEW listed \in [1..Cardinality(found) -> found],
             found = {listed[i] : i \in DOMAIN listed}, tasks' = tasks \o listed,
             toList' = Tail(toList), UNCHANGED where
      PROVE  IInv'
  <2>1. Cardinality(found) \in Nat
    BY <1>2, FS_Subset, FS_CardinalityType DEF Assumed
  <2>2. listed \in Seq(Files) /\ Len(listed) = Cardinality(found)
    <3>1. PICK n \in Nat : n = Cardinality(found)
      BY <2>1
    <3>2. listed \in [1 .. n -> found] /\ found \subseteq Files
      BY <1>2, <3>1
    <3>3. listed \in [1 .. n -> Files]
      BY <3>2
    <3>4. listed \in Seq(Files) /\ Len(listed) = n
      BY ONLY <3>1, <3>3
    <3>5. QED
      BY <3>1, <3>4
  <2>3. /\ tasks' \in Seq(Files)
        /\ \A i \in DOMAIN tasks : i \in DOMAIN tasks' /\ tasks'[i] = tasks[i]
        /\ \A f \in found : \E i \in DOMAIN tasks' : tasks'[i] = f
    <3>1. tasks \in Seq(Files)
      BY DEF Types
    <3>2. /\ tasks \o listed \in Seq(Files) /\ Len(tasks \o listed) = Len(tasks) + Len(listed)
          /\ \A i \in 1..Len(tasks) + Len(listed) :
               (tasks \o listed)[i] = IF i <= Len(tasks) THEN tasks[i] ELSE listed[i - Len(tasks)]
      BY <2>2, <3>1, ConcatProperties
    <3>3. \A i \in DOMAIN tasks : i \in DOMAIN tasks' /\ tasks'[i] = tasks[i]
      BY <1>2, <2>2, <3>1, <3>2
    <3>4. \A i \in DOMAIN listed : Len(tasks) + i \in DOMAIN tasks' /\ tasks'[Len(tasks) + i] = listed[i]
      BY <1>2, <2>2, <3>1, <3>2
    <3>5. \A f \in found : \E i \in DOMAIN listed : listed[i] = f
      BY <1>2
    <3> QED
      BY <1>2, <3>2, <3>3, <3>4, <3>5
  <2>4. Types'
    BY <1>2, <2>3 DEF Types
  <2>5. Remembered'
    BY DEF Remembered, Read
  <2>6. Listed'
    <3> SUFFICES ASSUME Attests, NEW f \in Files
                 PROVE  \/ \E i \in DOMAIN toList' : toList'[i] = RootOf[f]
                        \/ \E i \in DOMAIN tasks' : tasks'[i] = f
                        \/ WasNoFile(f)
      BY DEF Listed, Attests, WasNoFile
    <3>1. CASE RootOf[f] = Head(toList) /\ tree[f].kind # "file"
      <4>1. <<tree[f].kind, Read(tree, f)>> \in was[f]
        BY DEF Remembered
      <4>2. tree[f].kind \in {"none", "link"} /\ Read(tree, f) \in Bytes
        BY <3>1, ReadType DEF Types
      <4> QED
        BY <4>1, <4>2 DEF WasNoFile
    <3>2. CASE RootOf[f] = Head(toList) /\ tree[f].kind = "file"
      BY <1>2, <2>3, <3>2
    <3>3. CASE \E i \in DOMAIN tasks : tasks[i] = f
      BY <2>3, <3>3
    <3>4. CASE \E i \in DOMAIN toList : toList[i] = RootOf[f] /\ RootOf[f] # Head(toList)
      <4> PICK i \in DOMAIN toList : toList[i] = RootOf[f] /\ RootOf[f] # Head(toList)
        BY <3>4
      <4>1. i - 1 \in DOMAIN Tail(toList) /\ Tail(toList)[i - 1] = toList[i]
        BY DEF Types
      <4> QED
        BY <1>2, <4>1
    <3> QED
      BY <3>1, <3>2, <3>3, <3>4 DEF Listed
  <2> QED
    BY <1>2, <2>4, <2>5, <2>6 DEF Recorded, Compared, Attested
<1> QED
  BY <1>1, <1>2

\* The tree changes: the history keeps what was there and takes in what is.
LEMMA ChangeKeeps ==
  ASSUME Assumed, IInv, NEW f \in Files, NEW entry \in Entries, Change(f, entry)
  PROVE  IInv'
<1> USE DEF IInv, Change
<1>1. Types'
  BY DEF Types, Attests
<1>2. Grows
  BY DEF Grows, Remembered
<1>3. Remembered'
  <2>1. \A g \in Files : was'[g] = was[g] \cup {<<tree'[g].kind, Read(tree', g)>>}
    BY DEF Seen
  <2> QED
    BY <2>1 DEF Remembered, Read
<1>4. Listed'
  BY <1>2, StaysSaid DEF Listed, Attests
<1>5. Recorded'
  BY <1>2, StaysSaid DEF Recorded, Attests, Types
<1> QED
  BY <1>1, <1>3, <1>4, <1>5 DEF Compared, Attested, attestRootDigest

\* A file is hashed: what is recorded is what the path holds now.
LEMMA HashKeeps ==
  ASSUME Assumed, IInv, NEW w \in Workers, hashAttestFile(w), job[w] \in DOMAIN tasks
  PROVE  IInv'
<1> USE DEF IInv, hashAttestFile, Move
<1>1. tasks[job[w]] \in Files
  BY DEF Types
<1>2. job[w] \in 1..Len(records) /\ records \in Seq(Bytes) /\ Attests /\ toList = <<>>
  BY DEF Types, Recorded
<1>3. Read(tree, tasks[job[w]]) \in Bytes
  BY <1>1, ReadType DEF Types
<1>4. records' \in Seq(Bytes) /\ Len(records') = Len(records)
  BY <1>2, <1>3, ExceptSeq
<1>5. Types'
  BY <1>4 DEF Types, Steps, Attests
<1>6. Remembered' /\ Listed'
  BY DEF Remembered, Read, Listed, WasNoFile, Attests
<1>7. Recorded'
  <2> SUFFICES ASSUME NEW i \in DOMAIN tasks, records'[i] # Empty
               PROVE  WasThere(tasks[i], records'[i])
    BY <1>2, <1>4 DEF Recorded, WasThere, Types, Attests
  <2>1. CASE records' = records
    BY <1>2, <2>1 DEF Recorded
  <2>2. CASE records' # records /\ i # job[w]
    BY <1>2, <1>3, <2>2, ExceptSeq DEF Recorded, Types
  <2>3. CASE records' # records /\ i = job[w]
    <3>1. records'[i] = Read(tree, tasks[i])
      BY <1>2, <1>3, <2>3, ExceptSeq
    <3>2. <<tree[tasks[i]].kind, Read(tree, tasks[i])>> \in was[tasks[i]]
      BY <1>1, <2>3 DEF Remembered
    <3>3. tree[tasks[i]].kind \in {"file", "link"}
      BY <1>1, <2>3, <3>1, ReadType DEF Types
    <3> QED
      BY <3>1, <3>2, <3>3 DEF WasThere
  <2> QED
    BY <2>1, <2>2, <2>3
<1> QED
  BY <1>5, <1>6, <1>7 DEF Compared, Attested

\* What the workers are at, and the slots: one that is empty is still to be
\* taken, or is someone's, or there is an error.
Busy(w, i) == at[w] \in {"look", "hash"} /\ job[w] = i
Slots ==
  where = "hash" =>
    /\ aborted => firstErr
    /\ \A w \in Workers :
         /\ at[w] = "raise" => firstErr
         /\ at[w] = "done" => firstErr \/ next > Len(tasks)
         /\ at[w] \in {"look", "hash"} => job[w] \in DOMAIN tasks /\ job[w] < next
    /\ \A i \in DOMAIN tasks :
         records[i] # Empty \/ i >= next \/ firstErr \/ \E w \in Workers : Busy(w, i)
\* Before they are started no worker has moved.
Resting ==
  where = "list" => /\ ~aborted /\ ~firstErr /\ next = 1
                    /\ \A w \in Workers : at[w] = "take"

SInv == IInv /\ Slots /\ Resting

\* The steps of a worker that hash nothing, and those between the phases.
LEMMA OthersKeep ==
  ASSUME Assumed, SInv,
         \/ Unattested \/ StartWorkers \/ verifyAttestation
         \/ \E w \in Workers : Take(w) \/ Look(w) \/ Raise(w)
  PROVE  IInv'
<1> USE DEF SInv, IInv
<1>1. UNCHANGED <<tree, expected, tasks, toList, was>>
  BY DEF Unattested, StartWorkers, verifyAttestation, Take, Look, Raise
<1>2. Remembered' /\ Listed'
  BY <1>1 DEF Remembered, Read, Listed, Attests, WasNoFile
<1>3. CASE StartWorkers
  <2>1. records' \in Seq(Bytes) /\ Len(records') = Len(tasks) /\ \A i \in DOMAIN tasks : records'[i] = Empty
    BY <1>3 DEF StartWorkers, Types, Bytes
  <2> QED
    BY <1>1, <1>2, <1>3, <2>1 DEF StartWorkers, Types, Attests, Recorded, Compared, Attested
<1>4. CASE Unattested
  BY <1>1, <1>2, <1>4 DEF Unattested, Types, Attests, Recorded, Compared, Attested
<1>5. CASE verifyAttestation
  BY <1>1, <1>2, <1>5 DEF verifyAttestation, Types, Attests, Recorded, Compared, Attested,
     attestRootDigest, WasThere
<1>6. ASSUME NEW w \in Workers, Take(w) \/ Look(w) \/ Raise(w)
      PROVE  IInv'
  <2>1. Types'
    <3>1. at' \in [Workers -> Steps] /\ job' \in [Workers -> Nat] /\ next' \in Nat \ {0}
      <4>1. at \in [Workers -> Steps] /\ job \in [Workers -> Nat] /\ next \in Nat \ {0}
        BY DEF Types
      <4>2. \A step \in Steps : Move(w, step) => at' \in [Workers -> Steps]
        BY <4>1 DEF Move
      <4>3. {"take", "look", "hash", "raise", "done"} \subseteq Steps
        BY DEF Steps
      <4> HIDE DEF SInv, IInv
      <4>4. CASE Take(w)
        BY <4>1, <4>2, <4>3, <4>4 DEF Take
      <4>5. CASE Look(w)
        <5>1. (IF aborted THEN "done" ELSE "hash") \in Steps
          BY <4>3
        <5> QED
          BY <4>1, <4>2, <4>5, <5>1 DEF Look
      <4>6. CASE Raise(w)
        BY <4>1, <4>2, <4>3, <4>6 DEF Raise
      <4> QED
        BY <1>6, <4>4, <4>5, <4>6
    <3>2. aborted' \in BOOLEAN
      BY <1>6 DEF Take, Look, Raise, Types
    <3>3. UNCHANGED <<where, firstErr, records>>
      BY <1>6 DEF Take, Look, Raise
    <3> QED
      BY <1>1, <3>1, <3>2, <3>3 DEF Types, Attests
  <2>2. Recorded' /\ Compared'
    BY <1>1, <1>6 DEF Take, Look, Raise, Recorded, Compared, Attested, Attests, WasThere
  <2> QED
    BY <1>2, <2>1, <2>2
<1> QED
  BY <1>3, <1>4, <1>5, <1>6

\* No worker moves before the slots are there.
LEMMA RestingKeeps ==
  ASSUME SInv, [Next]_attestVars
  PROVE  Resting'
<1> USE DEF SInv, Resting
<1>1. CASE Unattested \/ collectAttestTasks \/ StartWorkers \/ verifyAttestation
  BY <1>1 DEF Unattested, collectAttestTasks, StartWorkers, verifyAttestation
<1>2. CASE \E w \in Workers : Take(w) \/ Look(w) \/ hashAttestFile(w) \/ Raise(w)
  BY <1>2 DEF Take, Look, hashAttestFile, Raise
<1>3. CASE \E f \in Files, entry \in Entries : Change(f, entry)
  BY <1>3 DEF Change
<1>4. CASE UNCHANGED attestVars
  BY <1>4 DEF attestVars
<1> QED
  BY <1>1, <1>2, <1>3, <1>4 DEF Next

\* A slot that is empty is still to be taken, or is someone's, or there is an
\* error, whatever step a worker takes.
LEMMA SlotsKeep ==
  ASSUME Assumed, SInv, IInv', [Next]_attestVars
  PROVE  Slots'
<1> USE DEF SInv
<1>1. CASE Unattested \/ collectAttestTasks \/ verifyAttestation
  BY <1>1 DEF Unattested, collectAttestTasks, verifyAttestation, Slots
<1>2. CASE StartWorkers
  BY <1>2 DEF StartWorkers, Slots, Resting, IInv, Types
<1>3. CASE (\E f \in Files, entry \in Entries : Change(f, entry)) \/ UNCHANGED attestVars
  BY <1>3 DEF Change, attestVars, Slots, Busy
<1>4. ASSUME NEW w \in Workers, Take(w)
      PROVE  Slots'
  <2>1. /\ next \in Nat \ {0} /\ tasks \in Seq(Files) /\ at \in [Workers -> Steps]
        /\ job \in [Workers -> Nat] /\ where = "hash"
    BY <1>4 DEF Take, IInv, Types
  <2>2. CASE next > Len(tasks)
    BY <1>4, <2>1, <2>2 DEF Take, Move, Slots, Busy
  <2>3. CASE ~(next > Len(tasks))
    <3>1. /\ job' = [job EXCEPT ![w] = next] /\ at' = [at EXCEPT ![w] = "look"] /\ next' = next + 1
          /\ UNCHANGED <<where, tasks, aborted, firstErr, records>>
      BY <1>4, <2>3 DEF Take, Move
    <3>2. next \in DOMAIN tasks
      BY <2>1, <2>3
    <3>3. \A i \in DOMAIN tasks :
            records[i] # Empty \/ i >= next + 1 \/ firstErr \/ \E v \in Workers : Busy(v, i)'
      <4> SUFFICES ASSUME NEW i \in DOMAIN tasks, records[i] = Empty, ~(i >= next + 1), ~firstErr
                   PROVE  \E v \in Workers : Busy(v, i)'
        OBVIOUS
      <4>1. CASE i = next
        BY <2>1, <3>1, <4>1 DEF Busy
      <4>2. CASE i # next
        <5>1. ~(i >= next)
          BY <2>1, <4>2
        <5>2. PICK v \in Workers : Busy(v, i)
          BY <2>1, <5>1 DEF Slots
        <5>3. v # w
          BY <1>4, <5>2 DEF Take, Busy
        <5> QED
          BY <2>1, <3>1, <5>2, <5>3 DEF Busy
      <4> QED
        BY <4>1, <4>2
    <3> QED
      BY <2>1, <3>1, <3>2, <3>3 DEF Slots
  <2> QED
    BY <2>2, <2>3
<1>5. ASSUME NEW w \in Workers, Look(w)
      PROVE  Slots'
  <2>1. at \in [Workers -> Steps] /\ job \in [Workers -> Nat] /\ where = "hash"
    BY <1>5 DEF Look, IInv, Types
  <2>2. CASE aborted
    BY <1>5, <2>1, <2>2 DEF Look, Move, Slots
  <2>3. CASE ~aborted
    <3>1. at' = [at EXCEPT ![w] = "hash"] /\ at[w] = "look"
          /\ UNCHANGED <<where, tasks, next, aborted, firstErr, job, records>>
      BY <1>5, <2>3 DEF Look, Move
    <3>2. \A i : \A v \in Workers : Busy(v, i) => Busy(v, i)'
      BY <2>1, <3>1 DEF Busy
    <3> QED
      BY <2>1, <3>1, <3>2 DEF Slots
  <2> QED
    BY <2>2, <2>3
<1>6. ASSUME NEW w \in Workers, hashAttestFile(w)
      PROVE  Slots'
  <2>1. at \in [Workers -> Steps] /\ job \in [Workers -> Nat] /\ where = "hash"
    BY <1>6 DEF hashAttestFile, IInv, Types
  <2>2. CASE firstErr' = TRUE /\ Move(w, "raise") /\ UNCHANGED records
    BY <1>6, <2>1, <2>2 DEF hashAttestFile, Move, Slots
  <2>3. CASE /\ Read(tree, tasks[job[w]]) # Empty
             /\ records' = [records EXCEPT ![job[w]] = Read(tree, tasks[job[w]])]
             /\ Move(w, "take") /\ UNCHANGED firstErr
    <3>1. at' = [at EXCEPT ![w] = "take"] /\ at[w] = "hash"
          /\ UNCHANGED <<where, tasks, next, aborted, firstErr, job>>
      BY <1>6, <2>3 DEF hashAttestFile, Move
    <3>2. /\ records \in Seq(Bytes) /\ Len(records) = Len(tasks) /\ tasks \in Seq(Files)
          /\ job[w] \in DOMAIN tasks /\ expected \notin {Blank, Malformed}
      BY <2>1, <3>1 DEF IInv, Types, Recorded, Slots, Attests
    <3>3. \A i \in DOMAIN tasks : i # job[w] => records'[i] = records[i]
      BY <2>3, <3>2
    <3>4. records'[job[w]] # Empty
      BY <2>3, <3>2
    <3>5. \A i \in DOMAIN tasks :
            records'[i] # Empty \/ i >= next \/ firstErr \/ \E v \in Workers : Busy(v, i)'
      <4> SUFFICES ASSUME NEW i \in DOMAIN tasks, records'[i] = Empty, ~(i >= next), ~firstErr
                   PROVE  \E v \in Workers : Busy(v, i)'
        OBVIOUS
      <4>1. PICK v \in Workers : Busy(v, i)
        BY <2>1, <3>3, <3>4 DEF Slots
      <4>2. v # w
        BY <3>4, <4>1 DEF Busy
      <4> QED
        BY <2>1, <3>1, <4>1, <4>2 DEF Busy
    <3> QED
      BY <2>1, <3>1, <3>5 DEF Slots
  <2> QED
    BY <1>6, <2>2, <2>3 DEF hashAttestFile
<1>7. ASSUME NEW w \in Workers, Raise(w)
      PROVE  Slots'
  <2>1. at \in [Workers -> Steps] /\ job \in [Workers -> Nat] /\ where = "hash" /\ firstErr
    BY <1>7 DEF Raise, IInv, Types, Slots
  <2> QED
    BY <1>7, <2>1 DEF Raise, Move, Slots
<1> QED
  BY <1>1, <1>2, <1>3, <1>4, <1>5, <1>6, <1>7 DEF Next

\* Every behaviour keeps what the tree was, what was listed and what was
\* recorded together.
LEMMA Kept ==
  ASSUME Assumed, \A t \in Trees : t \in [Files -> Entries]
  PROVE  Spec => []SInv
<1>1. Init => SInv
  BY Starts DEF SInv, Slots, Resting, Init
<1>2. SInv /\ [Next]_attestVars => SInv'
  <2> SUFFICES ASSUME SInv, [Next]_attestVars
               PROVE  IInv'
    BY RestingKeeps, SlotsKeep DEF SInv
  <2>1. CASE UNCHANGED attestVars
    BY <2>1 DEF SInv, attestVars, IInv, Types, Remembered, Read, Listed, WasNoFile, Recorded, WasThere,
       Compared, Attested, Attests, attestRootDigest
  <2>2. CASE collectAttestTasks
    BY <2>2, ListingKeeps DEF SInv
  <2>3. CASE \E f \in Files, entry \in Entries : Change(f, entry)
    BY <2>3, ChangeKeeps DEF SInv
  <2>4. CASE \E w \in Workers : hashAttestFile(w)
    <3> PICK w \in Workers : hashAttestFile(w)
      BY <2>4
    <3>1. job[w] \in DOMAIN tasks
      BY DEF SInv, Slots, hashAttestFile
    <3> QED
      BY <3>1, HashKeeps DEF SInv
  <2>5. CASE \/ Unattested \/ StartWorkers \/ verifyAttestation
             \/ \E w \in Workers : Take(w) \/ Look(w) \/ Raise(w)
    BY <2>5, OthersKeep
  <2> QED
    BY <2>1, <2>2, <2>3, <2>4, <2>5 DEF Next
<1> QED
  BY <1>1, <1>2, PTL DEF Spec

\* Every step of the attestation keeps the types of the startup check's state.
THEOREM TypeCorrect ==
  ASSUME Assumed, \A t \in Trees : t \in [Files -> Entries]
  PROVE  Spec => []TypeOK
<1>1. SInv => TypeOK
  BY DEF SInv, IInv, Types, TypeOK, Steps, Bytes
<1> QED
  BY <1>1, Kept, PTL

\* What passes was, file by file, what the image was built with (attest.go, 91),
\* whatever the workers' order and whatever changed meanwhile.
THEOREM VerdictIsEarnedAlways ==
  ASSUME Assumed, \A t \in Trees : t \in [Files -> Entries]
  PROVE  Spec => []VerdictIsEarned
<1>1. SInv => VerdictIsEarned
  <2> SUFFICES ASSUME SInv, Attested, NEW f \in Files
               PROVE  IF \E c \in Contents : <<f, c>> \in expected
                      THEN \E c \in Contents, k \in {"file", "link"} :
                             <<f, c>> \in expected /\ <<k, c>> \in was[f]
                      ELSE \E k \in {"none", "link"}, c \in Contents \cup {Empty} : <<k, c>> \in was[f]
    BY DEF VerdictIsEarned
  <2>1. /\ attestRootDigest = expected /\ toList = <<>>
        /\ \A i \in DOMAIN tasks : records[i] # Empty => WasThere(tasks[i], records[i])
    BY DEF SInv, IInv, Compared, Recorded, Attested, Attests
  <2>2. expected \subseteq Files \X Contents
    BY DEF SInv, IInv, Types, Attested, Assumed
  <2>3. \A i \in DOMAIN tasks : <<tasks[i], records[i]>> \in expected /\ records[i] \in Contents
    BY <2>1, <2>2 DEF attestRootDigest
  <2>4. CASE \E c \in Contents : <<f, c>> \in expected
    <3> PICK c \in Contents : <<f, c>> \in expected
      BY <2>4
    <3>1. PICK i \in DOMAIN tasks : tasks[i] = f /\ records[i] = c
      BY <2>1 DEF attestRootDigest
    <3>2. WasThere(f, c)
      BY <2>1, <3>1 DEF Assumed
    <3> QED
      BY <2>4, <3>2 DEF WasThere
  <2>5. CASE ~\E c \in Contents : <<f, c>> \in expected
    <3>1. ~\E i \in DOMAIN tasks : tasks[i] = f
      BY <2>3, <2>5
    <3>2. WasNoFile(f)
      BY <2>1, <3>1 DEF SInv, IInv, Listed, Attests, Attested
    <3> QED
      BY <2>5, <3>2 DEF WasNoFile, Bytes
  <2> QED
    BY <2>4, <2>5
<1> QED
  BY <1>1, Kept, PTL

\* When all workers are done and none failed, no slot is empty (attest.go, 304
\* and 335): a worker leaves early only after an error.
THEOREM SlotsAreFilledAlways ==
  ASSUME Assumed, \A t \in Trees : t \in [Files -> Entries]
  PROVE  Spec => []SlotsAreFilled
<1>1. SInv => SlotsAreFilled
  <2> SUFFICES ASSUME SInv, where = "hash", Waited, ~firstErr, NEW i \in DOMAIN tasks
               PROVE  records[i] # Empty
    BY DEF SlotsAreFilled
  <2>1. PICK w \in Workers : at[w] = "done"
    BY DEF Waited, Assumed
  <2>2. next > Len(tasks) /\ next \in Nat /\ tasks \in Seq(Files)
    BY <2>1 DEF SInv, Slots, IInv, Types
  <2>3. ~(i >= next)
    BY <2>2
  <2>4. ~\E v \in Workers : Busy(v, i)
    BY DEF Waited, Busy
  <2> QED
    BY <2>3, <2>4 DEF SInv, Slots
<1> QED
  BY <1>1, Kept, PTL

-----------------------------------------------------------------------------
\* While nothing has changed, a path was only what it is, and every task is a file.
Unmoved ==
  /\ changes \in Nat
  /\ changes = 0 => /\ \A f \in Files : was[f] = {<<tree[f].kind, Read(tree, f)>>}
                    /\ \A i \in DOMAIN tasks : tree[tasks[i]].kind = "file"

LEMMA StartsUnmoved == Init => Unmoved
  BY DEF Init, Unmoved, Seen

LEMMA UnmovedKeeps ==
  ASSUME Assumed, SInv, Unmoved, [Next]_attestVars
  PROVE  Unmoved'
<1>1. CASE UNCHANGED attestVars
  BY <1>1 DEF Unmoved, attestVars, Read
<1>2. CASE \E f \in Files, entry \in Entries : Change(f, entry)
  <2>1. changes' \in Nat /\ changes' # 0
    BY <1>2 DEF Change, Unmoved
  <2> QED
    BY <2>1 DEF Unmoved
<1>3. CASE collectAttestTasks
  <2>1. changes' = changes /\ tree' = tree /\ was' = was
    BY <1>3 DEF collectAttestTasks
  <2>2. CASE tasks' = tasks
    BY <2>1, <2>2 DEF Unmoved, Read
  <2>3. ASSUME NEW found, found = {f \in Files : RootOf[f] = Head(toList) /\ tree[f].kind = "file"},
               NEW listed \in [1..Cardinality(found) -> found], tasks' = tasks \o listed
        PROVE  Unmoved'
    <3>1. Cardinality(found) \in Nat
      BY <2>3, FS_Subset, FS_CardinalityType DEF Assumed
    <3>2. listed \in Seq(found) /\ Len(listed) = Cardinality(found)
      BY <2>3, <3>1
    <3>3. tasks \in Seq(Files) /\ found \subseteq Files
      BY <2>3 DEF SInv, IInv, Types
    <3>4. listed \in Seq(Files)
      BY <3>2, <3>3
    <3>5. /\ Len(tasks \o listed) = Len(tasks) + Len(listed) /\ tasks \o listed \in Seq(Files)
          /\ \A i \in 1..Len(tasks) + Len(listed) :
               (tasks \o listed)[i] = IF i <= Len(tasks) THEN tasks[i] ELSE listed[i - Len(tasks)]
      BY <3>3, <3>4, ConcatProperties
    <3>6. ASSUME changes = 0, NEW i \in DOMAIN tasks'
          PROVE  tree[tasks'[i]].kind = "file"
      <4>1. i \in 1..Len(tasks) + Len(listed)
        BY <3>5, <2>3
      <4>2. CASE i <= Len(tasks)
        <5>1. i \in DOMAIN tasks /\ tasks'[i] = tasks[i]
          BY <4>1, <4>2, <3>3, <3>5, <2>3
        <5> QED
          BY <5>1, <3>6 DEF Unmoved
      <4>3. CASE ~(i <= Len(tasks))
        <5>1. i - Len(tasks) \in 1..Len(listed) /\ tasks'[i] = listed[i - Len(tasks)]
          BY <4>1, <4>3, <3>2, <3>3, <3>5, <2>3
        <5>2. listed[i - Len(tasks)] \in found
          BY <5>1, <3>2
        <5> QED
          BY <5>1, <5>2, <2>3
      <4> QED
        BY <4>2, <4>3
    <3> QED
      BY <2>1, <3>6 DEF Unmoved, Read
  <2> QED
    BY <1>3, <2>2, <2>3 DEF collectAttestTasks
<1>4. CASE \/ Unattested \/ StartWorkers \/ verifyAttestation
           \/ \E w \in Workers : Take(w) \/ Look(w) \/ hashAttestFile(w) \/ Raise(w)
  <2>1. UNCHANGED <<changes, tree, was, tasks>>
    BY <1>4 DEF Unattested, StartWorkers, verifyAttestation, Take, Look, hashAttestFile, Raise
  <2> QED
    BY <2>1 DEF Unmoved, Read
<1> QED
  BY <1>1, <1>2, <1>3, <1>4 DEF Next

\* A tree that is the manifest's, and that nothing changed or kept from being read,
\* is not refused, whatever the workers' order.
THEOREM MatchesAreKeptAlways ==
  ASSUME Assumed, \A t \in Trees : t \in [Files -> Entries]
  PROVE  Spec => []MatchesAreKept
<1>1. SInv /\ Unmoved /\ SlotsAreFilled => MatchesAreKept
  <2> SUFFICES ASSUME SInv, Unmoved, SlotsAreFilled, where = "hash", Waited, changes = 0, ~firstErr,
                      Untouched(tree) = expected
               PROVE  attestRootDigest = expected
    BY DEF MatchesAreKept
  <2>1. /\ \A f \in Files : was[f] = {<<tree[f].kind, Read(tree, f)>>}
        /\ \A i \in DOMAIN tasks : tasks[i] \in Files /\ tree[tasks[i]].kind = "file"
    BY DEF Unmoved, SInv, IInv, Types
  <2>2. toList = <<>> /\ Attests
        /\ \A i \in DOMAIN tasks : records[i] # Empty => WasThere(tasks[i], records[i])
    BY DEF SInv, IInv, Types, Recorded
  <2>3. ASSUME NEW i \in DOMAIN tasks
        PROVE  records[i] = tree[tasks[i]].of
    <3>1. WasThere(tasks[i], records[i])
      BY <2>2 DEF SlotsAreFilled
    <3>2. Read(tree, tasks[i]) = tree[tasks[i]].of
      BY <2>1 DEF Read
    <3> QED
      BY <3>1, <3>2, <2>1 DEF WasThere
  <2>4. ASSUME NEW f \in Files, tree[f].kind = "file"
        PROVE  \E i \in DOMAIN tasks : tasks[i] = f
    <3>1. ~WasNoFile(f)
      <4>1. ASSUME NEW k, NEW c, <<k, c>> \in was[f]
            PROVE  k = "file"
        <5>1. <<k, c>> = <<tree[f].kind, Read(tree, f)>>
          BY <2>1, <4>1
        <5> QED
          BY <5>1, <2>4
      <4> QED
        BY <4>1 DEF WasNoFile
    <3> QED
      BY <2>2, <3>1 DEF SInv, IInv, Listed
  <2>5. attestRootDigest \subseteq Untouched(tree)
    BY <2>1, <2>3 DEF attestRootDigest, Untouched
  <2>6. Untouched(tree) \subseteq attestRootDigest
    BY <2>3, <2>4 DEF attestRootDigest, Untouched
  <2> QED
    BY <2>5, <2>6
<1>2. SInv /\ Unmoved /\ [Next]_attestVars => Unmoved'
  BY UnmovedKeeps
<1> QED
  BY <1>1, <1>2, StartsUnmoved, Kept, SlotsAreFilledAlways, PTL DEF Spec
=============================================================================
