----------------------------- MODULE Attestation ------------------------------
(***************************************************************************)
(* The startup attestation of pokkum-init (attest.go): the files below /app *)
(* are listed, root by root, and hashed by a pool of workers that take the  *)
(* next one from a shared counter, while something else may still change    *)
(* them.  PokkumInit takes its verdict from here.                           *)
(*                                                                         *)
(* A hash is what it is of; the digest of a set of records is the set.      *)
(***************************************************************************)
EXTENDS Naturals, Sequences, FiniteSets

CONSTANTS
  Files,        \* the paths there can be
  Roots,        \* the directories that are attested, in their order
  RootOf,       \* path -> its root
  Contents,     \* what a file can hold
  Manifests,    \* the values of the digest: sets of <<path, content>>, Blank, Malformed
  Blank, Malformed,
  Trees,        \* what /app can be when the container starts
  Workers,      \* the goroutines
  Empty,        \* a slot that was not filled
  MaxChanges    \* bounds the changes of the tree

VARIABLES
  tree,         \* path -> [kind, of]: a file of a content, a link to a path, or none
  expected,     \* the digest of the environment
  where,        \* "list", "hash", "passed", "refused"
  toList,       \* the roots still to be listed
  tasks,        \* the files that were listed
  next,         \* the shared counter
  aborted,      \* the flag workers look at
  firstErr,     \* the first error
  at, job,      \* worker -> where it is, and the task it has taken
  records,      \* the slots: task -> its hash
  \* history
  was,          \* path -> every <<kind, content>> it has had since the start
  changes

attestVars == <<tree, expected, where, toList, tasks, next, aborted, firstErr, at, job, records,
                was, changes>>

\* What the proofs need of the constants.
Assumed ==
  /\ IsFiniteSet(Files) /\ Empty \notin Contents /\ Workers # {}
  /\ \A m \in Manifests : m \in {Blank, Malformed} \/ m \subseteq Files \X Contents
  /\ Roots \in Seq({RootOf[f] : f \in Files})
  /\ \A f \in Files : \E i \in DOMAIN Roots : Roots[i] = RootOf[f]

NoEntry == [kind |-> "none", of |-> "none"]

\* What opening a path inside its root gives: links are followed, but not out
\* of the root.
Read(t, f) ==
  IF t[f].kind = "file" THEN t[f].of
  ELSE IF t[f].kind = "link" /\ RootOf[t[f].of] = RootOf[f] /\ t[t[f].of].kind = "file"
  THEN t[t[f].of].of ELSE Empty

Seen(t) == [f \in Files |-> {<<t[f].kind, Read(t, f)>>}]

Init ==
  /\ tree \in Trees /\ expected \in Manifests
  /\ where = "list" /\ toList = Roots /\ tasks = <<>> /\ next = 1
  /\ aborted = FALSE /\ firstErr = FALSE
  /\ at = [w \in Workers |-> "take"] /\ job = [w \in Workers |-> 0] /\ records = <<>>
  /\ was = Seen(tree) /\ changes = 0

-----------------------------------------------------------------------------
(* Listing *)

\* No digest, or one that is none, and nothing is attested; nor is anything
\* when /app is no directory, which is an error.
Unattested ==
  /\ where = "list" /\ toList = Roots /\ tasks = <<>>
  /\ \/ expected \in {Blank, Malformed} /\ where' = "passed"
     \/ expected \notin {Blank, Malformed} /\ where' = "refused"
  /\ UNCHANGED <<tree, expected, toList, tasks, next, aborted, firstErr, at, job, records, was,
                 changes>>

\* The regular files of one root; a root that is not there has none, and one
\* that cannot be read is an error.
collectAttestTasks ==
  /\ where = "list" /\ toList # <<>> /\ expected \notin {Blank, Malformed}
  /\ \/ /\ LET found == {f \in Files : RootOf[f] = Head(toList) /\ tree[f].kind = "file"}
           IN \E listed \in [1..Cardinality(found) -> found] :
                /\ found = {listed[i] : i \in DOMAIN listed}
                /\ tasks' = tasks \o listed
        /\ toList' = Tail(toList) /\ UNCHANGED where
     \/ where' = "refused" /\ UNCHANGED <<toList, tasks>>
  /\ UNCHANGED <<tree, expected, next, aborted, firstErr, at, job, records, was, changes>>

StartWorkers ==
  /\ where = "list" /\ toList = <<>> /\ expected \notin {Blank, Malformed}
  /\ where' = "hash" /\ records' = [i \in DOMAIN tasks |-> Empty]
  /\ UNCHANGED <<tree, expected, toList, tasks, next, aborted, firstErr, at, job, was, changes>>

-----------------------------------------------------------------------------
(* hashAttestTasks *)

Move(w, step) == at' = [at EXCEPT ![w] = step]

Take(w) ==
  /\ where = "hash" /\ at[w] = "take"
  /\ next' = next + 1
  /\ IF next > Len(tasks) THEN Move(w, "done") /\ UNCHANGED job
     ELSE job' = [job EXCEPT ![w] = next] /\ Move(w, "look")
  /\ UNCHANGED <<tree, expected, where, toList, tasks, aborted, firstErr, records, was, changes>>

\* A worker that sees the flag leaves, and its slot stays as it is.
Look(w) ==
  /\ where = "hash" /\ at[w] = "look"
  /\ Move(w, IF aborted THEN "done" ELSE "hash")
  /\ UNCHANGED <<tree, expected, where, toList, tasks, next, aborted, firstErr, job, records, was,
                 changes>>

\* A file is opened in its root and read; what cannot be is an error.
hashAttestFile(w) ==
  /\ where = "hash" /\ at[w] = "hash"
  /\ \/ /\ Read(tree, tasks[job[w]]) # Empty
        /\ records' = [records EXCEPT ![job[w]] = Read(tree, tasks[job[w]])]
        /\ Move(w, "take") /\ UNCHANGED firstErr
     \/ firstErr' = TRUE /\ Move(w, "raise") /\ UNCHANGED records
  /\ UNCHANGED <<tree, expected, where, toList, tasks, next, aborted, job, was, changes>>

\* The flag is raised after the error was kept.
Raise(w) ==
  /\ where = "hash" /\ at[w] = "raise"
  /\ aborted' = TRUE /\ Move(w, "done")
  /\ UNCHANGED <<tree, expected, where, toList, tasks, next, firstErr, job, records, was, changes>>

attestRootDigest == {<<tasks[i], records[i]>> : i \in DOMAIN tasks}
Waited == \A w \in Workers : at[w] = "done"

\* All workers are done: an error refuses, and so does another digest.
verifyAttestation ==
  /\ where = "hash" /\ Waited
  /\ where' = IF ~firstErr /\ attestRootDigest = expected THEN "passed" ELSE "refused"
  /\ UNCHANGED <<tree, expected, toList, tasks, next, aborted, firstErr, at, job, records, was,
                 changes>>

-----------------------------------------------------------------------------
(* Something else writes to a mounted tree *)

Change(f, entry) ==
  /\ changes < MaxChanges /\ where \in {"list", "hash"}
  /\ entry # tree[f]
  /\ tree' = [tree EXCEPT ![f] = entry]
  /\ was' = [g \in Files |-> was[g] \cup Seen(tree')[g]]
  /\ changes' = changes + 1
  /\ UNCHANGED <<expected, where, toList, tasks, next, aborted, firstErr, at, job, records>>

Entries ==
  {NoEntry} \cup {[kind |-> "file", of |-> c] : c \in Contents}
  \cup {[kind |-> "link", of |-> f] : f \in Files}

Next ==
  \/ Unattested
  \/ collectAttestTasks
  \/ StartWorkers
  \/ \E w \in Workers : Take(w) \/ Look(w) \/ hashAttestFile(w) \/ Raise(w)
  \/ verifyAttestation
  \/ \E f \in Files, entry \in Entries : Change(f, entry)

Spec == Init /\ [][Next]_attestVars

-----------------------------------------------------------------------------
(* Properties *)

TypeOK ==
  /\ tree \in [Files -> Entries] /\ expected \in Manifests
  /\ where \in {"list", "hash", "passed", "refused"}
  /\ tasks \in Seq(Files) /\ next \in Nat \ {0}
  /\ aborted \in BOOLEAN /\ firstErr \in BOOLEAN
  /\ at \in [Workers -> {"take", "look", "hash", "raise", "done"}]
  /\ job \in [Workers -> Nat]
  /\ records \in Seq(Contents \cup {Empty})

Attested == where = "passed" /\ expected \notin {Blank, Malformed}

\* A tree that passes was, file by file, the one the image was built with: each
\* file of the manifest held its bytes at some moment of the attestation, and
\* everything else was at some moment no file (attest.go, 91).
VerdictIsEarned ==
  Attested =>
    \A f \in Files :
      IF \E c \in Contents : <<f, c>> \in expected
      THEN \E c \in Contents, k \in {"file", "link"} : <<f, c>> \in expected /\ <<k, c>> \in was[f]
      ELSE \E k \in {"none", "link"}, c \in Contents \cup {Empty} : <<k, c>> \in was[f]

\* No slot is used that a worker left empty (attest.go, 304 and 335).
SlotsAreFilled ==
  (where = "hash" /\ Waited /\ ~firstErr) => \A i \in DOMAIN tasks : records[i] # Empty

\* A tree that is the manifest's, and that nothing changes or keeps from being
\* read, is not refused.
Untouched(t) == {<<f, t[f].of>> : f \in {g \in Files : t[g].kind = "file"}}
MatchesAreKept ==
  (where = "hash" /\ Waited /\ changes = 0 /\ ~firstErr /\ Untouched(tree) = expected) =>
    attestRootDigest = expected
=============================================================================
