------------------------------- MODULE Manifests -------------------------------
(***************************************************************************)
(* pokkum resolve, apply and rollback: pokkum:// references become digests *)
(* of images built, or known from an earlier run, and the annotations of   *)
(* the workload remember the images it had.                                *)
(*                                                                         *)
(* A workload is one container built by Pokkum, with or without another    *)
(* beside it.  An image is <<project, version>>.  A resolved manifest is   *)
(* the record below; the template it comes from has no annotations.        *)
(***************************************************************************)
EXTENDS Integers, Sequences, FiniteSets

CONSTANTS
  Operators,
  Workloads, projectOf, \* [workload -> the project its reference names]
  beside,               \* [workload -> the image of its other container, or NoImage]
  MaxVersion, MaxHistory, MaxApplies
CONSTANTS NoImage, Nothing

Projects == {projectOf[w] : w \in Workloads}
Built == Projects \X (1 .. MaxVersion)

\* What the constants are; MCOperatorSide checks it with TypeOK.
Assumed ==
  /\ MaxVersion \in Nat \ {0} /\ {MaxHistory, MaxApplies} \subseteq Nat
  /\ NoImage \notin Built /\ DOMAIN beside = Workloads

VARIABLES
  code,     \* [project -> version of its source]
  op,       \* [operator -> "idle", "build", "rewrite", "done"]
  resolved, \* [operator -> [project -> resolvedMap]]
  cached,   \* [operator -> [workload -> clusterCache]]
  doc,      \* [operator -> [workload -> what the rewriting gave]]
  cluster,  \* [workload -> its state]
  saved,    \* [workload -> a resolved manifest kept in a file]
  applies,
  stale,    \* history: [operator -> the cluster changed since it began]
  derived,  \* history: [workload -> saved is made from what the cluster has now]
  ran,      \* history: [workload -> the images it ran]
  excused   \* history: [workload -> its history may miss one, for a stated reason]

k8sVars == <<code, op, resolved, cached, doc, cluster, saved, applies, stale, derived, ran,
            excused>>
ghostVars == <<stale, derived, ran, excused>>

NoManifest == [image |-> NoImage, other |-> NoImage, current |-> NoImage, history |-> <<>>]

Init ==
  /\ code = [p \in Projects |-> 1]
  /\ op = [o \in Operators |-> "idle"]
  /\ resolved = [o \in Operators |-> [p \in Projects |-> NoImage]]
  /\ cached = [o \in Operators |-> [w \in Workloads |-> Nothing]]
  /\ doc = [o \in Operators |-> [w \in Workloads |-> NoManifest]]
  /\ cluster = [w \in Workloads |-> NoManifest] /\ saved = [w \in Workloads |-> NoManifest]
  /\ applies = 0
  /\ stale = [o \in Operators |-> FALSE] /\ derived = [w \in Workloads |-> FALSE]
  /\ ran = [w \in Workloads |-> {}] /\ excused = [w \in Workloads |-> FALSE]

-----------------------------------------------------------------------------
(* What is remembered *)

\* Mutant: an image that comes back is remembered twice.
Remember_again(image, history) ==
  LET all == <<image>> \o history
  IN SubSeq(all, 1, IF Len(all) > MaxHistory THEN MaxHistory ELSE Len(all))

Remembered(history) == {history[k] : k \in DOMAIN history}

\* A history without an image, which it names at most once: see ManifestOK.
Without(image, history) ==
  LET at == CHOOSE k \in DOMAIN history : history[k] = image
  IN IF image \notin Remembered(history) THEN history
     ELSE [k \in 1 .. Len(history) - 1 |-> history[IF k < at THEN k ELSE k + 1]]

\* updateImageHistory and rollback: the displaced image first, each image once.
Remember(image, history) ==
  LET all == <<image>> \o Without(image, history)
  IN SubSeq(all, 1, IF Len(all) > MaxHistory THEN MaxHistory ELSE Len(all))

\* findExistingImageForPath: of the workloads with this reference, the first
\* whose live annotation, or else live container, names an image.  A manifest
\* in a file has no annotations to prefer to them.
Existing(p, seen) ==
  LET known == {w \in Workloads : projectOf[w] = p /\ seen[w] # Nothing /\ seen[w] # NoManifest}
      w     == CHOOSE w \in known : TRUE
  IN IF known = {} THEN NoImage
     ELSE IF seen[w].current # NoImage THEN seen[w].current ELSE seen[w].image

-----------------------------------------------------------------------------
(* Resolve *)

Forget(o) ==
  /\ op' = [op EXCEPT ![o] = "idle"]
  /\ resolved' = [resolved EXCEPT ![o] = [p \in Projects |-> NoImage]]
  /\ cached' = [cached EXCEPT ![o] = [w \in Workloads |-> Nothing]]

Push(p) ==
  /\ code[p] < MaxVersion
  /\ code' = [code EXCEPT ![p] = @ + 1]
  /\ UNCHANGED <<op, resolved, cached, doc, cluster, saved, applies, ghostVars>>

\* Pass 1: with --since, the projects that are not affected keep the image the
\* cluster is asked for; a query that fails is not cached and skips nothing.
Decide(o, affected, reachable) ==
  /\ op[o] = "idle" /\ applies < MaxApplies
  /\ LET asked == {w \in Workloads : projectOf[w] \notin affected}
         seen  == [w \in Workloads |-> IF w \in asked \cap reachable THEN cluster[w] ELSE Nothing]
     IN /\ cached' = [cached EXCEPT ![o] = seen]
        /\ resolved' = [resolved EXCEPT ![o] =
             [p \in Projects |-> IF p \in affected THEN NoImage ELSE Existing(p, seen)]]
  /\ op' = [op EXCEPT ![o] = "build"]
  /\ stale' = [stale EXCEPT ![o] = FALSE]
  /\ UNCHANGED <<code, doc, cluster, saved, applies, derived, ran, excused>>

\* Pass 2: the others are built, at the same time; each reads its source when
\* it gets there.
Build(o, p) ==
  /\ op[o] = "build" /\ resolved[o][p] = NoImage
  /\ resolved' = [resolved EXCEPT ![o][p] = <<p, code[p]>>]
  /\ UNCHANGED <<code, op, cached, doc, cluster, saved, applies, ghostVars>>

\* The first to fail stops the others and nothing is emitted.
BuildFails(o) ==
  /\ op[o] = "build" /\ \E p \in Projects : resolved[o][p] = NoImage
  /\ Forget(o)
  /\ UNCHANGED <<code, doc, cluster, saved, applies, ghostVars>>

\* The manifest of one workload, given what is known of it in the cluster: the
\* live annotation, or the live container, is what the new image displaces.
Rewritten(w, image, live) ==
  LET old == IF live.current # NoImage THEN live.current ELSE live.image
  IN [image |-> image, other |-> beside[w], current |-> image,
      history |-> IF old \notin {NoImage, image} THEN Remember(old, live.history)
                  ELSE live.history]

\* The cluster is asked again for what pass 1 did not learn; a workload that
\* cannot be inspected is rewritten as a new one, with a warning.
queryClusterState(o, w, reachable) ==
  IF cached[o][w] # Nothing THEN cached[o][w]
  ELSE IF w \in reachable THEN cluster[w] ELSE NoManifest

\* One that was rolled back still has the annotation of the image it was rolled
\* back from.
Rewrite(o, reachable) ==
  /\ op[o] = "build" /\ \A p \in Projects : resolved[o][p] # NoImage
  /\ LET live(w) == queryClusterState(o, w, reachable)
     IN /\ doc' = [doc EXCEPT ![o] =
                    [w \in Workloads |-> Rewritten(w, resolved[o][projectOf[w]], live(w))]]
        /\ excused' = [w \in Workloads |->
                         \/ excused[w] \/ live(w).current # live(w).image
                         \/ cached[o][w] = Nothing /\ w \notin reachable]
  /\ op' = [op EXCEPT ![o] = "done"]
  /\ UNCHANGED <<code, resolved, cached, cluster, saved, applies, stale, derived, ran>>

\* apply: kubectl apply of every document; another's apply since the rewriting
\* is overwritten.
Apply(o) ==
  /\ op[o] = "done" /\ applies < MaxApplies
  /\ cluster' = doc[o] /\ applies' = applies + 1
  /\ Forget(o) /\ doc' = [doc EXCEPT ![o] = [w \in Workloads |-> NoManifest]]
  /\ ran' = [w \in Workloads |-> ran[w] \cup {doc[o][w].image}]
  /\ stale' = [x \in Operators |-> TRUE]
  /\ derived' = [w \in Workloads |-> FALSE]
  /\ excused' = [w \in Workloads |-> excused[w] \/ stale[o]]
  /\ UNCHANGED <<code, saved>>

\* resolve: the same, to a file.
Save(o) ==
  /\ op[o] = "done"
  /\ saved' = doc[o]
  /\ Forget(o) /\ doc' = [doc EXCEPT ![o] = [w \in Workloads |-> NoManifest]]
  /\ derived' = [w \in Workloads |-> ~stale[o]]
  /\ UNCHANGED <<code, cluster, applies, stale, ran, excused>>

-----------------------------------------------------------------------------
(* Rollback, in a resolved file *)

\* Mutant: the image that is rolled back from is not remembered.
RolledBack_forgets(m, to) ==
  [m EXCEPT !.image = to, !.other = IF @ = NoImage THEN NoImage ELSE to,
            !.history = Without(to, @)]

\* runRollback: every image: line of the file gets the target; the image of the
\* first takes its place in the history.  The current-image annotation stays.
RolledBack(m, to) ==
  IF m.image = to THEN [m EXCEPT !.other = IF @ = NoImage THEN NoImage ELSE to]
  ELSE [m EXCEPT !.image = to, !.other = IF @ = NoImage THEN NoImage ELSE to,
                 !.history = Remember(m.image, Without(to, @))]

Rollback(w, generation) ==
  /\ saved[w] # NoManifest /\ generation \in DOMAIN saved[w].history
  /\ saved' = [saved EXCEPT ![w] = RolledBack(@, saved[w].history[generation])]
  /\ UNCHANGED <<code, op, resolved, cached, doc, cluster, applies, ghostVars>>

\* The operator applies the file.
ApplySaved(w) ==
  /\ saved[w] # NoManifest /\ applies < MaxApplies
  /\ cluster' = [cluster EXCEPT ![w] = saved[w]] /\ applies' = applies + 1
  /\ ran' = [ran EXCEPT ![w] = @ \cup {saved[w].image}]
  /\ stale' = [x \in Operators |-> TRUE]
  /\ excused' = [excused EXCEPT ![w] = @ \/ ~derived[w]]
  /\ UNCHANGED <<code, op, resolved, cached, doc, saved, derived>>

Next ==
  \/ \E p \in Projects : Push(p)
  \/ \E o \in Operators :
       \/ \E affected \in SUBSET Projects, reachable \in SUBSET Workloads :
            Decide(o, affected, reachable)
       \/ \E p \in Projects : Build(o, p)
       \/ \E reachable \in SUBSET Workloads : Rewrite(o, reachable)
       \/ BuildFails(o) \/ Apply(o) \/ Save(o)
  \/ \E w \in Workloads :
       \/ ApplySaved(w)
       \/ \E g \in 1 .. MaxHistory : Rollback(w, g)

Spec == Init /\ [][Next]_k8sVars

-----------------------------------------------------------------------------
\* A manifest names images, and a history none twice and not too many.
Manifest ==
  LET images == Built \cup {NoImage}
  IN [image : images, other : images \cup {beside[w] : w \in Workloads}, current : images,
      history : Seq(Built)]

ManifestOK(m) ==
  /\ m \in Manifest /\ Len(m.history) <= MaxHistory
  /\ \A i, k \in DOMAIN m.history : m.history[i] = m.history[k] => i = k

TypeOK ==
  /\ code \in [Projects -> 1 .. MaxVersion]
  /\ op \in [Operators -> {"idle", "build", "done"}]
  /\ resolved \in [Operators -> [Projects -> Built \cup {NoImage}]]
  /\ cached \in [Operators -> [Workloads -> Manifest \cup {Nothing}]]
  /\ doc \in [Operators -> [Workloads -> Manifest]]
  /\ {cluster, saved} \subseteq [Workloads -> Manifest]
  /\ \A w \in Workloads :
       /\ ManifestOK(cluster[w]) /\ ManifestOK(saved[w])
       /\ \A o \in Operators : /\ ManifestOK(doc[o][w])
                               /\ cached[o][w] = Nothing \/ ManifestOK(cached[o][w])
  /\ applies \in 0 .. MaxApplies /\ excused \in [Workloads -> BOOLEAN]
  /\ stale \in [Operators -> BOOLEAN] /\ derived \in [Workloads -> BOOLEAN]
  /\ ran \in [Workloads -> SUBSET Built] /\ \A w \in Workloads : IsFiniteSet(ran[w])

\* Every image a workload ran can be rolled back to, while the history is long
\* enough: across applies, rollbacks, and resolved files that are kept and
\* applied later.  Excused are a cluster that could not be inspected, an apply
\* or a file from before another apply, and an apply after a rollback, which
\* takes the image rolled back from for the one that ran.
HistoryRemembers ==
  \A w \in Workloads :
    ~excused[w] /\ Cardinality(ran[w]) <= MaxHistory =>
      ran[w] \subseteq {cluster[w].image} \cup Remembered(cluster[w].history)

-----------------------------------------------------------------------------
(* The invariants that HistoryRemembers follows from                         *)

\* A manifest lets everything the workload ran be rolled back to, and names
\* nothing that it did not run but the image it was resolved to.
Remembers(w, m) ==
  ~excused[w] /\ Cardinality(ran[w]) <= MaxHistory =>
    LET named == {m.image} \cup Remembered(m.history)
    IN ran[w] \subseteq named /\ named \subseteq ran[w] \cup {m.current}

\* What runs ran; and an operator that nobody overtook knows what runs.
RunsAreKnown ==
  /\ \A w \in Workloads : cluster[w].image \in ran[w] \cup {NoImage}
  /\ \A w \in Workloads : saved[w] = NoManifest \/ saved[w].image # NoImage
  /\ \A o \in Operators : ~stale[o] /\ op[o] = "build" =>
       \A w \in Workloads : cached[o][w] \in {Nothing, cluster[w]}
  /\ \A o \in Operators : op[o] = "done" =>
       \A w \in Workloads : doc[o][w].image \in Built

\* Each manifest that may come to run: in the cluster, in a file made from what
\* is there, and in the hands of an operator.
ManifestsRemember ==
  \A w \in Workloads :
    /\ Remembers(w, cluster[w])
    /\ derived[w] => Remembers(w, saved[w])
    /\ \A o \in Operators : op[o] = "done" /\ ~stale[o] => Remembers(w, doc[o][w])

IInv == RunsAreKnown /\ ManifestsRemember
=============================================================================
