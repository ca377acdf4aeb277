-------------------------------- MODULE Overlay -------------------------------
(***************************************************************************)
(* --asset-overlay: a build carries the immutable client assets of the      *)
(* images it replaces, so that a page loaded from one of them still finds   *)
(* its chunks (core/pipeline.go stage 4.4, adapters/assetoverlay).          *)
(*                                                                         *)
(* Builds of one repository and tag run side by side, and the registry      *)
(* collects images no tag names.                                            *)
(***************************************************************************)
EXTENDS Naturals, Sequences, FiniteSets, SequencesExt

CONSTANTS
  Builds,       \* the builds
  Source,       \* build -> [own, depth, from, squashed]: its client assets, as a
                \* set of <<file, content>>, the generations it asks for, the
                \* images it names instead, and whether its layers can be told apart
  None          \* no image

VARIABLES
  images,       \* digest -> the image: its build is its digest
  live,         \* the digests the registry can still serve
  current,      \* the digest the tag names
  where,        \* build -> where it is
  cursor,       \* build -> what it looks up next
  chain,        \* build -> the digests found, the most recent first
  replaced,     \* build -> the predecessor it will name
  merged,       \* build -> the assets merged so far
  left,         \* build -> the sources still to be merged
  \* history
  looked,       \* build -> the digest the tag named when the build looked
  succeeded     \* digest -> the digest the tag named until then

vars == <<images, live, current, where, cursor, chain, replaced, merged, left, looked, succeeded>>

Unsaid == [b \in Builds |-> None]
Files(assets) == {a[1] : a \in assets}
Assets == UNION {Source[b].own : b \in Builds}
Alike(assets) == \A x, y \in assets : x[1] = y[1] => x[2] = y[2]

\* What the constants are; MCBuildSide checks it with TypeOK.
Assumed ==
  /\ None \notin Builds
  /\ Assets \subseteq Files(Assets) \X {a[2] : a \in Assets}
  /\ \A b \in Builds : /\ Alike(Source[b].own) /\ Source[b].depth \in Nat
                       /\ Source[b].from \in Seq(ToSet(Source[b].from))

Init ==
  /\ images = <<>> /\ live = {} /\ current = None
  /\ where = [b \in Builds |-> "idle"] /\ cursor = Unsaid
  /\ chain = [b \in Builds |-> <<>>] /\ replaced = Unsaid
  /\ merged = [b \in Builds |-> {}] /\ left = [b \in Builds |-> <<>>]
  /\ looked = Unsaid /\ succeeded = Unsaid

Go(b, step) == where' = [where EXCEPT ![b] = step]

\* A build without the flag looks for nothing and names no predecessor; one
\* that is told its sources takes them as they are.
Begin(b) ==
  /\ where[b] = "idle"
  /\ LET named == SubSeq(Source[b].from, 1, IF Len(Source[b].from) < Source[b].depth
                                            THEN Len(Source[b].from) ELSE Source[b].depth)
     IN CASE Source[b].depth = 0 -> Go(b, "push") /\ UNCHANGED <<cursor, chain, left>>
          [] Source[b].depth > 0 /\ Source[b].from # <<>> ->
               /\ IF ToSet(named) \subseteq live
                  THEN /\ chain' = [chain EXCEPT ![b] = named] /\ left' = [left EXCEPT ![b] = named]
                       /\ Go(b, "merge")
                  ELSE Go(b, "failed") /\ UNCHANGED <<chain, left>>
               /\ UNCHANGED cursor
          [] OTHER -> Go(b, "lookup") /\ UNCHANGED <<cursor, chain, left>>
  /\ UNCHANGED <<images, live, current, replaced, merged, looked, succeeded>>

\* The chain is complete: its first image is the one this build replaces.
ChainEnds(b, found) ==
  /\ chain' = [chain EXCEPT ![b] = found]
  /\ replaced' = [replaced EXCEPT ![b] = IF found = <<>> THEN None ELSE found[1]]
  /\ left' = [left EXCEPT ![b] = found]
  /\ Go(b, "merge")
  /\ UNCHANGED cursor

\* One image of the chain: the one the tag names, and then each predecessor,
\* for as long as they are found, have not been seen and are not too many.  A
\* registry that fails is an error for the first, and the end for the others.
ResolvePredecessorChain(b) ==
  /\ where[b] = "lookup"
  /\ LET digest == IF chain[b] = <<>> THEN current ELSE cursor[b]
         found == Append(chain[b], digest)
         next == images[digest].predecessor
     IN \/ /\ digest = None \/ digest \notin live \/ digest \in ToSet(chain[b])
           /\ ChainEnds(b, chain[b])
        \/ /\ digest \in live /\ digest \notin ToSet(chain[b])
           /\ IF next = None \/ Len(found) = Source[b].depth THEN ChainEnds(b, found)
              ELSE /\ chain' = [chain EXCEPT ![b] = found]
                   /\ cursor' = [cursor EXCEPT ![b] = next]
                   /\ UNCHANGED <<where, replaced, left>>
        \/ /\ chain[b] = <<>> /\ Go(b, "failed")
           /\ UNCHANGED <<cursor, chain, replaced, left>>
  /\ looked' = IF chain[b] = <<>> THEN [looked EXCEPT ![b] = current] ELSE looked
  /\ UNCHANGED <<images, live, current, merged, succeeded>>

Overlay(b, own) == own \cup {a \in merged[b] : a[1] \notin Files(own)}

\* An asset that another generation has under the same name must be the same.
extractImmutableAssets(b, assets) ==
  \A a \in assets, m \in merged[b] : a[1] = m[1] => a[2] = m[2]

\* The client layer of one source is merged; an image whose layers cannot be
\* told apart has none.  Any failure ends the build.
ExtractClientImmutableAssets(b) ==
  /\ where[b] = "merge" /\ left[b] # <<>>
  /\ LET image == images[left[b][1]]
         assets == IF image.squashed THEN {} ELSE image.own
     IN IF left[b][1] \in live /\ extractImmutableAssets(b, assets)
        THEN /\ merged' = [merged EXCEPT ![b] = @ \cup {a \in assets : a[1] \notin Files(@)}]
             /\ left' = [left EXCEPT ![b] = Tail(@)] /\ UNCHANGED where
        ELSE /\ Go(b, "failed") /\ merged' = [merged EXCEPT ![b] = {}]
             /\ UNCHANGED left
  /\ UNCHANGED <<images, live, current, cursor, chain, replaced, looked, succeeded>>

MergeEnds(b) ==
  /\ where[b] = "merge" /\ left[b] = <<>>
  /\ Go(b, "push")
  /\ UNCHANGED <<images, live, current, cursor, chain, replaced, merged, left, looked, succeeded>>

\* The image is pushed and the tag moved to it: its own client tree lies over
\* what was merged.
Push(b) ==
  /\ where[b] = "push"
  /\ images' = [d \in DOMAIN images \cup {b} |->
       IF d # b THEN images[d]
       ELSE [own |-> Source[b].own, squashed |-> Source[b].squashed, sources |-> chain[b],
             predecessor |-> replaced[b],
             serves |-> Overlay(b, Source[b].own)]]
  /\ live' = live \cup {b} /\ current' = b
  /\ succeeded' = [succeeded EXCEPT ![b] = current]
  /\ Go(b, "pushed")
  /\ UNCHANGED <<cursor, chain, replaced, merged, left, looked>>

\* The registry collects an image no tag names.
Collect(d) ==
  /\ d \in live /\ d # current
  /\ live' = live \ {d}
  /\ UNCHANGED <<images, current, where, cursor, chain, replaced, merged, left, looked, succeeded>>

Next ==
  \/ \E b \in Builds :
       Begin(b) \/ ResolvePredecessorChain(b) \/ ExtractClientImmutableAssets(b) \/ MergeEnds(b)
       \/ Push(b)
  \/ \E d \in live : Collect(d)

Spec == Init /\ [][Next]_vars

-----------------------------------------------------------------------------
(* Properties *)

TypeOK ==
  /\ DOMAIN images \subseteq Builds /\ live \subseteq DOMAIN images
  /\ current \in live \cup {None}
  /\ where \in [Builds -> {"idle", "lookup", "merge", "push", "pushed", "failed"}]
  /\ cursor \in [Builds -> Builds \cup {None}] /\ replaced \in [Builds -> Builds \cup {None}]
  /\ looked \in [Builds -> Builds \cup {None}] /\ succeeded \in [Builds -> Builds \cup {None}]
  /\ chain \in [Builds -> Seq(DOMAIN images)] /\ left \in [Builds -> Seq(DOMAIN images)]
  /\ merged \in [Builds -> SUBSET Assets]
  /\ \A b \in Builds : Len(chain[b]) <= Source[b].depth

\* The generations before b that an overlay of n can know: those it was told in
\* the annotations, as far back as each names what it did replace.
Generations(b, n) ==
  LET Knows(d, e) == succeeded[d] = e /\ images[d].predecessor = e
  IN {e \in DOMAIN images :
        \E k \in 1 .. n : \E path \in [0 .. k -> DOMAIN images] :
          path[0] = b /\ path[k] = e /\ \A i \in 1 .. k : Knows(path[i - 1], path[i])}

\* A page loaded from one of the last images still finds its assets, as they
\* were, in the image that replaced it: however many builds ran at once, unless
\* the registry had collected one of them, its layers could not be told apart,
\* or a build in between named another predecessor than the one it replaced.
OldPagesFindTheirAssets ==
  \A b \in DOMAIN images :
    LET gone == {d \in DOMAIN images : d \notin live}
    IN (Source[b].from = <<>> /\ gone = {}) =>
         \A d \in Generations(b, Source[b].depth) :
           images[d].squashed \/ \A a \in images[d].own :
             a \in images[b].serves \/ a[1] \in Files(images[b].own)

\* An asset of the sources is never served with the bytes of another.
NothingIsMixed ==
  \A b \in DOMAIN images :
    \A d \in ToSet(images[b].sources) : \A a \in images[d].own, s \in images[b].serves :
      (~images[d].squashed /\ a[1] = s[1] /\ s \notin images[b].own) => a[2] = s[2]

\* A build that looks for its predecessor names the image the tag named when
\* it looked, and that is the one it replaces unless another build has moved
\* the tag in the meantime (ports/packager.go, 297).
LineageIsTrue ==
  \A b \in DOMAIN images :
    /\ (Source[b].depth > 0 /\ Source[b].from = <<>>) => images[b].predecessor = looked[b]
    /\ images[b].predecessor \in {None, succeeded[b]}
       \/ \E c \in DOMAIN images \ {b} : succeeded[c] = images[b].predecessor

-----------------------------------------------------------------------------
(* The inductive invariant behind them *)

LooksUp(b) == Source[b].depth > 0 /\ Source[b].from = <<>>
Done(b) == where[b] \in {"merge", "push", "pushed"}

\* A build that has not looked yet has nothing.
NothingYet(b) ==
  /\ where[b] = "idle" => chain[b] = <<>>
  /\ where[b] \in {"idle", "lookup"} => replaced[b] = None /\ merged[b] = {} /\ left[b] = <<>>
  /\ where[b] = "lookup" => LooksUp(b)
  /\ Source[b].depth = 0 /\ Done(b) => chain[b] = <<>>
  /\ where[b] \in {"push", "pushed"} => left[b] = <<>>
  /\ ~LooksUp(b) => replaced[b] = None

\* A chain begins where the tag was, each of its images names the next, and it
\* ends where it must, unless the registry has collected one.
last(b) == images[chain[b][Len(chain[b])]].predecessor
ChainIsLineage(b) ==
  LooksUp(b) =>
    /\ chain[b] # <<>> => chain[b][1] = looked[b]
    /\ \A i \in 1 .. Len(chain[b]) - 1 : images[chain[b][i]].predecessor = chain[b][i + 1]
    /\ (where[b] = "lookup" /\ chain[b] # <<>>) =>
         cursor[b] = last(b) /\ cursor[b] # None /\ Len(chain[b]) < Source[b].depth
    /\ Done(b) =>
         /\ replaced[b] = IF chain[b] = <<>> THEN None ELSE chain[b][1]
         /\ chain[b] = <<>> => looked[b] = None
         /\ \/ Len(chain[b]) = Source[b].depth \/ chain[b] = <<>>
            \/ last(b) \in {None} \cup ToSet(chain[b]) \/ live # DOMAIN images

\* What is not to be merged any more has been, and nothing came over another.
MergedIsChain(b) ==
  /\ Alike(merged[b])
  /\ Done(b) => \A i \in 1 .. Len(chain[b]) :
       \/ chain[b][i] \in ToSet(left[b])
       \/ images[chain[b][i]].squashed \/ images[chain[b][i]].own \subseteq merged[b]

BuildIsRight(b) == NothingYet(b) /\ ChainIsLineage(b) /\ MergedIsChain(b)

\* An image is what its build pushed.
ImagesAreOfBuilds ==
  /\ \A b \in Builds : b \in DOMAIN images <=> where[b] = "pushed"
  /\ \A b \in DOMAIN images :
       images[b] = [own |-> Source[b].own, squashed |-> Source[b].squashed, sources |-> chain[b],
                    predecessor |-> replaced[b], serves |-> Overlay(b, Source[b].own)]

\* What a build saw is there, or another build has replaced it.
LookedIsReplaced ==
  \A b \in Builds :
    \/ looked[b] = None
    \/ IF b \in DOMAIN images THEN looked[b] = succeeded[b] ELSE looked[b] = current
    \/ \E c \in DOMAIN images \ {b} : succeeded[c] = looked[b]

IInv == (\A b \in Builds : BuildIsRight(b)) /\ ImagesAreOfBuilds /\ LookedIsReplaced
=============================================================================
