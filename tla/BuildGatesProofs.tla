--------------------------- MODULE BuildGatesProofs ---------------------------
(***************************************************************************)
(* The gates of a build and what is asked of it, for every project, image,  *)
(* request and tree: the theorems of Prune, Routes, SecretGuard and         *)
(* Scanner, and those of BuildGates over all components of a build.  The    *)
(* theorem of Requests is in RequestsProofs.                                *)
(***************************************************************************)
EXTENDS BuildGates, BuildSideProofs, SequenceTheorems

-----------------------------------------------------------------------------
(* The walk of a tree into a layer *)

\* What it is for a path to be below a directory, letter by letter.
LEMMA BelowADirectory ==
  ASSUME NEW A, NEW d \in Seq(A), NEW B, NEW p \in Seq(B)
  PROVE  Disposal!IsPrefix(Append(d, "/"), p) <=>
           /\ Len(d) + 1 <= Len(p) /\ p[Len(d) + 1] = "/"
           /\ \A i \in 1 .. Len(d) : p[i] = d[i]
  <1> DEFINE slashed == Append(d, "/")
  <1>1. Len(d) \in Nat /\ Len(p) \in Nat
    OBVIOUS
  <1>2. d \in Seq(A \cup {"/"})
    OBVIOUS
  <1>3. /\ slashed \in Seq(A \cup {"/"}) /\ Len(slashed) = Len(d) + 1
        /\ slashed[Len(d) + 1] = "/" /\ \A i \in 1 .. Len(d) : slashed[i] = d[i]
    BY <1>2, AppendProperties
  <1> HIDE DEF slashed
  <1>4. ASSUME Len(slashed) <= Len(p)
        PROVE  SubSeq(slashed, 1, Len(slashed)) = SubSeq(p, 1, Len(slashed))
                 <=> \A i \in 1 .. Len(slashed) : slashed[i] = p[i]
    <2>1. /\ SubSeq(slashed, 1, Len(slashed)) = [i \in 1 .. Len(slashed) |-> slashed[i]]
          /\ SubSeq(p, 1, Len(slashed)) = [i \in 1 .. Len(slashed) |-> p[i]]
      BY <1>1, <1>3, <1>4
    <2>2. QED
      BY <2>1
  <1>5. (\A i \in 1 .. Len(slashed) : slashed[i] = p[i]) <=>
          p[Len(d) + 1] = "/" /\ \A i \in 1 .. Len(d) : p[i] = d[i]
    BY <1>1, <1>3
  <1>6. QED
    BY <1>1, <1>3, <1>4, <1>5 DEF Disposal!IsPrefix, slashed

\* What is below a directory that is below another is below that one.
LEMMA BelowBoth ==
  ASSUME NEW A, NEW c \in Seq(A), NEW B, NEW d \in Seq(B), NEW C, NEW p \in Seq(C),
         Disposal!IsPrefix(Append(c, "/"), d), Disposal!IsPrefix(Append(d, "/"), p)
  PROVE  Disposal!IsPrefix(Append(c, "/"), p)
  <1>1. /\ Len(c) + 1 <= Len(d) /\ d[Len(c) + 1] = "/"
        /\ \A i \in 1 .. Len(c) : d[i] = c[i]
    BY BelowADirectory
  <1>2. /\ Len(d) + 1 <= Len(p) /\ \A i \in 1 .. Len(d) : p[i] = d[i]
    BY BelowADirectory
  <1>3. Len(c) \in Nat /\ Len(d) \in Nat /\ Len(p) \in Nat
    OBVIOUS
  <1>4. /\ Len(c) + 1 <= Len(p) /\ p[Len(c) + 1] = "/"
        /\ \A i \in 1 .. Len(c) : p[i] = c[i]
    BY <1>1, <1>2, <1>3
  <1>5. QED
    BY <1>4, BelowADirectory

\* What the assumptions say of the tree that is walked.
LEMMA WalkIs ==
  ASSUME Disposal!Assumed, Disposal!TypeOK
  PROVE  /\ Len(walk) \in Nat /\ DOMAIN walk = 1 .. Len(walk)
         /\ \A i \in 1 .. Len(walk) : /\ walk[i].path \in Seq(Disposal!ToSet(walk[i].path))
                                      /\ walk[i].path # <<>>
                                      /\ walk[i].kind \in {"file", "dir", "link"}
         /\ \A d \in opts.excludeDirs : d \in Seq(Disposal!ToSet(d)) /\ d # <<>>
         /\ Disposal!WalkOrder(walk)
  <1> HIDE DEF Disposal!WalkOrder
  <1>1. walk \in WalkedTrees /\ opts \in PruneOptions
    BY DEF Disposal!TypeOK
  <1>2. /\ walk \in Seq(Disposal!ToSet(walk)) /\ Disposal!WalkOrder(walk)
        /\ \A e \in Disposal!ToSet(walk) :
             Disposal!IsText(e.path) /\ e.kind \in {"file", "dir", "link"}
    BY <1>1 DEF Disposal!Assumed
  <1>3. Len(walk) \in Nat /\ DOMAIN walk = 1 .. Len(walk)
    BY <1>2
  <1>4. \A i \in 1 .. Len(walk) : walk[i] \in Disposal!ToSet(walk)
    BY <1>3 DEF Disposal!ToSet
  <1>5. \A d \in opts.excludeDirs : Disposal!IsText(d)
    BY <1>1 DEF Disposal!Assumed
  <1>6. QED
    BY <1>2, <1>3, <1>4, <1>5 DEF Disposal!IsText

\* The directory of another layer was met before what is in it, with nothing else
\* between the two.
LEMMA OthersComeFirst ==
  ASSUME Disposal!Assumed, Disposal!TypeOK, NEW k \in 1 .. Len(walk),
         Disposal!OfAnother(walk[k].path)
  PROVE  \E d \in opts.excludeDirs, j \in 1 .. k - 1 :
           /\ walk[j].path = d /\ walk[j].kind = "dir"
           /\ \A i \in j + 1 .. k : Disposal!IsPrefix(Append(d, "/"), walk[i].path)
  <1>1. PICK d \in opts.excludeDirs : Disposal!IsPrefix(Append(d, "/"), walk[k].path)
    BY DEF Disposal!OfAnother
  <1>2. d \in Seq(Disposal!ToSet(d)) /\ walk[k].path \in Seq(Disposal!ToSet(walk[k].path))
    BY WalkIs
  <1>3. /\ Len(d) + 1 <= Len(walk[k].path) /\ walk[k].path[Len(d) + 1] = "/"
        /\ \A i \in 1 .. Len(d) : walk[k].path[i] = d[i]
    BY <1>1, <1>2, BelowADirectory
  <1>4. Len(d) \in Nat /\ Len(walk[k].path) \in Nat /\ DOMAIN walk[k].path = 1 .. Len(walk[k].path)
    BY <1>2
  <1>5. SubSeq(walk[k].path, 1, (Len(d) + 1) - 1) = d
    <2>1. SubSeq(walk[k].path, 1, Len(d)) = [i \in 1 .. Len(d) |-> walk[k].path[i]]
      BY <1>2, <1>3, <1>4
    <2>2. d = [i \in 1 .. Len(d) |-> d[i]]
      BY <1>2
    <2>3. (Len(d) + 1) - 1 = Len(d)
      BY <1>4
    <2>4. QED
      BY <2>1, <2>2, <2>3, <1>3
  <1>6. k \in DOMAIN walk /\ Len(d) + 1 \in DOMAIN walk[k].path
    BY <1>3, <1>4, WalkIs
  <1>7. \E j \in 1 .. k - 1 : /\ walk[j].path = SubSeq(walk[k].path, 1, (Len(d) + 1) - 1)
                              /\ walk[j].kind = "dir"
                              /\ \A i \in j + 1 .. k :
                                   Disposal!IsPrefix(Append(SubSeq(walk[k].path, 1, (Len(d) + 1) - 1), "/"),
                                                     walk[i].path)
    <2> HIDE DEF Disposal!IsPrefix
    <2>1. Disposal!WalkOrder(walk)
      BY WalkIs
    <2>2. QED
      BY <2>1, <1>3, <1>6 DEF Disposal!WalkOrder
  <1>8. QED
    <2> HIDE DEF Disposal!IsPrefix
    <2>1. QED
      BY <1>5, <1>7

\* The invariant of Prune when the walk starts.
LEMMA DisposalInit == Disposal!Assumed /\ Disposal!Init => Disposal!TypeOK /\ Disposal!IInv
  <1> SUFFICES ASSUME Disposal!Assumed, Disposal!Init PROVE Disposal!TypeOK /\ Disposal!IInv
    OBVIOUS
  <1>1. /\ walk \in WalkedTrees /\ opts \in PruneOptions
        /\ visited = 0 /\ below = <<>> /\ layered = {} /\ pruned = {}
    BY DEF Disposal!Init
  <1>2. Len(walk) \in Nat
    BY <1>1 DEF Disposal!Assumed
  <1>3. Disposal!TypeOK
    BY <1>1, <1>2 DEF Disposal!TypeOK
  <1>4. Disposal!SkippedWhole
    BY <1>1 DEF Disposal!SkippedWhole
  <1>5. Disposal!NothingIsDropped
    BY <1>1 DEF Disposal!NothingIsDropped, Disposal!Seen
  <1>6. QED
    BY <1>1, <1>3, <1>4, <1>5 DEF Disposal!IInv

\* What an entry is, and what the walk makes of it.
LEMMA VisitSteps ==
  ASSUME Disposal!Assumed, Disposal!TypeOK, Disposal!IInv, Disposal!Visit
  PROVE  Disposal!TypeOK' /\ Disposal!IInv'
  <1> DEFINE v == visited + 1
             e == walk[v]
             hidden == below # <<>> /\ Disposal!IsPrefix(Append(below, "/"), e.path)
  <1>1. /\ visited \in Nat /\ v \in 1 .. Len(walk) /\ visited' = v /\ visited < v
        /\ walk' = walk /\ opts' = opts /\ Len(walk) \in Nat
    BY WalkIs DEF Disposal!Visit, Disposal!TypeOK
  <1>2. \/ hidden /\ UNCHANGED <<below, layered, pruned>>
        \/ /\ ~hidden /\ e.kind = "dir"
           /\ below' = (IF Disposal!IsExcludedDir(e.path) THEN e.path ELSE <<>>)
           /\ UNCHANGED <<layered, pruned>>
        \/ /\ ~hidden /\ e.kind # "dir"
           /\ pruned' = IF Disposal!IsJunk(e.path) THEN pruned \cup {e.path} ELSE pruned
           /\ layered' = IF ~Disposal!IsJunk(e.path) /\ e.kind = "file"
                         THEN layered \cup {e.path} ELSE layered
           /\ UNCHANGED below
    <2> HIDE DEF Disposal!IsPrefix, Disposal!IsJunk, Disposal!IsExcludedDir
    <2>1. QED
      BY DEF Disposal!Visit
  <1>3. e.kind \in {"file", "dir", "link"}
    BY <1>1, WalkIs
  <1>4. below = <<>> \/ below \in opts.excludeDirs
    BY DEF Disposal!TypeOK
  <1> HIDE DEF v, e
  <1>5. below' = <<>> \/ below' \in opts.excludeDirs
    BY <1>2, <1>4 DEF Disposal!IsExcludedDir
  <1>6. \A kinds : Disposal!Seen(kinds)' =
                     IF e.kind \in kinds THEN Disposal!Seen(kinds) \cup {e.path} ELSE Disposal!Seen(kinds)
    <2> SUFFICES ASSUME NEW kinds
                 PROVE  Disposal!Seen(kinds)' =
                          IF e.kind \in kinds THEN Disposal!Seen(kinds) \cup {e.path} ELSE Disposal!Seen(kinds)
      OBVIOUS
    <2>1. 1 .. v = (1 .. visited) \cup {v}
      BY <1>1 DEF v
    <2>2. Disposal!Seen(kinds)' = {walk[i].path : i \in {j \in 1 .. v : walk[j].kind \in kinds}}
      BY <1>1 DEF Disposal!Seen
    <2>3. {j \in 1 .. v : walk[j].kind \in kinds} =
            {j \in 1 .. visited : walk[j].kind \in kinds} \cup (IF e.kind \in kinds THEN {v} ELSE {})
      BY <2>1 DEF e
    <2>4. QED
      BY <2>2, <2>3 DEF Disposal!Seen, e
  <1>7. Disposal!Files' = IF e.kind # "dir" THEN Disposal!Files \cup {e.path} ELSE Disposal!Files
    BY <1>3, <1>6 DEF Disposal!Files
  <1>8. \A f : Disposal!IsJunk(f)' = Disposal!IsJunk(f) /\ Disposal!OfAnother(f)' = Disposal!OfAnother(f)
    BY <1>1 DEF Disposal!IsJunk, Disposal!Kept, Disposal!OfAnother
  <1>9. e.kind # "dir" /\ ~hidden => ~Disposal!OfAnother(e.path)
    <2> SUFFICES ASSUME e.kind # "dir", ~hidden, Disposal!OfAnother(e.path) PROVE FALSE
      OBVIOUS
    <2>1. PICK d \in opts.excludeDirs, j \in 1 .. v - 1 :
            /\ walk[j].path = d /\ walk[j].kind = "dir"
            /\ \A i \in j + 1 .. v : Disposal!IsPrefix(Append(d, "/"), walk[i].path)
      BY <1>1, OthersComeFirst DEF e
    <2>2. j \in 1 .. visited /\ v \in visited + 1 .. Len(walk)
      BY <1>1 DEF v
    <2>3. below # <<>> /\ Disposal!IsPrefix(Append(below, "/"), walk[v].path)
      <3> HIDE DEF Disposal!IsPrefix
      <3>1. QED
        BY <2>1, <2>2 DEF Disposal!IInv, Disposal!SkippedWhole
    <2>4. QED
      BY <2>3 DEF e
  <1>10. hidden /\ e.kind # "dir" => Disposal!OfAnother(e.path)
    <2> HIDE DEF Disposal!IsPrefix
    <2>1. QED
      BY <1>4 DEF Disposal!OfAnother
  <1> HIDE DEF hidden, Disposal!IsJunk, Disposal!OfAnother, Disposal!Seen, Disposal!Files
  <1>11. Disposal!TypeOK'
    <2>1. (layered \cup pruned)' \subseteq Disposal!Files'
      BY <1>2, <1>7 DEF Disposal!TypeOK
    <2>2. QED
      BY <1>1, <1>5, <2>1 DEF Disposal!TypeOK
  <1>12. (\A f \in layered : ~Disposal!IsJunk(f))' /\ (\A f \in pruned : Disposal!IsJunk(f))'
    BY <1>2, <1>8 DEF Disposal!IInv
  <1>13. Disposal!NothingIsDropped'
    <2>1. {f \in Disposal!Files : Disposal!OfAnother(f)}' = {f \in Disposal!Files' : Disposal!OfAnother(f)}
      BY <1>8
    <2>2. (Disposal!Seen({"file"}) \subseteq layered \cup pruned \cup {f \in Disposal!Files : Disposal!OfAnother(f)})'
      BY <1>2, <1>3, <1>6, <1>7, <1>10, <2>1 DEF Disposal!IInv, Disposal!NothingIsDropped
    <2>3. (layered \subseteq Disposal!Seen({"file"}))'
      BY <1>2, <1>6 DEF Disposal!IInv, Disposal!NothingIsDropped
    <2>4. (\A f \in layered \cup pruned : ~Disposal!OfAnother(f))'
      BY <1>2, <1>8, <1>9 DEF Disposal!IInv, Disposal!NothingIsDropped
    <2>5. (layered \cap pruned = {})'
      BY <1>12
    <2>6. QED
      BY <2>2, <2>3, <2>4, <2>5 DEF Disposal!NothingIsDropped
  <1>14. Disposal!SkippedWhole'
    <2> SUFFICES ASSUME NEW d \in opts.excludeDirs, NEW j \in 1 .. v, NEW k \in v + 1 .. Len(walk),
                        walk[j].path = d, walk[j].kind = "dir",
                        \A i \in j + 1 .. k : Disposal!IsPrefix(Append(d, "/"), walk[i].path)
                 PROVE  below' # <<>> /\ Disposal!IsPrefix(Append(below', "/"), walk[k].path)
      <3> HIDE DEF Disposal!IsPrefix
      <3>1. QED
        BY <1>1 DEF Disposal!SkippedWhole
    <2>1. v \in Nat /\ k \in 1 .. Len(walk) /\ k \in visited + 1 .. Len(walk) /\ k \in j + 1 .. k
      BY <1>1 DEF v
    <2>2. walk[k].path \in Seq(Disposal!ToSet(walk[k].path)) /\ d \in Seq(Disposal!ToSet(d)) /\ d # <<>>
      BY <2>1, WalkIs
    <2> HIDE DEF Disposal!IsPrefix
    <2>3. CASE j = v
      <3>1. CASE hidden
        <4>1. /\ below # <<>> /\ below \in opts.excludeDirs /\ below' = below
              /\ Disposal!IsPrefix(Append(below, "/"), d)
          BY <3>1, <2>3, <1>2, <1>4 DEF hidden, e
        <4>2. below \in Seq(Disposal!ToSet(below))
          BY <4>1, WalkIs
        <4>3. Disposal!IsPrefix(Append(d, "/"), walk[k].path)
          BY <2>1
        <4>4. QED
          BY <4>1, <4>2, <4>3, <2>2, BelowBoth
      <3>2. CASE ~hidden
        BY <3>2, <2>1, <2>2, <2>3, <1>2 DEF e, Disposal!IsExcludedDir
      <3>3. QED
        BY <3>1, <3>2
    <2>4. CASE j # v
      <3>1. j \in 1 .. visited /\ v \in visited + 1 .. Len(walk) /\ v \in j + 1 .. k
        BY <2>4, <2>1, <1>1 DEF v
      <3>2. \A i \in j + 1 .. v : i \in j + 1 .. k
        BY <3>1, <2>1
      <3>3. below # <<>> /\ Disposal!IsPrefix(Append(below, "/"), walk[v].path)
        BY <3>1, <3>2 DEF Disposal!IInv, Disposal!SkippedWhole
      <3>4. below # <<>> /\ Disposal!IsPrefix(Append(below, "/"), walk[k].path)
        BY <3>1, <2>1 DEF Disposal!IInv, Disposal!SkippedWhole
      <3>5. below' = below
        BY <3>3, <1>2 DEF hidden, e
      <3>6. QED
        BY <3>4, <3>5
    <2>5. QED
      BY <2>3, <2>4
  <1>15. QED
    BY <1>11, <1>12, <1>13, <1>14 DEF Disposal!IInv

\* Every file of a walked tree is in the layer, in another, or accounted for as
\* pruned, and in one of them only.
THEOREM NoFileIsDropped ==
  ASSUME Disposal!Assumed
  PROVE  Disposal!Spec => [](Disposal!TypeOK /\ Disposal!NothingIsDropped)
  <1>1. Disposal!TypeOK /\ Disposal!IInv /\ [Disposal!Next]_(Disposal!pruneVars)
          => (Disposal!TypeOK /\ Disposal!IInv)'
    <2>1. ASSUME Disposal!TypeOK, Disposal!IInv, UNCHANGED Disposal!pruneVars
          PROVE  Disposal!TypeOK' /\ Disposal!IInv'
      BY <2>1 DEF Disposal!pruneVars, Disposal!TypeOK, Disposal!IInv, Disposal!SkippedWhole,
                  Disposal!NothingIsDropped, Disposal!Seen, Disposal!Files, Disposal!OfAnother,
                  Disposal!IsJunk, Disposal!Kept
    <2>2. QED
      BY <2>1, VisitSteps DEF Disposal!Next
  <1>2. Disposal!IInv => Disposal!NothingIsDropped
    BY DEF Disposal!IInv
  <1>3. QED
    BY <1>1, <1>2, DisposalInit, PTL DEF Disposal!Spec

-----------------------------------------------------------------------------
(* The routes of a project and the excluded ones *)

\* The directories above a directory.
LEMMA UptoIs ==
  ASSUME NEW S, NEW d \in Seq(S), NEW n \in 0 .. Len(d)
  PROVE  /\ Filter!Upto(d, n) \in Seq(S) /\ Len(Filter!Upto(d, n)) = n
         /\ \A i \in 1 .. n : Filter!Upto(d, n)[i] = d[i]
         /\ n = Len(d) => Filter!Upto(d, n) = d
         /\ n > 0 => Filter!Front(Filter!Upto(d, n)) = Filter!Upto(d, n - 1)
         /\ \A m \in 0 .. n : Filter!Upto(Filter!Upto(d, n), m) = Filter!Upto(d, m)
         /\ n < Len(d) => Filter!IsBelow(d, Filter!Upto(d, n))
  <1>1. Len(d) \in Nat /\ n \in Nat /\ DOMAIN d = 1 .. Len(d) /\ d = [i \in 1 .. Len(d) |-> d[i]]
    OBVIOUS
  <1>2. \A m \in 0 .. Len(d) : Filter!Upto(d, m) = [i \in 1 .. m |-> d[i]]
    BY <1>1 DEF Filter!Upto
  <1>3. \A m \in 0 .. Len(d) : /\ Filter!Upto(d, m) \in Seq(S) /\ Len(Filter!Upto(d, m)) = m
                               /\ \A i \in 1 .. m : Filter!Upto(d, m)[i] = d[i]
    <2> SUFFICES ASSUME NEW m \in 0 .. Len(d)
                 PROVE  /\ Filter!Upto(d, m) \in Seq(S) /\ Len(Filter!Upto(d, m)) = m
                        /\ \A i \in 1 .. m : Filter!Upto(d, m)[i] = d[i]
      OBVIOUS
    <2>1. \A i \in 1 .. m : d[i] \in S
      BY <1>1
    <2>2. m \in Int /\ (1 <= m => m - 1 + 1 = m) /\ (~(1 <= m) => m = 0) /\ m - 1 + 1 = m
          /\ \A i \in 1 .. m : 1 + i - 1 = i
      BY <1>1
    <2>3. /\ SubSeq(d, 1, m) \in Seq(S) /\ Len(SubSeq(d, 1, m)) = IF 1 <= m THEN m - 1 + 1 ELSE 0
          /\ \A i \in 1 .. m - 1 + 1 : SubSeq(d, 1, m)[i] = d[1 + i - 1]
      BY <2>1, <2>2, SubSeqProperties
    <2>4. QED
      BY <2>2, <2>3 DEF Filter!Upto
  <1>4. n = Len(d) => Filter!Upto(d, n) = d
    BY <1>1, <1>2
  <1>5. \A m \in 0 .. n : Filter!Upto(Filter!Upto(d, n), m) = Filter!Upto(d, m)
    <2> SUFFICES ASSUME NEW m \in 0 .. n PROVE Filter!Upto(Filter!Upto(d, n), m) = Filter!Upto(d, m)
      OBVIOUS
    <2>1. m \in 0 .. Len(d) /\ \A i \in 1 .. m : i \in 1 .. n
      BY <1>1
    <2> DEFINE e == Filter!Upto(d, n)
    <2>2. e \in Seq(S) /\ Len(e) = n /\ \A i \in 1 .. n : e[i] = d[i]
      BY <1>3
    <2> HIDE DEF e
    <2>3. SubSeq(e, 1, m) = [i \in 1 .. m |-> e[i]]
      BY <2>1, <2>2
    <2>4. [i \in 1 .. m |-> e[i]] = [i \in 1 .. m |-> d[i]]
      BY <2>1, <2>2
    <2>5. QED
      BY <2>1, <2>3, <2>4, <1>2 DEF Filter!Upto, e
  <1>6. n > 0 => Filter!Front(Filter!Upto(d, n)) = Filter!Upto(d, n - 1)
    <2>1. n > 0 => n - 1 \in 0 .. n
      BY <1>1
    <2>2. Filter!Front(Filter!Upto(d, n)) = Filter!Upto(Filter!Upto(d, n), n - 1)
      BY <1>3 DEF Filter!Front, Filter!Upto
    <2>3. QED
      BY <2>1, <2>2, <1>5
  <1>7. n < Len(d) => Filter!IsBelow(d, Filter!Upto(d, n))
    BY <1>1, <1>3 DEF Filter!IsBelow
  <1>8. QED
    BY <1>3, <1>4, <1>5, <1>6, <1>7

\* What the state of a build of routes is made of.
LEMMA SiteIs ==
  ASSUME Filter!Assumed, Filter!TypeOK
  PROVE  /\ \A d \in site.dirs : d \in Seq(Filter!ToSet(d))
                               /\ \A n \in 0 .. Len(d) : Filter!Upto(d, n) \in site.dirs
         /\ Filter!Pages \subseteq site.dirs
         /\ \A d \in Filter!Pages : site.pages[d] \in IF site.static THEN {"static"} ELSE {"static", "server"}
         /\ site.static \in BOOLEAN /\ site.slash \in BOOLEAN
         /\ DOMAIN patterns \subseteq Nat \ {0}
  <1>1. site \in Sites /\ patterns \in PatternLists
    BY DEF Filter!TypeOK
  <1>2. patterns \in Seq(Filter!ToSet(patterns))
    BY <1>1 DEF Filter!Assumed
  <1>3. DOMAIN patterns \subseteq Nat \ {0}
    BY <1>2
  <1>4. QED
    BY <1>1, <1>3 DEF Filter!Assumed, Filter!Pages

\* What the assumptions say of a file SvelteKit staged.
LEMMA StagedFileIs ==
  ASSUME Filter!Assumed, Filter!TypeOK, NEW f \in site.staged
  PROVE  /\ f.path \in Seq(Filter!ToSet(f.path))
         /\ site.static => Len(f.path) > 1 /\ Filter!Contains(Filter!Categories, f.path[1])
  <1>1. site \in Sites
    BY DEF Filter!TypeOK
  <1>2. \A g \in site.staged : /\ g.path \in Seq(Filter!ToSet(g.path))
                               /\ site.static => Len(g.path) > 1 /\ Filter!Contains(Filter!Categories, g.path[1])
    BY <1>1, Zenon DEF Filter!Assumed
  <1>3. QED
    BY <1>2, Zenon

\* The directories whose level is made anew, one level at a time.
LEMMA LevelOf ==
  ASSUME NEW S, NEW d \in Seq(S), NEW m \in 0 .. Len(d)
  PROVE  Filter!mirrorLevel(Filter!Upto(d, m)) <=>
           \A n \in 1 .. m : /\ Filter!IsDir(Filter!Upto(d, n)) /\ ~Filter!Excluded(Filter!Upto(d, n))
                             /\ Filter!subtreeHasExclusion(Filter!Upto(d, n))
  <1>1. Len(Filter!Upto(d, m)) = m
    BY UptoIs
  <1>2. \A n \in 1 .. m : Filter!Upto(Filter!Upto(d, m), n) = Filter!Upto(d, n)
    BY UptoIs
  <1>3. QED
    BY <1>1, <1>2 DEF Filter!mirrorLevel

\* When a directory above is linked whole.
LEMMA LinkedWholeAt ==
  ASSUME NEW S, NEW d \in Seq(S), NEW n \in 1 .. Len(d)
  PROVE  Filter!LinkedWhole(Filter!Upto(d, n)) <=>
           /\ Filter!mirrorLevel(Filter!Upto(d, n - 1))
           /\ \/ ~Filter!IsDir(Filter!Upto(d, n))
              \/ ~Filter!Excluded(Filter!Upto(d, n)) /\ ~Filter!subtreeHasExclusion(Filter!Upto(d, n))
  <1>1. /\ n \in 0 .. Len(d) /\ n > 0 /\ Len(Filter!Upto(d, n)) = n
        /\ Filter!Front(Filter!Upto(d, n)) = Filter!Upto(d, n - 1)
    <2>1. n \in 0 .. Len(d) /\ n > 0
      OBVIOUS
    <2>2. QED
      BY <2>1, UptoIs
  <1>2. Filter!Upto(d, n) # <<>>
    BY <1>1
  <1>3. QED
    BY <1>1, <1>2 DEF Filter!LinkedWhole

\* What the mirror holds of an excluded route is the root, or reached by a link.
LEMMA MirrorLeavesOut ==
  ASSUME Filter!Assumed, Filter!TypeOK, NEW d \in Filter!BuildFilteredRoutesMirror,
         Filter!MatchesAny(Filter!RouteForDir(d))
  PROVE  d = <<>> \/ Filter!Linked(d)
  <1>1. /\ d \in site.dirs /\ d \in Seq(Filter!ToSet(d)) /\ Len(d) \in Nat
        /\ \A n \in 0 .. Len(d) : Filter!Upto(d, n) \in site.dirs
    BY SiteIs DEF Filter!BuildFilteredRoutesMirror
  <1>2. SUFFICES ASSUME d # <<>>, ~Filter!Linked(d) PROVE FALSE
    OBVIOUS
  <1>3. \A n \in 1 .. Len(d) : Filter!IsDir(Filter!Upto(d, n))
    <2>1. \A n \in 1 .. Len(d) : n \in 0 .. Len(d)
      BY <1>1
    <2>2. QED
      BY <1>1, <1>2, <2>1 DEF Filter!Linked, Filter!IsDir
  <1>4. Len(d) \in 1 .. Len(d) /\ Len(d) \in 0 .. Len(d) /\ Filter!Upto(d, Len(d)) = d
    <2>1. Len(d) \in 1 .. Len(d) /\ Len(d) \in 0 .. Len(d)
      BY <1>1, <1>2
    <2>2. QED
      BY <2>1, <1>1, UptoIs
  <1>5. Filter!Excluded(d)
    BY <1>2, <1>3, <1>4 DEF Filter!Excluded
  <1>6. ~Filter!mirrorLevel(d)
    BY <1>4, <1>5 DEF Filter!mirrorLevel
  <1>7. PICK n \in 1 .. Len(d) : Filter!LinkedWhole(Filter!Upto(d, n))
    BY <1>6 DEF Filter!BuildFilteredRoutesMirror
  <1>8. ~Filter!Excluded(Filter!Upto(d, n)) /\ ~Filter!subtreeHasExclusion(Filter!Upto(d, n))
    BY <1>1, <1>3, <1>7, LinkedWholeAt
  <1>9. n # Len(d)
    BY <1>4, <1>5, <1>8
  <1>10. n < Len(d) /\ n \in 0 .. Len(d)
    BY <1>1, <1>9
  <1>11. Filter!IsBelow(d, Filter!Upto(d, n)) /\ Len(Filter!Upto(d, n)) = n
    BY <1>1, <1>10, UptoIs
  <1>12. \A m \in n + 1 .. Len(d) : Filter!IsDir(Filter!Upto(d, m))
    BY <1>1, <1>3, <1>10
  <1>13. QED
    BY <1>1, <1>5, <1>8, <1>11, <1>12 DEF Filter!subtreeHasExclusion

\* What is not excluded, nor below what is, is in the mirror.
LEMMA MirrorKeeps ==
  ASSUME Filter!Assumed, Filter!TypeOK, NEW d \in site.dirs,
         \A n \in 1 .. Len(d) : ~Filter!Excluded(Filter!Upto(d, n))
  PROVE  d \in Filter!BuildFilteredRoutesMirror
  <1> DEFINE Anew(n) == /\ Filter!IsDir(Filter!Upto(d, n)) /\ ~Filter!Excluded(Filter!Upto(d, n))
                        /\ Filter!subtreeHasExclusion(Filter!Upto(d, n))
             Stops == {n \in 1 .. Len(d) : ~Anew(n)}
  <1>1. d \in Seq(Filter!ToSet(d)) /\ Len(d) \in Nat
    BY SiteIs
  <1>2. CASE Stops = {}
    BY <1>2 DEF Filter!BuildFilteredRoutesMirror, Filter!mirrorLevel
  <1>3. CASE Stops # {}
    <2>1. Stops \in SUBSET Nat
      OBVIOUS
    <2>2. PICK n \in Stops : \A k \in Stops : n <= k
      <3> HIDE DEF Stops
      <3>1. QED
        BY <1>3, <2>1, LeastOf
    <2>3. n \in 1 .. Len(d) /\ ~Anew(n)
      OBVIOUS
    <2>4. \A k \in 1 .. n - 1 : Anew(k)
      <3> SUFFICES ASSUME NEW k \in 1 .. n - 1, ~Anew(k) PROVE FALSE
        OBVIOUS
      <3> HIDE DEF Anew
      <3>1. k \in 1 .. Len(d) /\ ~(n <= k)
        BY <2>3, <1>1
      <3>2. QED
        BY <3>1, <2>2
    <2>5. n - 1 \in 0 .. Len(d)
      BY <2>3, <1>1
    <2>6. Filter!mirrorLevel(Filter!Upto(d, n - 1))
      BY <1>1, <2>4, <2>5, LevelOf
    <2>7. Filter!LinkedWhole(Filter!Upto(d, n))
      BY <1>1, <2>3, <2>6, LinkedWholeAt
    <2>8. QED
      BY <2>3, <2>7 DEF Filter!BuildFilteredRoutesMirror
  <1>4. QED
    BY <1>2, <1>3

\* With a directory the mirror holds those above it.
LEMMA MirrorIsClosed ==
  ASSUME Filter!Assumed, Filter!TypeOK, NEW d \in Filter!BuildFilteredRoutesMirror,
         NEW n \in 0 .. Len(d)
  PROVE  Filter!Upto(d, n) \in Filter!BuildFilteredRoutesMirror
  <1> DEFINE e == Filter!Upto(d, n)
  <1>1. d \in site.dirs /\ d \in Seq(Filter!ToSet(d)) /\ Len(d) \in Nat /\ e \in site.dirs
    BY SiteIs DEF Filter!BuildFilteredRoutesMirror
  <1>2. /\ Len(e) = n /\ \A m \in 0 .. n : Filter!Upto(e, m) = Filter!Upto(d, m)
    BY <1>1, UptoIs
  <1>3. CASE Filter!mirrorLevel(d)
    <2>1. \A m \in 1 .. Len(e) : m \in 1 .. Len(d) /\ Filter!Upto(e, m) = Filter!Upto(d, m)
      BY <1>1, <1>2
    <2>2. Filter!mirrorLevel(e)
      BY <1>3, <2>1 DEF Filter!mirrorLevel
    <2>3. QED
      BY <1>1, <2>2 DEF Filter!BuildFilteredRoutesMirror
  <1>4. CASE ~Filter!mirrorLevel(d)
    <2>1. PICK k \in 1 .. Len(d) : Filter!LinkedWhole(Filter!Upto(d, k))
      BY <1>4 DEF Filter!BuildFilteredRoutesMirror
    <2>2. CASE k <= n
      <3>1. k \in 1 .. Len(e) /\ Filter!Upto(e, k) = Filter!Upto(d, k)
        BY <1>1, <1>2, <2>2
      <3>2. QED
        BY <1>1, <2>1, <3>1 DEF Filter!BuildFilteredRoutesMirror
    <2>3. CASE ~(k <= n)
      <3>1. k - 1 \in 0 .. Len(d) /\ \A m \in 1 .. n : m \in 1 .. k - 1
        BY <1>1, <2>3
      <3>2. Filter!mirrorLevel(Filter!Upto(d, k - 1))
        BY <1>1, <2>1, LinkedWholeAt
      <3>3. \A m \in 1 .. n : /\ Filter!IsDir(Filter!Upto(d, m)) /\ ~Filter!Excluded(Filter!Upto(d, m))
                              /\ Filter!subtreeHasExclusion(Filter!Upto(d, m))
        BY <1>1, <3>1, <3>2, LevelOf
      <3>4. Filter!mirrorLevel(e)
        BY <1>1, <3>3, LevelOf
      <3>5. QED
        BY <1>1, <3>4 DEF Filter!BuildFilteredRoutesMirror
    <2>4. QED
      BY <2>2, <2>3
  <1>5. QED
    BY <1>3, <1>4

\* A directory that is left out is not in the mirror.
LEMMA LeftIsOut ==
  ASSUME Filter!Assumed, Filter!TypeOK, NEW d \in Filter!Left
  PROVE  d \in site.dirs /\ d \notin Filter!BuildFilteredRoutesMirror
  <1>1. /\ d \in site.dirs /\ d # <<>> /\ Filter!mirrorLevel(Filter!Front(d)) /\ Filter!Excluded(d)
        /\ Filter!IsDir(d) /\ d \in Seq(Filter!ToSet(d)) /\ Len(d) \in Nat
    BY SiteIs DEF Filter!Left, Filter!Excluded
  <1>2. Len(d) \in 1 .. Len(d) /\ Len(d) \in 0 .. Len(d) /\ Len(d) - 1 \in 0 .. Len(d)
    BY <1>1
  <1>3. Filter!Upto(d, Len(d)) = d /\ Filter!Front(d) = Filter!Upto(d, Len(d) - 1)
    BY <1>1, <1>2, UptoIs
  <1>4. ~Filter!mirrorLevel(d)
    BY <1>1, <1>2, <1>3 DEF Filter!mirrorLevel
  <1>5. ASSUME NEW n \in 1 .. Len(d), Filter!LinkedWhole(Filter!Upto(d, n))
        PROVE  FALSE
    <2>1. \/ ~Filter!IsDir(Filter!Upto(d, n))
          \/ ~Filter!Excluded(Filter!Upto(d, n)) /\ ~Filter!subtreeHasExclusion(Filter!Upto(d, n))
      BY <1>1, <1>5, LinkedWholeAt
    <2>2. CASE n = Len(d)
      BY <1>1, <1>3, <2>1, <2>2
    <2>3. CASE n # Len(d)
      <3>1. n \in 1 .. Len(d) - 1
        BY <1>1, <2>3
      <3>2. QED
        BY <1>1, <1>2, <1>3, <2>1, <3>1, LevelOf
    <2>4. QED
      BY <2>2, <2>3
  <1>6. QED
    BY <1>1, <1>4, <1>5 DEF Filter!BuildFilteredRoutesMirror

\* The first pattern of those that match: it is one of them, and none of them is
\* before it.
LEMMA FirstHit ==
  ASSUME DOMAIN patterns \subseteq Nat \ {0}, NEW r
  PROVE  /\ Filter!MatchesAny(r) <=> \E i \in DOMAIN patterns : Filter!matches(r, patterns[i])
         /\ Filter!MatchesAny(r) =>
              /\ Filter!matchingPattern(r) \in DOMAIN patterns
              /\ Filter!matches(r, patterns[Filter!matchingPattern(r)])
              /\ \A i \in DOMAIN patterns :
                   Filter!matches(r, patterns[i]) => Filter!matchingPattern(r) <= i
  <1> DEFINE hits == {i \in DOMAIN patterns : Filter!matches(r, patterns[i])}
  <1> HIDE DEF Filter!matches
  <1>1. hits \in SUBSET Nat /\ 0 \notin hits
    OBVIOUS
  <1>2. Filter!matchingPattern(r) = IF hits = {} THEN 0 ELSE CHOOSE i \in hits : \A j \in hits : i <= j
    BY DEF Filter!matchingPattern
  <1>3. ASSUME hits # {}
        PROVE  Filter!matchingPattern(r) \in hits /\ \A j \in hits : Filter!matchingPattern(r) <= j
    <2> HIDE DEF hits
    <2>1. \E i \in hits : \A j \in hits : i <= j
      BY <1>1, <1>3, LeastOf
    <2>2. QED
      BY <1>2, <1>3, <2>1
  <1>4. Filter!MatchesAny(r) <=> hits # {}
    <2> HIDE DEF hits
    <2>1. QED
      BY <1>1, <1>2, <1>3 DEF Filter!MatchesAny
  <1>5. QED
    BY <1>3, <1>4

\* A route is a sequence, whatever its directory is.
LEMMA RouteIs ==
  ASSUME NEW S, NEW d \in Seq(S)
  PROVE  Filter!RouteForDir(d) \in Seq(Range(Filter!RouteForDir(d)))
  <1> DEFINE kept == {i \in DOMAIN d : ~d[i].group}
             seg(k) == CHOOSE i \in kept : Filter!Cardinality({j \in kept : j <= i}) = k
  <1>1. IsFiniteSet(kept)
    <2>1. Len(d) \in Nat /\ DOMAIN d = 1 .. Len(d)
      OBVIOUS
    <2>2. IsFiniteSet(1 .. Len(d))
      BY <2>1, FS_Interval
    <2>3. kept \subseteq 1 .. Len(d)
      BY <2>1
    <2> HIDE DEF kept
    <2>4. QED
      BY <2>2, <2>3, FS_Subset, Zenon
  <1>2. Cardinality(kept) \in Nat
    <2> HIDE DEF kept
    <2>1. QED
      BY <1>1, FS_CardinalityType, Zenon
  <1>3. Filter!Cardinality(kept) \in Nat
    BY <1>2 DEF Filter!Cardinality, Cardinality, Filter!IsFiniteSet, IsFiniteSet
  <1>4. Filter!RouteForDir(d) = [k \in 1 .. Filter!Cardinality(kept) |-> d[seg(k)].name]
    BY DEF Filter!RouteForDir
  <1> HIDE DEF kept, seg
  <1>5. QED
    BY <1>3, <1>4 DEF Range

\* The file of a page stands for the page's route, and is moved from the staging
\* directory to where it is looked for.
LEMMA PageIs ==
  ASSUME Filter!Assumed, Filter!TypeOK, NEW S, NEW r \in Seq(S)
  PROVE  /\ (r = <<>> \/ Filter!Last(r) # "index") => Filter!RouteForFile(Filter!Page(r)) = r
         /\ Filter!Moved(Filter!In("pages", Filter!Page(r))) = Filter!Page(r)
         /\ Filter!In("pages", Filter!Page(r)).path[1] = "pages"
         /\ Len(Filter!In("pages", Filter!Page(r)).path) > 1
         /\ Filter!In("pages", Filter!Page(r)).path[2] = IF r = <<>> THEN "index" ELSE r[1]
  <1> DEFINE path == IF r = <<>> \/ site.slash THEN Append(r, "index") ELSE r
  <1>1. r \in Seq(S \cup {"index"}) /\ Len(r) \in Nat
    OBVIOUS
  <1>2. /\ Append(r, "index") \in Seq(S \cup {"index"}) /\ Len(Append(r, "index")) = Len(r) + 1
        /\ Append(r, "index")[Len(r) + 1] = "index"
        /\ \A i \in 1 .. Len(r) : Append(r, "index")[i] = r[i]
    BY <1>1, AppendProperties
  <1>3. /\ path \in Seq(S \cup {"index"}) /\ Len(path) > 0
        /\ path[1] = IF r = <<>> THEN "index" ELSE r[1]
    <2>1. CASE r = <<>>
      <3>1. path = Append(r, "index") /\ Len(r) = 0
        BY <2>1
      <3>2. QED
        BY <2>1, <3>1, <1>1, <1>2
    <2>2. CASE r # <<>>
      <3>1. Len(r) > 0 /\ 1 \in 1 .. Len(r)
        BY <2>2, <1>1
      <3>2. CASE site.slash
        <4>1. path = Append(r, "index")
          BY <3>2
        <4>2. QED
          BY <2>2, <3>1, <4>1, <1>1, <1>2
      <3>3. CASE ~site.slash
        BY <2>2, <3>1, <3>3, <1>1
      <3>4. QED
        BY <3>2, <3>3
    <2>3. QED
      BY <2>1, <2>2
  <1>4. Filter!Page(r) = [path |-> path, html |-> TRUE, enc |-> FALSE, link |-> FALSE]
    BY DEF Filter!Page, Filter!HTML
  <1>5. (r = <<>> \/ Filter!Last(r) # "index") => Filter!RouteForFile(Filter!Page(r)) = r
    <2> SUFFICES ASSUME r = <<>> \/ Filter!Last(r) # "index"
                 PROVE  Filter!RouteForFile(Filter!Page(r)) = r
      OBVIOUS
    <2>1. CASE r = <<>> \/ site.slash
      <3>1. path = Append(r, "index")
        BY <2>1
      <3>2. Filter!Last(path) = "index"
        BY <3>1, <1>2 DEF Filter!Last
      <3>3. Filter!Front(path) = r
        <4>1. Len(path) - 1 = Len(r) /\ Filter!Front(path) = SubSeq(path, 1, Len(path) - 1)
          BY <3>1, <1>1, <1>2 DEF Filter!Front
        <4>2. SubSeq(path, 1, Len(r)) = [i \in 1 .. Len(r) |-> path[i]]
          BY <3>1, <1>1, <1>2
        <4>3. [i \in 1 .. Len(r) |-> path[i]] = [i \in 1 .. Len(r) |-> r[i]]
          BY <3>1, <1>2
        <4>4. r = [i \in 1 .. Len(r) |-> r[i]]
          OBVIOUS
        <4>5. QED
          BY <4>1, <4>2, <4>3, <4>4
      <3>4. QED
        <4> HIDE DEF path
        <4>1. QED
          BY <1>4, <3>2, <3>3 DEF Filter!RouteForFile
    <2>2. CASE ~(r = <<>> \/ site.slash)
      <3>1. path = r /\ Filter!Last(path) # "index"
        BY <2>2
      <3>2. QED
        <4> HIDE DEF path
        <4>1. QED
          BY <1>4, <3>1 DEF Filter!RouteForFile
    <2>3. QED
      BY <2>1, <2>2
  <1> HIDE DEF path
  <1>6. Filter!In("pages", Filter!Page(r)) =
          [path |-> <<"pages">> \o path, html |-> TRUE, enc |-> FALSE, link |-> FALSE]
    BY <1>4 DEF Filter!In, Filter!Renamed
  <1>7. /\ Len(<<"pages">> \o path) = 1 + Len(path) /\ (<<"pages">> \o path)[1] = "pages"
        /\ (<<"pages">> \o path)[2] = path[1]
        /\ Tail(<<"pages">> \o path) = path
    <2> DEFINE T == S \cup {"index"} \cup {"pages"}
               whole == <<"pages">> \o path
    <2>1. <<"pages">> \in Seq(T) /\ path \in Seq(T) /\ Len(<<"pages">>) = 1 /\ <<"pages">>[1] = "pages"
      BY <1>3
    <2>2. /\ whole \in Seq(T) /\ Len(whole) = Len(<<"pages">>) + Len(path)
          /\ \A i \in 1 .. Len(<<"pages">>) + Len(path) :
               whole[i] = IF i <= Len(<<"pages">>) THEN <<"pages">>[i] ELSE path[i - Len(<<"pages">>)]
      <3> HIDE DEF T
      <3>1. QED
        BY <2>1, ConcatProperties
    <2> HIDE DEF T, whole
    <2>3. Len(path) \in Nat
      BY <1>3
    <2>4. /\ Len(whole) = 1 + Len(path) /\ whole[1] = "pages"
          /\ \A i \in 1 .. Len(path) : whole[i + 1] = path[i]
      BY <2>1, <2>2, <2>3
    <2>5. whole[2] = path[1]
      BY <2>3, <2>4, <1>3
    <2>6. Tail(whole) = path
      <3>1. whole # <<>>
        BY <2>2, <2>3, <2>4
      <3>2. /\ Tail(whole) \in Seq(T) /\ Len(Tail(whole)) = Len(whole) - 1
            /\ \A i \in 1 .. Len(Tail(whole)) : Tail(whole)[i] = whole[i + 1]
        BY <2>2, <3>1, HeadTailProperties
      <3>3. Len(Tail(whole)) = Len(path)
        BY <2>3, <2>4, <3>2
      <3>4. \A i \in 1 .. Len(path) : Tail(whole)[i] = path[i]
        BY <2>4, <3>2, <3>3
      <3>5. QED
        BY <2>1, <3>2, <3>3, <3>4, SeqEqual
    <2>7. QED
      BY <2>4, <2>5, <2>6 DEF whole
  <1>8. Filter!Moved(Filter!In("pages", Filter!Page(r))) = Filter!Page(r)
    <2> DEFINE whole == <<"pages">> \o path
    <2> HIDE DEF whole
    <2>1. Filter!Moved([path |-> whole, html |-> TRUE, enc |-> FALSE, link |-> FALSE]) =
            [path |-> Tail(whole), html |-> TRUE, enc |-> FALSE, link |-> FALSE]
      BY DEF Filter!Moved, Filter!Renamed
    <2>2. QED
      BY <1>4, <1>6, <1>7, <2>1 DEF whole
  <1>9. Len(path) \in Nat /\ Len(path) > 0
    BY <1>3
  <1>10. Filter!In("pages", Filter!Page(r)).path = <<"pages">> \o path
    BY <1>6
  <1>11. QED
    BY <1>3, <1>5, <1>7, <1>8, <1>9, <1>10

\* What is a function of the site and the patterns stays with them.
LEMMA SameSite ==
  ASSUME site' = site, patterns' = patterns
  PROVE  /\ \A r : /\ Filter!matchingPattern(r)' = Filter!matchingPattern(r)
                   /\ Filter!MatchesAny(r)' = Filter!MatchesAny(r)
         /\ \A d : /\ Filter!Excluded(d)' = Filter!Excluded(d)
                   /\ Filter!LinkedWhole(d)' = Filter!LinkedWhole(d)
                   /\ Filter!mirrorLevel(d)' = Filter!mirrorLevel(d)
                   /\ Filter!Linked(d)' = Filter!Linked(d)
         /\ Filter!BuildFilteredRoutesMirror' = Filter!BuildFilteredRoutesMirror
         /\ Filter!Left' = Filter!Left
         /\ Filter!OwnNames' = Filter!OwnNames
         /\ Filter!Pages' = Filter!Pages
         /\ \A r : Filter!Page(r)' = Filter!Page(r)
         /\ routes' = routes => Filter!Staged' = Filter!Staged
  <1>1. \A r : Filter!matchingPattern(r)' = Filter!matchingPattern(r)
    BY DEF Filter!matchingPattern
  <1>2. \A r : Filter!MatchesAny(r)' = Filter!MatchesAny(r)
    BY <1>1 DEF Filter!MatchesAny
  <1>3. \A d : Filter!IsDir(d)' = Filter!IsDir(d)
    BY DEF Filter!IsDir
  <1>4. \A d : Filter!Excluded(d)' = Filter!Excluded(d)
    BY <1>2, <1>3 DEF Filter!Excluded
  <1>5. \A d : Filter!subtreeHasExclusion(d)' = Filter!subtreeHasExclusion(d)
    BY <1>3, <1>4 DEF Filter!subtreeHasExclusion
  <1>6. \A d : Filter!mirrorLevel(d)' = Filter!mirrorLevel(d)
    BY <1>3, <1>4, <1>5 DEF Filter!mirrorLevel
  <1>7. \A d : Filter!LinkedWhole(d)' = Filter!LinkedWhole(d)
    BY <1>3, <1>4, <1>5, <1>6 DEF Filter!LinkedWhole
  <1>8. Filter!BuildFilteredRoutesMirror' = Filter!BuildFilteredRoutesMirror
    BY <1>6, <1>7 DEF Filter!BuildFilteredRoutesMirror
  <1>9. Filter!Left' = Filter!Left
    BY <1>4, <1>6 DEF Filter!Left
  <1>10. \A d : Filter!Linked(d)' = Filter!Linked(d)
    BY DEF Filter!Linked
  <1>11. Filter!Pages' = Filter!Pages
    BY DEF Filter!Pages
  <1>12. Filter!OwnNames' = Filter!OwnNames
    BY <1>11 DEF Filter!OwnNames
  <1>13. \A r : Filter!Page(r)' = Filter!Page(r)
    BY DEF Filter!Page
  <1>14. routes' = routes => Filter!Staged' = Filter!Staged
    BY <1>11, <1>13 DEF Filter!Staged
  <1>15. QED
    BY <1>1, <1>2, <1>4, <1>6, <1>7, <1>8, <1>9, <1>10, <1>11, <1>12, <1>13, <1>14

\* What is said of what is packaged says nothing before.
LEMMA NotYet ==
  turn' # "packaged" => Filter!ExclusionsHold' /\ Filter!OnlyExcludedGoes' /\ Filter!ReportIsTrue'
  BY DEF Filter!ExclusionsHold, Filter!OnlyExcludedGoes, Filter!ReportIsTrue

\* The invariant of Routes before the mirror.
LEMMA FilterInit == Filter!Assumed /\ Filter!Init => Filter!TypeOK /\ Filter!IInv
  <1> SUFFICES ASSUME Filter!Assumed, Filter!Init PROVE Filter!TypeOK /\ Filter!IInv
    OBVIOUS
  <1>1. /\ site \in Sites /\ patterns \in PatternLists /\ turn = "mirror" /\ mirrored = FALSE
        /\ routes = {} /\ category = 1 /\ output = {} /\ bundle = {} /\ report = Filter!NoReport
    BY DEF Filter!Init
  <1>2. category \in 1 .. Len(Filter!Categories) + 1
    BY <1>1 DEF Filter!Categories
  <1>3. Filter!TypeOK
    BY <1>1, <1>2 DEF Filter!TypeOK, Filter!NoReport
  <1>4. Filter!ByTurn /\ Filter!Seen /\ Filter!Built /\ Filter!Merging
    BY <1>1 DEF Filter!ByTurn, Filter!Seen, Filter!Built, Filter!Merging
  <1>5. Filter!ExclusionsHold /\ Filter!OnlyExcludedGoes /\ Filter!ReportIsTrue
    BY <1>1 DEF Filter!ExclusionsHold, Filter!OnlyExcludedGoes, Filter!ReportIsTrue
  <1>6. QED
    BY <1>3, <1>4, <1>5 DEF Filter!IInv

\* The invariant of Routes when the mirror is made.
LEMMA MirrorSteps ==
  ASSUME Filter!Assumed, Filter!TypeOK, Filter!IInv, Filter!Mirror
  PROVE  Filter!TypeOK' /\ Filter!IInv'
  <1>1. /\ turn = "mirror" /\ turn' = "build" /\ mirrored' \in BOOLEAN
        /\ routes' = (IF mirrored' THEN Filter!BuildFilteredRoutesMirror ELSE site.dirs)
        /\ site' = site /\ patterns' = patterns /\ category' = category /\ output' = output
        /\ bundle' = bundle /\ report' = report
    BY DEF Filter!Mirror
  <1>2. /\ site \in Sites /\ patterns \in PatternLists /\ category \in 1 .. Len(Filter!Categories) + 1
        /\ report.removed \cap output = {} /\ report.unmatched \subseteq DOMAIN patterns
    BY DEF Filter!TypeOK
  <1>3. report = Filter!NoReport /\ category = 1
    BY <1>1 DEF Filter!IInv, Filter!ByTurn
  <1>4. Filter!BuildFilteredRoutesMirror \subseteq site.dirs
    BY DEF Filter!BuildFilteredRoutesMirror
  <1>5. Filter!TypeOK'
    BY <1>1, <1>2, <1>4 DEF Filter!TypeOK
  <1>6. Filter!ByTurn'
    BY <1>1, <1>3 DEF Filter!ByTurn
  <1>7. Filter!Seen'
    BY <1>1, SameSite DEF Filter!Seen
  <1>8. Filter!Built' /\ Filter!Merging'
    BY <1>1 DEF Filter!Built, Filter!Merging
  <1>9. QED
    BY <1>1, <1>5, <1>6, <1>7, <1>8, NotYet DEF Filter!IInv

\* The invariant of Routes when SvelteKit builds.
LEMMA BuildSteps ==
  ASSUME Filter!Assumed, Filter!TypeOK, Filter!IInv, Filter!Build
  PROVE  Filter!TypeOK' /\ Filter!IInv'
  <1> DEFINE Static == {Filter!Page(Filter!RouteForDir(d)) :
                          d \in {e \in routes \cap DOMAIN site.pages : site.pages[e] = "static"}}
  <1>1. /\ turn = "build" /\ turn' = (IF site.static THEN "flatten" ELSE "filter")
        /\ output' = IF site.static THEN {Filter!In("pages", f) : f \in Static} \cup site.staged
                     ELSE Static \cup site.staged
        /\ bundle' = {Filter!RouteForDir(d) : d \in {e \in routes \cap DOMAIN site.pages : site.pages[e] = "server"}}
        /\ site' = site /\ patterns' = patterns /\ category' = category /\ mirrored' = mirrored
        /\ routes' = routes /\ report' = report
    BY DEF Filter!Build
  <1>2. /\ site \in Sites /\ patterns \in PatternLists /\ category \in 1 .. Len(Filter!Categories) + 1
        /\ mirrored \in BOOLEAN /\ routes \subseteq site.dirs
        /\ report.unmatched \subseteq DOMAIN patterns
    BY DEF Filter!TypeOK
  <1>3. report = Filter!NoReport /\ category = 1
    BY <1>1 DEF Filter!IInv, Filter!ByTurn
  <1> HIDE DEF Static
  <1>4. Filter!TypeOK'
    <2>1. report'.removed \cap output' = {}
      BY <1>1, <1>3 DEF Filter!NoReport
    <2>2. QED
      BY <1>1, <1>2, <2>1 DEF Filter!TypeOK
  <1>5. Filter!ByTurn'
    BY <1>1, <1>3 DEF Filter!ByTurn, Filter!Categories
  <1>6. Filter!Seen'
    BY <1>1, SameSite DEF Filter!Seen, Filter!IInv
  <1>7. Filter!Built'
    <2>1. bundle' = {Filter!RouteForDir(d) : d \in {e \in routes \cap Filter!Pages : site.pages[e] = "server"}}
      BY <1>1 DEF Filter!Pages
    <2>2. ~site.static => \A d \in routes \cap Filter!Pages :
                            site.pages[d] = "static" => Filter!Page(Filter!RouteForDir(d)) \in output'
      BY <1>1 DEF Filter!Pages, Static
    <2>3. QED
      BY <1>1, <2>1, <2>2, SameSite DEF Filter!Built
  <1>8. Filter!Merging'
    <2> SUFFICES ASSUME site.static, NEW f \in Filter!Staged
                 PROVE  /\ f \in output'
                        /\ \E i \in category' .. Len(Filter!Categories) : f.path[1] = Filter!Categories[i]
      BY <1>1, SameSite DEF Filter!Merging
    <2>1. f \in output'
      <3>1. CASE f \in site.staged
        BY <1>1, <3>1
      <3>2. CASE f \notin site.staged
        <4>1. PICK d \in Filter!Pages \cap routes : f = Filter!In("pages", Filter!Page(Filter!RouteForDir(d)))
          BY <3>2 DEF Filter!Staged
        <4>2. site.pages[d] = "static"
          BY SiteIs
        <4>3. Filter!Page(Filter!RouteForDir(d)) \in Static
          BY <4>1, <4>2 DEF Static, Filter!Pages
        <4>4. QED
          BY <1>1, <4>1, <4>3
      <3>3. QED
        BY <3>1, <3>2
    <2>2. \E i \in 1 .. Len(Filter!Categories) : f.path[1] = Filter!Categories[i]
      <3>1. CASE f \in site.staged
        <4>1. Filter!Contains(Filter!Categories, f.path[1])
          BY <3>1, StagedFileIs
        <4>2. QED
          BY <4>1 DEF Filter!Contains
      <3>2. CASE f \notin site.staged
        <4>1. PICK d \in Filter!Pages \cap routes : f = Filter!In("pages", Filter!Page(Filter!RouteForDir(d)))
          BY <3>2 DEF Filter!Staged
        <4>2. d \in Seq(Filter!ToSet(d))
          BY SiteIs
        <4>3. Filter!RouteForDir(d) \in Seq(Range(Filter!RouteForDir(d)))
          BY <4>2, RouteIs
        <4>4. f.path[1] = "pages"
          BY <4>1, <4>3, PageIs
        <4>5. QED
          BY <4>4 DEF Filter!Categories
      <3>3. QED
        BY <3>1, <3>2
    <2>3. QED
      BY <1>1, <1>3, <2>1, <2>2
  <1>9. turn' # "packaged"
    BY <1>1
  <1>10. QED
    BY <1>4, <1>5, <1>6, <1>7, <1>8, <1>9, NotYet DEF Filter!IInv

\* No file of a static site is in a directory of its staging directory that has
\* the name of one.
LEMMA StagedIs ==
  ASSUME Filter!Assumed, Filter!TypeOK, Filter!OwnNames, site.static, NEW f \in Filter!Staged
  PROVE  /\ Len(f.path) > 1 /\ Filter!Moved(f).path = Tail(f.path) /\ Filter!Moved(f).path[1] = f.path[2]
         /\ \A i \in 1 .. Len(Filter!Categories) : f.path[2] # Filter!Categories[i]
  <1> DEFINE Own(x) == \A i \in 1 .. Len(Filter!Categories) : x # Filter!Categories[i]
  <1>1. Filter!Moved(f).path = Tail(f.path)
    BY DEF Filter!Moved, Filter!Renamed
  <1>2. CASE f \in site.staged
    <2>1. f.path \in Seq(Filter!ToSet(f.path)) /\ Len(f.path) > 1
      BY <1>2, StagedFileIs
    <2>2. ~Filter!Contains(Filter!Categories, f.path[2])
      BY <1>2 DEF Filter!OwnNames
    <2>3. Own(f.path[2])
      BY <2>2 DEF Filter!Contains
    <2>4. Len(f.path) \in Nat /\ f.path # <<>>
      BY <2>1
    <2>5. /\ Len(Tail(f.path)) = Len(f.path) - 1
          /\ \A i \in 1 .. Len(Tail(f.path)) : Tail(f.path)[i] = f.path[i + 1]
      BY <2>1, <2>4, HeadTailProperties
    <2>6. Tail(f.path)[1] = f.path[2]
      BY <2>1, <2>4, <2>5
    <2>7. QED
      BY <1>1, <2>1, <2>3, <2>6
  <1>3. CASE f \notin site.staged
    <2>1. PICK d \in Filter!Pages \cap routes : f = Filter!In("pages", Filter!Page(Filter!RouteForDir(d)))
      BY <1>3 DEF Filter!Staged
    <2> DEFINE r == Filter!RouteForDir(d)
    <2>2. d \in Seq(Filter!ToSet(d))
      BY <2>1, SiteIs
    <2>3. r \in Seq(Range(r))
      BY <2>2, RouteIs
    <2>4. r = <<>> \/ ~Filter!Contains(Filter!Categories, r[1])
      BY <2>1 DEF Filter!OwnNames
    <2> HIDE DEF r
    <2>5. f = Filter!In("pages", Filter!Page(r))
      BY <2>1 DEF r
    <2>6. /\ Len(f.path) > 1 /\ f.path[2] = (IF r = <<>> THEN "index" ELSE r[1])
          /\ Filter!Moved(f) = Filter!Page(r)
      BY <2>3, <2>5, PageIs
    <2>7. f.path = <<"pages">> \o Filter!Page(r).path
      BY <2>5 DEF Filter!In, Filter!Renamed
    <2>8. Own(f.path[2])
      <3>1. CASE r = <<>>
        BY <3>1, <2>6 DEF Filter!Categories
      <3>2. CASE r # <<>>
        <4>1. f.path[2] = r[1] /\ ~Filter!Contains(Filter!Categories, r[1])
          BY <3>2, <2>4, <2>6
        <4>2. QED
          BY <4>1 DEF Filter!Contains
      <3>3. QED
        BY <3>1, <3>2
    <2>9. Filter!Moved(f).path[1] = f.path[2]
      <3>1. Filter!Page(r).path = IF r = <<>> \/ site.slash THEN Append(r, "index") ELSE r
        BY DEF Filter!Page, Filter!HTML
      <3>2. Filter!Page(r).path[1] = IF r = <<>> THEN "index" ELSE r[1]
        <4>1. r \in Seq(Range(r) \cup {"index"}) /\ Len(r) \in Nat
          BY <2>3
        <4>2. /\ Append(r, "index")[Len(r) + 1] = "index"
              /\ \A i \in 1 .. Len(r) : Append(r, "index")[i] = r[i]
          BY <4>1, AppendProperties
        <4>3. CASE r = <<>>
          <5>1. Len(r) + 1 = 1
            BY <4>3
          <5>2. QED
            BY <3>1, <4>2, <4>3, <5>1
        <4>4. CASE r # <<>>
          <5>1. 1 \in 1 .. Len(r)
            BY <4>1, <4>4
          <5>2. QED
            BY <3>1, <4>2, <4>4, <5>1
        <4>5. QED
          BY <4>3, <4>4
      <3>3. QED
        BY <2>6, <3>2
    <2>10. QED
      BY <1>1, <2>6, <2>8, <2>9
  <1>4. QED
    BY <1>2, <1>3

\* The invariant of Routes when a staging directory is merged.
LEMMA FlattenSteps ==
  ASSUME Filter!Assumed, Filter!TypeOK, Filter!IInv, Filter!FlattenPrerenderedOutput
  PROVE  Filter!TypeOK' /\ Filter!IInv'
  <1> DEFINE c == Filter!Categories[category]
             Walked == {f \in output : f.path[1] = c /\ Len(f.path) > 1}
             Taken == {f \in Walked : Filter!Moved(f) \in output}
             Up == {g \in Walked : g.path[2] # c \/ Len(g.path) = 2}
  <1>1. /\ turn = "flatten" /\ site' = site /\ patterns' = patterns /\ mirrored' = mirrored
        /\ routes' = routes /\ bundle' = bundle /\ report' = report
        /\ \/ turn' = "failed" /\ category' = category /\ output' = output
           \/ /\ output' = (output \ Walked) \cup {Filter!Moved(f) : f \in Up}
              /\ category' = category + 1
              /\ turn' = IF category = Len(Filter!Categories) THEN "filter" ELSE "flatten"
    BY DEF Filter!FlattenPrerenderedOutput
  <1>2. /\ site \in Sites /\ patterns \in PatternLists
        /\ mirrored \in BOOLEAN /\ routes \subseteq site.dirs
        /\ report.unmatched \subseteq DOMAIN patterns
    BY DEF Filter!TypeOK
  <1>3. report = Filter!NoReport /\ site.static /\ category <= Len(Filter!Categories)
    BY <1>1 DEF Filter!IInv, Filter!ByTurn
  <1>4. Len(Filter!Categories) = 3 /\ category \in 1 .. 3
    <2>1. Len(Filter!Categories) = 3
      BY DEF Filter!Categories
    <2>2. QED
      BY <2>1, <1>3 DEF Filter!TypeOK
  <1> HIDE DEF Walked, Taken, Up
  <1>5. category' \in 1 .. 4 /\ turn' \in {"flatten", "filter", "failed"}
    BY <1>1, <1>4
  <1>6. Filter!TypeOK'
    <2>1. report'.removed \cap output' = {}
      BY <1>1, <1>3 DEF Filter!NoReport
    <2>2. category' \in 1 .. Len(Filter!Categories) + 1
      BY <1>4, <1>5
    <2>3. turn' \in {"mirror", "build", "flatten", "filter", "packaged", "failed"}
      BY <1>5
    <2>4. QED
      BY <1>1, <1>2, <2>1, <2>2, <2>3 DEF Filter!TypeOK
  <1>7. Filter!ByTurn'
    <2>1. turn' = "flatten" => category' <= Len(Filter!Categories)
      BY <1>1, <1>4
    <2>2. turn' = "filter" => category' > Len(Filter!Categories)
      BY <1>1, <1>4
    <2>3. QED
      BY <1>1, <1>3, <1>5, <2>1, <2>2 DEF Filter!ByTurn
  <1>8. Filter!Seen'
    BY <1>1, SameSite DEF Filter!Seen, Filter!IInv
  <1>9. Filter!Built'
    <2>1. bundle' = {Filter!RouteForDir(d) : d \in {e \in routes \cap Filter!Pages : site.pages[e] = "server"}}
      BY <1>1 DEF Filter!IInv, Filter!Built
    <2>2. QED
      BY <1>1, <1>3, <2>1, SameSite DEF Filter!Built
  <1>10. Filter!Merging'
    <2> SUFFICES ASSUME Filter!OwnNames, turn' \in {"flatten", "filter"}, NEW f \in Filter!Staged
                 PROVE  IF \E i \in category' .. 3 : f.path[1] = Filter!Categories[i]
                        THEN f \in output' ELSE Filter!Moved(f) \in output'
      BY <1>1, <1>4, SameSite DEF Filter!Merging
    <2>1. IF \E i \in category .. 3 : f.path[1] = Filter!Categories[i]
          THEN f \in output ELSE Filter!Moved(f) \in output
      BY <1>1, <1>3, <1>4 DEF Filter!IInv, Filter!Merging
    <2>2. /\ output' = (output \ Walked) \cup {Filter!Moved(g) : g \in Up}
          /\ category' = category + 1
      BY <1>1
    <2>3. /\ Len(f.path) > 1 /\ Filter!Moved(f).path[1] = f.path[2]
          /\ \A i \in 1 .. 3 : f.path[2] # Filter!Categories[i]
      BY <1>3, <1>4, StagedIs
    <2>4. f.path[2] # c
      BY <1>4, <2>3
    <2>5. CASE f.path[1] = c
      <3>1. category \in category .. 3
        BY <1>4
      <3>2. f \in output
        BY <2>1, <2>5, <3>1
      <3>3. f \in Up
        BY <2>3, <2>4, <2>5, <3>2 DEF Up, Walked
      <3>4. Filter!Moved(f) \in output'
        BY <2>2, <3>3
      <3>5. ~\E i \in category' .. 3 : f.path[1] = Filter!Categories[i]
        <4>1. Filter!Categories[1] # Filter!Categories[2] /\ Filter!Categories[2] # Filter!Categories[3]
              /\ Filter!Categories[1] # Filter!Categories[3]
          BY DEF Filter!Categories
        <4>2. \A i \in category' .. 3 : i \in 1 .. 3 /\ i # category
          BY <1>4, <2>2
        <4>3. \A i, j \in 1 .. 3 : i # j => Filter!Categories[i] # Filter!Categories[j]
          BY <4>1
        <4>4. QED
          BY <1>4, <2>5, <4>2, <4>3
      <3>6. QED
        BY <3>4, <3>5
    <2>6. CASE f.path[1] # c
      <3>1. (\E i \in category' .. 3 : f.path[1] = Filter!Categories[i])
              <=> (\E i \in category .. 3 : f.path[1] = Filter!Categories[i])
        <4>1. \A i \in category' .. 3 : i \in category .. 3
          BY <1>4, <2>2
        <4>2. \A i \in category .. 3 : i = category \/ i \in category' .. 3
          BY <1>4, <2>2
        <4>3. QED
          BY <2>6, <4>1, <4>2
      <3>2. CASE \E i \in category .. 3 : f.path[1] = Filter!Categories[i]
        <4>1. f \in output /\ f \notin Walked
          BY <2>1, <2>6, <3>2 DEF Walked
        <4>2. QED
          BY <2>2, <3>1, <3>2, <4>1
      <3>3. CASE ~\E i \in category .. 3 : f.path[1] = Filter!Categories[i]
        <4>1. Filter!Moved(f) \in output /\ Filter!Moved(f) \notin Walked
          BY <2>1, <2>3, <2>4, <3>3 DEF Walked
        <4>2. QED
          BY <2>2, <3>1, <3>3, <4>1
      <3>4. QED
        BY <3>2, <3>3
    <2>7. QED
      BY <2>5, <2>6
  <1>11. turn' # "packaged"
    BY <1>5
  <1>12. QED
    BY <1>6, <1>7, <1>8, <1>9, <1>10, <1>11, NotYet DEF Filter!IInv

\* Merging loses nothing: every page the build saw is where it is looked for.
LEMMA MergedIs ==
  ASSUME Filter!Assumed, Filter!TypeOK, Filter!IInv, turn = "filter", site.static, Filter!OwnNames
  PROVE  /\ \A d \in Filter!Pages \cap routes : Filter!Page(Filter!RouteForDir(d)) \in output
         /\ \A f \in site.staged : Filter!Moved(f) \in output
  <1>1. \A i \in category .. Len(Filter!Categories) : FALSE
    <2>1. category \in Nat /\ Len(Filter!Categories) = 3
      BY DEF Filter!TypeOK, Filter!Categories
    <2>2. category > Len(Filter!Categories)
      BY DEF Filter!IInv, Filter!ByTurn
    <2>3. QED
      BY <2>1, <2>2
  <1>2. \A f \in Filter!Staged : Filter!Moved(f) \in output
    BY <1>1 DEF Filter!IInv, Filter!Merging
  <1>3. ASSUME NEW d \in Filter!Pages \cap routes
        PROVE  Filter!Page(Filter!RouteForDir(d)) \in output
    <2>1. d \in Seq(Filter!ToSet(d))
      BY SiteIs
    <2>2. Filter!RouteForDir(d) \in Seq(Range(Filter!RouteForDir(d)))
      BY <2>1, RouteIs
    <2>3. Filter!Moved(Filter!In("pages", Filter!Page(Filter!RouteForDir(d)))) = Filter!Page(Filter!RouteForDir(d))
      BY <2>2, PageIs
    <2>4. Filter!In("pages", Filter!Page(Filter!RouteForDir(d))) \in Filter!Staged
      BY DEF Filter!Staged
    <2>5. QED
      BY <1>2, <2>3, <2>4
  <1>4. \A f \in site.staged : Filter!Moved(f) \in output
    BY <1>2 DEF Filter!Staged
  <1>5. QED
    BY <1>3, <1>4

\* The invariant of Routes when excluded files are removed.
LEMMA ExclusionSteps ==
  ASSUME Filter!Assumed, Filter!TypeOK, Filter!IInv, Filter!ApplyExclusions
  PROVE  Filter!TypeOK' /\ Filter!IInv'
  <1>1. /\ turn = "filter" /\ site' = site /\ patterns' = patterns /\ mirrored' = mirrored
        /\ routes' = routes /\ bundle' = bundle /\ category' = category
    BY DEF Filter!ApplyExclusions
  <1>2. /\ site \in Sites /\ patterns \in PatternLists
        /\ mirrored \in BOOLEAN /\ routes \subseteq site.dirs
        /\ category \in 1 .. Len(Filter!Categories) + 1
        /\ report.removed \cap output = {} /\ report.unmatched \subseteq DOMAIN patterns
    BY DEF Filter!TypeOK
  <1>3. report = Filter!NoReport
    BY <1>1 DEF Filter!IInv, Filter!ByTurn
  <1>4. Filter!Seen' /\ Filter!Merging' /\ Filter!Built'
    <2>1. turn' \in {"packaged", "failed"}
      BY DEF Filter!ApplyExclusions
    <2>2. QED
      BY <1>1, <2>1, SameSite DEF Filter!Seen, Filter!Merging, Filter!Built, Filter!IInv
  <1>5. CASE turn' = "failed" /\ output' = output /\ report' = report
    <2>1. Filter!TypeOK'
      BY <1>1, <1>2, <1>5 DEF Filter!TypeOK
    <2>2. Filter!ByTurn'
      BY <1>1, <1>3, <1>5 DEF Filter!ByTurn
    <2>3. QED
      BY <1>4, <1>5, <2>1, <2>2, NotYet DEF Filter!IInv
  <1>6. CASE /\ turn' = "packaged" /\ output' = output \ Filter!RemovedFiles
             /\ report' = [removed |-> Filter!RemovedFiles,
                           skipped |-> Filter!Matched \ Filter!RemovedFiles,
                           unmatched |-> Filter!filterHandledPatterns,
                           dead |-> Filter!FindDeadLinks(output')]
    <2>1. /\ report'.removed = Filter!RemovedFiles
          /\ report'.skipped = Filter!Matched \ Filter!RemovedFiles
          /\ report'.unmatched = Filter!filterHandledPatterns
          /\ report'.dead = Filter!FindDeadLinks(output')
      BY <1>6
    <2>2. Filter!filterHandledPatterns \subseteq DOMAIN patterns
      BY DEF Filter!filterHandledPatterns, Filter!UnmatchedPatterns
    <2>3. Filter!TypeOK'
      BY <1>1, <1>2, <1>6, <2>1, <2>2 DEF Filter!TypeOK
    <2>4. Filter!ByTurn'
      BY <1>1, <1>6 DEF Filter!ByTurn
    <2>5. DOMAIN patterns \subseteq Nat \ {0} /\ Filter!Pages \subseteq site.dirs
      BY SiteIs
    <2>6. Filter!ExclusionsHold'
      <3>1. \A f \in output' : Filter!MatchesAny(Filter!RouteForFile(f)) => f \in report'.skipped
        BY <1>6, <2>1 DEF Filter!RemovedFiles, Filter!Matched
      <3>2. mirrored => routes = Filter!BuildFilteredRoutesMirror
        BY <1>1 DEF Filter!IInv, Filter!Seen
      <3>3. ASSUME mirrored, NEW d \in routes, Filter!MatchesAny(Filter!RouteForDir(d))
            PROVE  d = <<>> \/ Filter!Linked(d)
        BY <3>2, <3>3, MirrorLeavesOut
      <3>4. QED
        BY <1>1, <3>1, <3>3, SameSite DEF Filter!ExclusionsHold
    <2>7. Filter!OnlyExcludedGoes'
      <3>1. routes = IF mirrored THEN Filter!BuildFilteredRoutesMirror ELSE site.dirs
        BY <1>1 DEF Filter!IInv, Filter!Seen
      <3>2. \A d \in routes : \A n \in 0 .. Len(d) : Filter!Upto(d, n) \in routes
        <4>1. CASE mirrored
          BY <3>1, <4>1, MirrorIsClosed
        <4>2. CASE ~mirrored
          BY <3>1, <4>2, SiteIs
        <4>3. QED
          BY <4>1, <4>2
      <3>3. ASSUME Filter!OwnNames, NEW d \in Filter!Pages,
                   ~Filter!MatchesAny(Filter!RouteForDir(d)),
                   ~(mirrored /\ \E n \in 1 .. Len(d) : Filter!Excluded(Filter!Upto(d, n)))
            PROVE  \/ site.pages[d] = "server" /\ Filter!RouteForDir(d) \in bundle
                   \/ site.pages[d] = "static" /\ Filter!Page(Filter!RouteForDir(d)) \in output'
        <4> DEFINE r == Filter!RouteForDir(d)
        <4>1. d \in site.dirs /\ d \in Seq(Filter!ToSet(d))
          BY <2>5, SiteIs
        <4>2. d \in routes
          BY <3>1, <3>3, <4>1, MirrorKeeps
        <4>3. r \in Seq(Range(r))
          BY <4>1, RouteIs
        <4>4. r = <<>> \/ Filter!Last(r) # "index"
          BY <3>3 DEF Filter!OwnNames
        <4> HIDE DEF r
        <4>5. Filter!RouteForFile(Filter!Page(r)) = r
          BY <4>3, <4>4, PageIs
        <4>6. site.pages[d] = "server" => r \in bundle
          BY <1>1, <4>2 DEF Filter!IInv, Filter!Built, r
        <4>7. site.pages[d] = "static" => Filter!Page(r) \in output
          <5>1. CASE site.static
            BY <1>1, <3>3, <4>2, <5>1, MergedIs DEF r
          <5>2. CASE ~site.static
            BY <1>1, <4>2, <5>2 DEF Filter!IInv, Filter!Built, r
          <5>3. QED
            BY <5>1, <5>2
        <4>8. Filter!Page(r) \notin Filter!RemovedFiles
          BY <3>3, <4>5 DEF Filter!RemovedFiles, Filter!Matched, r
        <4>9. site.pages[d] \in {"static", "server"}
          BY SiteIs
        <4>10. QED
          BY <1>6, <4>6, <4>7, <4>8, <4>9 DEF r
      <3>4. QED
        BY <1>1, <3>2, <3>3, SameSite DEF Filter!OnlyExcludedGoes, Filter!LeftOut
    <2>8. Filter!ReportIsTrue'
      <3> DEFINE At(f) == Filter!matchingPattern(Filter!RouteForFile(f))
                 Fits(f, i) == Filter!matches(Filter!RouteForFile(f), patterns[i])
      <3>1. \A f \in Filter!Matched : /\ At(f) \in DOMAIN patterns /\ Fits(f, At(f))
                                      /\ \A i \in DOMAIN patterns : Fits(f, i) => At(f) <= i
        BY <2>5, FirstHit DEF Filter!Matched
      <3>2. Filter!RemovedFiles \cup (Filter!Matched \ Filter!RemovedFiles) = Filter!Matched
        BY DEF Filter!RemovedFiles
      <3>3. \A d \in Filter!Left : d \in site.dirs /\ d \notin Filter!BuildFilteredRoutesMirror
        BY LeftIsOut
      <3>4. mirrored => routes = Filter!BuildFilteredRoutesMirror
        BY <1>1 DEF Filter!IInv, Filter!Seen
      <3> HIDE DEF At, Fits
      <3>5. ASSUME NEW i \in Filter!filterHandledPatterns, NEW f \in Filter!RemovedFiles, Fits(f, i)
            PROVE  At(f) < i
        <4>1. i \in DOMAIN patterns /\ f \in Filter!Matched /\ patterns[At(f)] # patterns[i]
          BY DEF Filter!filterHandledPatterns, Filter!UnmatchedPatterns, Filter!RemovedFiles, At
        <4>2. At(f) <= i /\ At(f) # i /\ At(f) \in Nat /\ i \in Nat
          BY <3>1, <3>5, <4>1, <2>5
        <4>3. QED
          BY <4>2
      <3>6. ASSUME mirrored, NEW i \in Filter!filterHandledPatterns, NEW d \in Filter!Left
            PROVE  ~Filter!matches(Filter!RouteForDir(d), patterns[i])
        BY <3>6 DEF Filter!filterHandledPatterns
      <3>7. ASSUME NEW i \in DOMAIN patterns \ Filter!filterHandledPatterns
            PROVE  \/ \E f \in Filter!Matched : Fits(f, i)
                   \/ \E d \in site.dirs \ routes : Filter!matches(Filter!RouteForDir(d), patterns[i])
        <4>1. CASE i \in Filter!UnmatchedPatterns
          <5>1. PICK d \in Filter!Left : mirrored /\ Filter!matches(Filter!RouteForDir(d), patterns[i])
            BY <4>1 DEF Filter!filterHandledPatterns
          <5>2. d \in site.dirs \ routes
            BY <3>3, <3>4, <5>1
          <5>3. QED
            BY <5>1, <5>2
        <4>2. CASE i \notin Filter!UnmatchedPatterns
          <5>1. PICK f \in Filter!Matched : patterns[At(f)] = patterns[i]
            BY <4>2 DEF Filter!UnmatchedPatterns, At
          <5>2. Fits(f, i)
            BY <3>1, <5>1 DEF Fits
          <5>3. QED
            BY <5>2
        <4>3. QED
          BY <4>1, <4>2
      <3>8. \A x \in Filter!FindDeadLinks(output') : x[1] \in output'
        BY DEF Filter!FindDeadLinks
      <3>9. \A i \in report'.unmatched : \A f \in report'.removed :
              Filter!matches(Filter!RouteForFile(f), patterns[i])
                => Filter!matchingPattern(Filter!RouteForFile(f)) < i
        BY <2>1, <3>5 DEF At, Fits
      <3>10. mirrored => \A i \in report'.unmatched, d \in site.dirs \ routes :
                           ~(d \in Filter!Left /\ Filter!matches(Filter!RouteForDir(d), patterns[i]))
        BY <2>1, <3>6
      <3>11. \A i \in DOMAIN patterns \ report'.unmatched :
               \/ \E f \in report'.removed \cup report'.skipped :
                    Filter!matches(Filter!RouteForFile(f), patterns[i])
               \/ \E d \in site.dirs \ routes : Filter!matches(Filter!RouteForDir(d), patterns[i])
        BY <2>1, <3>2, <3>7 DEF Fits
      <3>12. \A x \in report'.dead : x[1] \in output'
        BY <2>1, <3>8
      <3>13. QED
        BY <1>1, <3>9, <3>10, <3>11, <3>12, SameSite DEF Filter!ReportIsTrue
    <2>9. QED
      BY <1>4, <2>3, <2>4, <2>6, <2>7, <2>8 DEF Filter!IInv
  <1>7. QED
    BY <1>5, <1>6 DEF Filter!ApplyExclusions

\* What is excluded is not in the output, nothing else is lost on the way to it,
\* and the operator is told so, for every project and every list of patterns.
THEOREM ExclusionsAreKept ==
  ASSUME Filter!Assumed
  PROVE  Filter!Spec => [](/\ Filter!TypeOK /\ Filter!ExclusionsHold /\ Filter!OnlyExcludedGoes
                           /\ Filter!MergeIsWhole /\ Filter!ReportIsTrue)
  <1>1. Filter!TypeOK /\ Filter!IInv /\ [Filter!Next]_(Filter!routesVars)
          => (Filter!TypeOK /\ Filter!IInv)'
    <2>1. ASSUME Filter!TypeOK, Filter!IInv, UNCHANGED Filter!routesVars
          PROVE  Filter!TypeOK' /\ Filter!IInv'
      <3>1. /\ site' = site /\ patterns' = patterns /\ turn' = turn /\ mirrored' = mirrored
            /\ routes' = routes /\ category' = category /\ output' = output /\ bundle' = bundle
            /\ report' = report
        BY <2>1 DEF Filter!routesVars
      <3>2. Filter!TypeOK'
        BY <2>1, <3>1 DEF Filter!TypeOK
      <3>3. Filter!ByTurn' /\ Filter!Seen' /\ Filter!Built' /\ Filter!Merging'
        BY <2>1, <3>1, SameSite DEF Filter!IInv, Filter!ByTurn, Filter!Seen, Filter!Built, Filter!Merging
      <3>4. Filter!ExclusionsHold'
        BY <2>1, <3>1, SameSite DEF Filter!IInv, Filter!ExclusionsHold
      <3>5. Filter!OnlyExcludedGoes'
        BY <2>1, <3>1, SameSite DEF Filter!IInv, Filter!OnlyExcludedGoes, Filter!LeftOut
      <3>6. Filter!ReportIsTrue'
        BY <2>1, <3>1, SameSite DEF Filter!IInv, Filter!ReportIsTrue
      <3>7. QED
        BY <3>2, <3>3, <3>4, <3>5, <3>6 DEF Filter!IInv
    <2>2. QED
      BY <2>1, MirrorSteps, BuildSteps, FlattenSteps, ExclusionSteps DEF Filter!Next
  <1>2. Filter!TypeOK /\ Filter!IInv => Filter!MergeIsWhole
    BY MergedIs DEF Filter!MergeIsWhole
  <1>3. Filter!IInv => Filter!ExclusionsHold /\ Filter!OnlyExcludedGoes /\ Filter!ReportIsTrue
    BY DEF Filter!IInv
  <1>4. QED
    BY <1>1, <1>2, <1>3, FilterInit, PTL DEF Filter!Spec

-----------------------------------------------------------------------------
(* The search of a tree for secrets *)

\* Leaving out the rules whose words a file has not loses no match: a word that
\* a line holds is in one of the windows the file is folded by.
LEMMA WordIsInAWindow ==
  ASSUME Window \in Nat \ {0}, NEW size \in Nat, NEW start \in Nat, NEW len \in 1 .. 7,
         start + len <= size
  PROVE  \E w \in 0 .. size : /\ w * Window < size /\ start + 7 - 1 >= w * Window
                              /\ start + len <= (w + 1) * Window
  <1> DEFINE end == start + len
             Reached == {w \in Nat : end <= (w + 1) * Window}
  <1>1. end \in Nat /\ end >= 1 /\ end <= size
    OBVIOUS
  <1>2. end \in Reached
    <2>1. end * (Window - 1) >= 0
      <3>1. Window - 1 \in Nat
        OBVIOUS
      <3> HIDE DEF end
      <3>2. QED
        BY <1>1, <3>1
    <2>2. (end + 1) * Window = end * (Window - 1) + end + Window
      BY <1>1
    <2>3. QED
      BY <1>1, <2>1, <2>2
  <1> HIDE DEF end
  <1>3. Reached \in SUBSET Nat /\ Reached # {}
    BY <1>2
  <1>4. PICK w \in Reached : \A v \in Reached : w <= v
    <2> HIDE DEF Reached
    <2>1. QED
      BY <1>3, LeastOf
  <1>5. w \in Nat /\ end <= (w + 1) * Window /\ w <= end
    BY <1>2, <1>4
  <1>6. w = 0 \/ end > w * Window
    <2> SUFFICES ASSUME w # 0, ~(end > w * Window) PROVE FALSE
      OBVIOUS
    <2>1. w - 1 \in Nat /\ (w - 1) + 1 = w /\ w * Window \in Nat
      BY <1>5
    <2>2. end <= ((w - 1) + 1) * Window
      BY <2>1, <1>1
    <2>3. w - 1 \in Reached
      BY <2>1, <2>2
    <2>4. QED
      BY <1>4, <1>5, <2>3
  <1>7. w * Window \in Nat /\ (w = 0 => w * Window = 0)
    BY <1>5
  <1>8. w * Window < size /\ w \in 0 .. size
    BY <1>1, <1>5, <1>6, <1>7
  <1>9. start + 7 - 1 >= w * Window
    BY <1>5, <1>6, <1>7 DEF end
  <1>10. QED
    BY <1>5, <1>8, <1>9 DEF end

\* A rule that matches a line of a file is not left out for want of its words:
\* they are in a window of the file.
LEMMA MatchedRuleIsActive ==
  ASSUME Guard!Assumed, NEW text, Guard!Holds(text), NEW l \in DOMAIN text.lines,
         NEW r \in Guard!secretRules, Guard!MatchesLine(r, text.lines[l])
  PROVE  r \in Guard!activeRules(text)
  <1>1. PICK p \in text.lines[l].pieces :
          \/ r = "aws" /\ p.word = "AKIA" /\ ~p.upper
          \/ r = "jwt" /\ p.word = "eyJ" /\ ~p.upper
          \/ r = "password" /\ p.word \in {"token", "secret", "api_key", "kelvin"}
    BY DEF Guard!MatchesLine, Guard!RequiredAnyFold, Guard!foldEscapes
  <1>2. p \in Guard!Pieces(text)
    BY DEF Guard!Pieces
  <1>3. /\ p.upper \in BOOLEAN /\ (p.word = "kelvin" => ~p.upper)
        /\ p.start \in Nat /\ p.start + Guard!Letters[p.word] <= text.letters
        /\ text.letters \in Nat
    BY <1>2 DEF Guard!Holds, Guard!foldEscapes
  <1>4. CASE r = "aws"
    <2>1. p.word = "AKIA" /\ ~p.upper
      BY <1>1, <1>4
    <2>2. Guard!containsAny(text, {"AKIA"})
      BY <1>2, <2>1 DEF Guard!containsAny
    <2>3. "aws" \in DOMAIN Guard!RequiredAny /\ Guard!RequiredAny["aws"] = {"AKIA"}
      BY DEF Guard!RequiredAny
    <2>4. QED
      BY <1>4, <2>2, <2>3 DEF Guard!activeRules
  <1>5. CASE r = "jwt"
    <2>1. p.word = "eyJ" /\ ~p.upper
      BY <1>1, <1>5
    <2>2. Guard!containsAny(text, {"eyJ"})
      BY <1>2, <2>1 DEF Guard!containsAny
    <2>3. "jwt" \in DOMAIN Guard!RequiredAny /\ Guard!RequiredAny["jwt"] = {"eyJ"}
      BY DEF Guard!RequiredAny
    <2>4. QED
      BY <1>5, <2>2, <2>3 DEF Guard!activeRules
  <1>6. CASE r = "password"
    <2>1. p.word \in {"token", "secret", "api_key", "kelvin"}
      BY <1>1, <1>6
    <2>2. "password" \notin DOMAIN Guard!RequiredAny
          /\ Guard!RequiredAnyFold["password"] = {"token", "secret", "api_key"}
      BY DEF Guard!RequiredAny, Guard!RequiredAnyFold
    <2>3. CASE p.word = "kelvin"
      <3>1. Guard!containsAny(text, Guard!foldEscapes)
        BY <1>2, <1>3, <2>3 DEF Guard!containsAny, Guard!foldEscapes
      <3>2. QED
        BY <1>6, <2>2, <3>1 DEF Guard!activeRules
    <2>4. CASE p.word # "kelvin"
      <3>1. p.word \in {"token", "secret", "api_key"}
        BY <2>1, <2>4
      <3>2. Guard!Letters[p.word] \in 1 .. 7
        BY <3>1 DEF Guard!Letters
      <3>3. Window \in Nat \ {0}
        BY DEF Guard!Assumed
      <3>4. \E w \in 0 .. text.letters :
              /\ w * Window < text.letters /\ p.start + 7 - 1 >= w * Window
              /\ p.start + Guard!Letters[p.word] <= (w + 1) * Window
        BY <1>3, <3>2, <3>3, WordIsInAWindow
      <3>5. Guard!containsAnyFold(text, {"token", "secret", "api_key"})
        BY <1>2, <3>1, <3>4 DEF Guard!containsAnyFold, Guard!Size, Guard!longest
      <3>6. QED
        BY <1>6, <2>2, <3>5 DEF Guard!activeRules
    <2>5. QED
      BY <2>3, <2>4
  <1>7. QED
    BY <1>4, <1>5, <1>6 DEF Guard!secretRules

\* What an entry of a tree may hold, whenever it is read.
LEMMA EntryIs ==
  ASSUME Guard!Assumed, Guard!TypeOK
  PROVE  /\ Len(tree) \in Nat /\ DOMAIN tree = 1 .. Len(tree)
         /\ \A i \in DOMAIN tree : Guard!IsText(tree[i].path)
         /\ \A i \in DOMAIN tree : \A f \in {tree[i]} \cup tree[i].later : Guard!Holds(f)
  <1>1. tree \in SearchedTrees
    BY DEF Guard!TypeOK
  <1>2. tree \in Seq(Guard!ToSet(tree))
    BY <1>1 DEF Guard!Assumed
  <1>3. Len(tree) \in Nat /\ DOMAIN tree = 1 .. Len(tree)
    BY <1>2
  <1>4. \A i \in DOMAIN tree : Guard!IsText(tree[i].path)
    BY <1>1, Zenon DEF Guard!Assumed
  <1>5. \A i \in DOMAIN tree : \A f \in {tree[i]} \cup tree[i].later : Guard!Holds(f)
    BY <1>1, Zenon DEF Guard!Assumed
  <1>6. QED
    BY <1>3, <1>4, <1>5

\* The invariant of SecretGuard when the search starts.
LEMMA GuardInit == Guard!Assumed /\ Guard!Init => Guard!TypeOK /\ Guard!IInv
  <1> SUFFICES ASSUME Guard!Assumed, Guard!Init PROVE Guard!TypeOK /\ Guard!IInv
    OBVIOUS
  <1>1. /\ tree \in SearchedTrees /\ ask \in Searches /\ next = 1 /\ matches = {} /\ passedBy = {}
        /\ verdict = "walking" /\ held = [i \in DOMAIN tree |-> {}]
    BY DEF Guard!Init
  <1>2. tree \in Seq(Guard!ToSet(tree))
    BY <1>1 DEF Guard!Assumed
  <1>3. next \in 1 .. Len(tree) + 1 /\ DOMAIN tree = 1 .. Len(tree)
    BY <1>1, <1>2
  <1>4. Guard!TypeOK
    BY <1>1, <1>3 DEF Guard!TypeOK
  <1>5. \A i \in DOMAIN tree : held[i] = {} /\ ~(i < next)
    BY <1>1, <1>3
  <1>6. QED
    BY <1>1, <1>4, <1>5 DEF Guard!IInv

\* What is passed over and found depends on the tree and the request.
LEMMA GuardUnchanged ==
  ASSUME tree' = tree, ask' = ask
  PROVE  /\ \A path : Guard!PassedOver(path)' = Guard!PassedOver(path)
         /\ \A f : Guard!scanBytes(f)' = Guard!scanBytes(f)
  <1>1. \A path : Guard!PassedOver(path)' = Guard!PassedOver(path)
    <2>1. Guard!Ignorer' = Guard!Ignorer
      BY DEF Guard!Ignorer
    <2>2. QED
      BY <2>1 DEF Guard!PassedOver
  <1>2. \A f : Guard!scanBytes(f)' = Guard!scanBytes(f)
    BY DEF Guard!scanBytes
  <1>3. QED
    BY <1>1, <1>2

\* The invariant of SecretGuard when an entry is read or passed over.
LEMMA ScanSteps ==
  ASSUME Guard!Assumed, Guard!TypeOK, Guard!IInv, Guard!ScanEntry
  PROVE  Guard!TypeOK' /\ Guard!IInv'
  <1> DEFINE entry == tree[next]
             reads == ~Guard!PassedOver(entry.path) /\ entry.kind = "text"
             All == UNION {{tree[i]} \cup tree[i].later : i \in DOMAIN tree}
             Found(now) == {<<next, m[1], m[2]>> : m \in Guard!scanBytes(now)}
  <1>1. /\ verdict = "walking" /\ next \in DOMAIN tree /\ next' = next + 1
        /\ tree' = tree /\ ask' = ask /\ verdict' = verdict
        /\ \/ /\ reads /\ passedBy' = passedBy \cup {next} /\ matches' = matches /\ held' = held
           \/ /\ reads /\ passedBy' = passedBy
              /\ \E now \in {entry} \cup entry.later :
                   /\ matches' = matches \cup Found(now)
                   /\ held' = [held EXCEPT ![next] = {now}]
           \/ /\ ~reads /\ passedBy' = passedBy /\ matches' = matches /\ held' = held
    BY DEF Guard!ScanEntry
  <1>2. /\ tree \in SearchedTrees /\ ask \in Searches /\ next \in 1 .. Len(tree) + 1
        /\ held \in [DOMAIN tree -> SUBSET All]
        /\ matches \subseteq (DOMAIN tree) \X Nat \X Guard!secretRules /\ passedBy \subseteq DOMAIN tree
    BY DEF Guard!TypeOK
  <1>3. Len(tree) \in Nat /\ DOMAIN tree = 1 .. Len(tree)
    BY EntryIs
  <1>4. next' \in 1 .. Len(tree) + 1 /\ next \in Nat /\ next' = next + 1
    BY <1>1, <1>3
  <1>5. \A i \in DOMAIN tree : /\ i >= next => held[i] = {}
                               /\ (i < next /\ tree[i].kind = "text" /\ ~Guard!PassedOver(tree[i].path))
                                     => held[i] # {} \/ i \in passedBy
                               /\ \A now \in held[i] :
                                    /\ now \in {tree[i]} \cup tree[i].later
                                    /\ \A m \in Guard!scanBytes(now) : <<i, m[1], m[2]>> \in matches
    BY DEF Guard!IInv
  <1>6. \A i \in DOMAIN tree : i \in Nat
    BY <1>3
  <1> HIDE DEF All, Found
  <1>7. CASE reads /\ \E now \in {entry} \cup entry.later :
                        /\ passedBy' = passedBy
                        /\ matches' = matches \cup Found(now)
                        /\ held' = [held EXCEPT ![next] = {now}]
    <2>1. PICK now \in {entry} \cup entry.later :
                 /\ passedBy' = passedBy
                 /\ matches' = matches \cup Found(now)
                 /\ held' = [held EXCEPT ![next] = {now}]
      BY <1>7
    <2>2. now \in All
      BY <1>1, <2>1 DEF All
    <2>3. held' \in [DOMAIN tree -> SUBSET All]
      BY <1>1, <1>2, <2>1, <2>2
    <2>4. Found(now) \subseteq (DOMAIN tree) \X Nat \X Guard!secretRules
      <3>1. DOMAIN now.lines \subseteq Nat
        <4>1. Guard!Holds(now)
          BY <1>1, <2>1, EntryIs
        <4>2. now.lines \in Seq(Guard!ToSet(now.lines))
          BY <4>1 DEF Guard!Holds
        <4>3. QED
          BY <4>2
      <3>2. \A m \in Guard!scanBytes(now) : m[1] \in Nat /\ m[2] \in Guard!secretRules
        BY <3>1 DEF Guard!scanBytes, Guard!activeRules
      <3>3. QED
        BY <1>1, <3>2 DEF Found
    <2>5. Guard!TypeOK'
      BY <1>1, <1>2, <1>4, <2>1, <2>3, <2>4 DEF Guard!TypeOK, All
    <2>6. ASSUME NEW i \in DOMAIN tree
          PROVE  /\ i >= next' => held'[i] = {}
                 /\ (i < next' /\ tree[i].kind = "text" /\ ~Guard!PassedOver(tree[i].path))
                       => held'[i] # {} \/ i \in passedBy'
                 /\ \A n \in held'[i] :
                      /\ n \in {tree[i]} \cup tree[i].later
                      /\ \A m \in Guard!scanBytes(n) : <<i, m[1], m[2]>> \in matches'
      <3>1. CASE i = next
        <4>1. held'[i] = {now}
          BY <1>1, <1>2, <2>1, <3>1
        <4>2. \A m \in Guard!scanBytes(now) : <<i, m[1], m[2]>> \in matches'
          BY <2>1, <3>1 DEF Found
        <4>3. ~(i >= next')
          BY <1>4, <3>1
        <4>4. QED
          BY <2>1, <3>1, <4>1, <4>2, <4>3
      <3>2. CASE i # next
        <4>1. held'[i] = held[i]
          BY <1>1, <1>2, <2>1, <3>2
        <4>2. (i >= next' => i >= next) /\ (i < next' => i < next)
          BY <1>4, <1>6, <3>2
        <4>3. matches \subseteq matches' /\ passedBy' = passedBy
          BY <2>1
        <4>4. QED
          BY <1>5, <4>1, <4>2, <4>3
      <3>3. QED
        BY <3>1, <3>2
    <2>7. Guard!IInv'
      BY <1>1, <2>6, GuardUnchanged DEF Guard!IInv
    <2>8. QED
      BY <2>5, <2>7
  <1>8. CASE /\ matches' = matches /\ held' = held
             /\ \/ passedBy' = passedBy \cup {next}
                \/ ~reads /\ passedBy' = passedBy
    <2>1. passedBy' \subseteq DOMAIN tree
      BY <1>1, <1>2, <1>8
    <2>2. Guard!TypeOK'
      BY <1>1, <1>2, <1>4, <1>8, <2>1 DEF Guard!TypeOK, All
    <2>3. ASSUME NEW i \in DOMAIN tree
          PROVE  /\ i >= next' => held[i] = {}
                 /\ (i < next' /\ tree[i].kind = "text" /\ ~Guard!PassedOver(tree[i].path))
                       => held[i] # {} \/ i \in passedBy'
      <3>1. (i >= next' => i >= next) /\ (i < next' => i < next \/ i = next)
        BY <1>4, <1>6
      <3>2. i = next /\ tree[i].kind = "text" /\ ~Guard!PassedOver(tree[i].path) => i \in passedBy'
        BY <1>8
      <3>3. passedBy \subseteq passedBy'
        BY <1>8
      <3>4. QED
        BY <1>5, <3>1, <3>2, <3>3
    <2>4. Guard!IInv'
      BY <1>1, <1>5, <1>8, <2>3, GuardUnchanged DEF Guard!IInv
    <2>5. QED
      BY <2>2, <2>4
  <1> HIDE DEF reads, entry
  <1>9. QED
    BY <1>1, <1>7, <1>8

\* The first of two tokens.
LEMMA FirstOfTwo ==
  ASSUME NEW a, NEW b
  PROVE  SubSeq(<<a, b>>, 1, 1) = <<a>>
  <1>1. <<a, b>> \in Seq({a, b}) /\ <<a>> \in Seq({a, b}) /\ Len(<<a, b>>) = 2 /\ <<a, b>>[1] = a
    OBVIOUS
  <1>2. SubSeq(<<a, b>>, 1, 1) = [i \in 1 .. 1 |-> <<a, b>>[i]]
    BY <1>1
  <1>3. <<a>> = [i \in 1 .. 1 |-> <<a>>[i]]
    BY <1>1
  <1>4. \A i \in 1 .. 1 : <<a>>[i] = <<a, b>>[i]
    OBVIOUS
  <1>5. QED
    BY <1>2, <1>3, <1>4

\* A line that escapes nothing without the mark of its negation, then without the
\* slash of a directory, then without the one that anchors it; and its rule.
Unmarked(line) == IF Guard!Starts(line, "!") THEN Tail(line) ELSE line
Plain(line) == IF Guard!Ends(Unmarked(line), "/") THEN Guard!Front(Unmarked(line)) ELSE Unmarked(line)
Bare(line) == IF Guard!Starts(Plain(line), "/") THEN Tail(Plain(line)) ELSE Plain(line)

\* The rule a line is compiled to.
LEMMA CompileIs ==
  ASSUME NEW line, ~Guard!Starts(line, "#"), Bare(line) # <<>>,
         ~(Len(line) > 1 /\ line[1] = "\\" /\ line[2] \in {"#", "!"})
  PROVE  /\ Guard!compile(line) # {}
         /\ \A rule \in Guard!compile(line) :
              /\ rule.kind = Guard!classify(Guard!Contains(Plain(line), "/"), Bare(line))[1]
              /\ rule.lit = Guard!classify(Guard!Contains(Plain(line), "/"), Bare(line))[2]
              /\ rule.negate <=> Guard!Starts(line, "!")
              /\ rule.dirOnly <=> Guard!Ends(Unmarked(line), "/")
  <1> DEFINE escaped == Len(line) > 1 /\ line[1] = "\\" /\ line[2] \in {"#", "!"}
             negate == ~escaped /\ Guard!Starts(line, "!")
             body == IF escaped \/ negate THEN Tail(line) ELSE line
             dirOnly == Guard!Ends(body, "/")
             name == IF dirOnly THEN Guard!Front(body) ELSE body
             anchored == Guard!Contains(name, "/")
             core == IF Guard!Starts(name, "/") THEN Tail(name) ELSE name
             kind == Guard!classify(anchored, core)
             made == Guard!Rule(IF anchored THEN core ELSE <<"**", "/">> \o core, kind[1], kind[2],
                                negate, dirOnly)
  <1>1. Guard!compile(line) = IF Guard!Starts(line, "#") \/ core = <<>> THEN {} ELSE {made}
    BY Zenon DEF Guard!compile
  <1>2. body = Unmarked(line)
    BY Zenon DEF Unmarked
  <1>3. name = Plain(line)
    BY <1>2, Zenon DEF Plain
  <1>4. core = Bare(line)
    BY <1>3, Zenon DEF Bare
  <1>5. kind = Guard!classify(Guard!Contains(Plain(line), "/"), Bare(line))
    BY <1>3, <1>4, Zenon
  <1>6. /\ made.kind = kind[1] /\ made.lit = kind[2]
        /\ made.negate <=> negate
        /\ made.dirOnly <=> dirOnly
    <2> HIDE DEF kind, negate, dirOnly, core, anchored
    <2>1. made.kind = kind[1] /\ made.lit = kind[2]
      BY DEF Guard!Rule
    <2>2. made.negate <=> negate
      BY Zenon DEF Guard!Rule
    <2>3. made.dirOnly <=> dirOnly
      BY Zenon DEF Guard!Rule
    <2>4. QED
      BY <2>1, <2>2, <2>3
  <1>7. dirOnly <=> Guard!Ends(Unmarked(line), "/")
    BY <1>2, Zenon
  <1>8. negate <=> Guard!Starts(line, "!")
    BY Zenon
  <1>9. Guard!compile(line) = {made}
    <2> HIDE DEF core, made
    <2>1. QED
      BY <1>1, <1>4, Zenon
  <1> HIDE DEF made, kind, negate, dirOnly
  <1>10. QED
    BY <1>5, <1>6, <1>7, <1>8, <1>9, Zenon

\* What the default patterns are compiled to, and the one that takes source maps
\* back in.
LEMMA CompiledName ==
  ASSUME NEW n, n \notin {"#", "!", "\\", "/", "*", "**"}
  PROVE  \A rule \in Guard!compile(<<n, "/">>) : rule.kind = "base" /\ rule.lit = <<n>>
  <1>1. /\ Len(<<n, "/">>) = 2 /\ <<n, "/">>[1] = n /\ <<n, "/">>[2] = "/"
        /\ <<n, "/">> # <<>> /\ <<n>> # <<>>
    OBVIOUS
  <1>2. ~Guard!Starts(<<n, "/">>, "!") /\ ~Guard!Starts(<<n, "/">>, "#") /\ Guard!Ends(<<n, "/">>, "/")
    BY <1>1 DEF Guard!Starts, Guard!Ends, Guard!Last
  <1>3. Guard!Front(<<n, "/">>) = <<n>>
    BY <1>1, FirstOfTwo DEF Guard!Front
  <1>4. /\ ~Guard!Contains(<<n>>, "/") /\ ~Guard!Starts(<<n>>, "/")
        /\ ~Guard!Starts(<<n>>, "*") /\ ~Guard!Ends(<<n>>, "*")
        /\ ~Guard!globMeta(<<n>>)
    BY DEF Guard!Contains, Guard!Starts, Guard!Ends, Guard!Last, Guard!globMeta
  <1>5. Guard!classify(FALSE, <<n>>) = <<"base", <<n>>>>
    BY <1>1, <1>4 DEF Guard!classify
  <1>6. Guard!classify(Guard!Contains(<<n>>, "/"), <<n>>) = Guard!classify(FALSE, <<n>>)
    BY <1>4 DEF Guard!classify
  <1>7. \A rule \in Guard!compile(<<n, "/">>) :
          /\ rule.kind = Guard!classify(Guard!Contains(<<n>>, "/"), <<n>>)[1]
          /\ rule.lit = Guard!classify(Guard!Contains(<<n>>, "/"), <<n>>)[2]
    <2>1. ~(Len(<<n, "/">>) > 1 /\ <<n, "/">>[1] = "\\" /\ <<n, "/">>[2] \in {"#", "!"})
      BY <1>1
    <2>2. Unmarked(<<n, "/">>) = <<n, "/">>
      BY <1>2 DEF Unmarked
    <2>3. Plain(<<n, "/">>) = <<n>>
      BY <2>2, <1>2, <1>3 DEF Plain
    <2>4. Bare(<<n, "/">>) = <<n>>
      BY <2>3, <1>4 DEF Bare
    <2>5. QED
      BY <2>1, <2>3, <2>4, <1>1, <1>2, CompileIs
  <1>8. /\ Guard!classify(Guard!Contains(<<n>>, "/"), <<n>>)[1] = "base"
        /\ Guard!classify(Guard!Contains(<<n>>, "/"), <<n>>)[2] = <<n>>
    <2> DEFINE made == Guard!classify(Guard!Contains(<<n>>, "/"), <<n>>)
    <2>1. made = <<"base", <<n>>>>
      BY <1>5, <1>6, Zenon
    <2> HIDE DEF made
    <2>2. made[1] = "base" /\ made[2] = <<n>>
      BY <2>1
    <2>3. QED
      BY <2>2 DEF made
  <1>9. QED
    BY <1>7, <1>8

\* The default pattern with a slash is compared with whole paths.
LEMMA CompiledPath ==
  \A rule \in Guard!compile(<<"node_modules", "/", ".cache">>) :
    rule.kind = "path" /\ rule.lit = <<"node_modules", "/", ".cache">>
  <1> DEFINE line == <<"node_modules", "/", ".cache">>
  <1>1. line # <<>> /\ Len(line) = 3 /\ line[1] = "node_modules" /\ line[2] = "/" /\ line[3] = ".cache"
    OBVIOUS
  <1>2. /\ ~Guard!Starts(line, "!") /\ ~Guard!Starts(line, "#") /\ ~Guard!Starts(line, "/")
        /\ ~Guard!Ends(line, "/") /\ Guard!Contains(line, "/") /\ ~Guard!globMeta(line)
    BY <1>1 DEF Guard!Starts, Guard!Ends, Guard!Last, Guard!Contains, Guard!globMeta
  <1>3. ~(Len(line) > 1 /\ line[1] = "\\" /\ line[2] \in {"#", "!"})
    BY <1>1
  <1> HIDE DEF line
  <1>4. Guard!classify(Guard!Contains(line, "/"), line) = <<"path", line>>
    BY <1>2 DEF Guard!classify
  <1>5. \A rule \in Guard!compile(line) :
          /\ rule.kind = Guard!classify(Guard!Contains(line, "/"), line)[1]
          /\ rule.lit = Guard!classify(Guard!Contains(line, "/"), line)[2]
    <2>1. Unmarked(line) = line
      BY <1>2 DEF Unmarked
    <2>2. Plain(line) = line
      BY <2>1, <1>2 DEF Plain
    <2>3. Bare(line) = line
      BY <2>2, <1>2 DEF Bare
    <2>4. QED
      BY <2>2, <2>3, <1>1, <1>2, <1>3, CompileIs
  <1>6. QED
    BY <1>4, <1>5 DEF line

\* The default pattern with a star at its end is compared as a prefix.
LEMMA CompiledPrefix ==
  \A rule \in Guard!compile(<<".env", "*">>) : rule.kind = "prefix" /\ rule.lit = <<".env">>
  <1> DEFINE line == <<".env", "*">>
  <1>1. line # <<>> /\ Len(line) = 2 /\ line[1] = ".env" /\ line[2] = "*"
    OBVIOUS
  <1>2. /\ ~Guard!Starts(line, "!") /\ ~Guard!Starts(line, "#") /\ ~Guard!Starts(line, "/")
        /\ ~Guard!Starts(line, "*") /\ ~Guard!Ends(line, "/") /\ Guard!Ends(line, "*")
        /\ ~Guard!Contains(line, "/")
    BY <1>1 DEF Guard!Starts, Guard!Ends, Guard!Last, Guard!Contains
  <1>3. Guard!Front(line) = <<".env">> /\ ~Guard!globMeta(<<".env">>) /\ <<".env">> # <<>>
    BY <1>1, FirstOfTwo DEF Guard!Front, Guard!globMeta
  <1>4. ~(Len(line) > 1 /\ line[1] = "\\" /\ line[2] \in {"#", "!"})
    BY <1>1
  <1> HIDE DEF line
  <1>5. Guard!classify(Guard!Contains(line, "/"), line) = <<"prefix", <<".env">>>>
    BY <1>2, <1>3 DEF Guard!classify
  <1>6. \A rule \in Guard!compile(line) :
          /\ rule.kind = Guard!classify(Guard!Contains(line, "/"), line)[1]
          /\ rule.lit = Guard!classify(Guard!Contains(line, "/"), line)[2]
    <2>1. Unmarked(line) = line
      BY <1>2 DEF Unmarked
    <2>2. Plain(line) = line
      BY <2>1, <1>2 DEF Plain
    <2>3. Bare(line) = line
      BY <2>2, <1>2 DEF Bare
    <2>4. QED
      BY <2>2, <2>3, <1>1, <1>2, <1>4, CompileIs
  <1>7. QED
    BY <1>5, <1>6 DEF line

\* The default pattern of source maps is compared as a suffix, and the line
\* that asks for the maps takes it back.
LEMMA CompiledSuffix ==
  /\ \A rule \in Guard!compile(<<"*", ".map">>) : rule.kind = "suffix" /\ rule.lit = <<".map">>
  /\ Guard!compile(<<"!", "*", ".map">>) # {}
  /\ \A rule \in Guard!compile(<<"!", "*", ".map">>) :
       rule.kind = "suffix" /\ rule.lit = <<".map">> /\ rule.negate /\ ~rule.dirOnly
  <1> DEFINE line == <<"*", ".map">>
             back == <<"!", "*", ".map">>
  <1>1. line # <<>> /\ Len(line) = 2 /\ line[1] = "*" /\ line[2] = ".map"
    OBVIOUS
  <1>2. /\ ~Guard!Starts(line, "!") /\ ~Guard!Starts(line, "#") /\ ~Guard!Starts(line, "/")
        /\ Guard!Starts(line, "*") /\ ~Guard!Ends(line, "/") /\ ~Guard!Contains(line, "/")
    BY <1>1 DEF Guard!Starts, Guard!Ends, Guard!Last, Guard!Contains
  <1>3. /\ Tail(line) = <<".map">> /\ ~Guard!Ends(<<".map">>, "*")
        /\ ~Guard!globMeta(<<".map">>) /\ <<".map">> # <<>>
    BY <1>1 DEF Guard!Ends, Guard!Last, Guard!globMeta
  <1>4. /\ back # <<>> /\ Len(back) = 3 /\ back[1] = "!" /\ Tail(back) = line
        /\ Guard!Starts(back, "!") /\ ~Guard!Starts(back, "#")
    BY DEF Guard!Starts
  <1>5. /\ ~(Len(line) > 1 /\ line[1] = "\\" /\ line[2] \in {"#", "!"})
        /\ ~(Len(back) > 1 /\ back[1] = "\\" /\ back[2] \in {"#", "!"})
    BY <1>1, <1>4
  <1> HIDE DEF line, back
  <1>6. Guard!classify(Guard!Contains(line, "/"), line) = <<"suffix", <<".map">>>>
    BY <1>2, <1>3 DEF Guard!classify
  <1>7. \A rule \in Guard!compile(line) :
          /\ rule.kind = Guard!classify(Guard!Contains(line, "/"), line)[1]
          /\ rule.lit = Guard!classify(Guard!Contains(line, "/"), line)[2]
    <2>1. Unmarked(line) = line
      BY <1>2 DEF Unmarked
    <2>2. Plain(line) = line
      BY <2>1, <1>2 DEF Plain
    <2>3. Bare(line) = line
      BY <2>2, <1>2 DEF Bare
    <2>4. QED
      BY <2>2, <2>3, <1>1, <1>2, <1>5, CompileIs
  <1>8. /\ Guard!compile(back) # {}
        /\ \A rule \in Guard!compile(back) :
             /\ rule.kind = Guard!classify(Guard!Contains(line, "/"), line)[1]
             /\ rule.lit = Guard!classify(Guard!Contains(line, "/"), line)[2]
             /\ rule.negate /\ ~rule.dirOnly
    <2>1. Unmarked(back) = line
      BY <1>4 DEF Unmarked
    <2>2. Plain(back) = line
      BY <2>1, <1>2 DEF Plain
    <2>3. Bare(back) = line
      BY <2>2, <1>2 DEF Bare
    <2>4. QED
      BY <2>1, <2>2, <2>3, <1>1, <1>2, <1>4, <1>5, CompileIs
  <1>9. QED
    BY <1>6, <1>7, <1>8 DEF line, back

\* The rules in force when maps are searched and a project has no patterns of its
\* own: what only the third matches, the last takes back in.
LEMMA IgnorerIs ==
  ASSUME ask.maps, ask.own = <<>>
  PROVE  /\ DOMAIN Guard!Ignorer = 1 .. 6
         /\ Guard!Ignorer[1] = Guard!compile(<<"node_modules", "/", ".cache">>)
         /\ Guard!Ignorer[2] = Guard!compile(<<".git", "/">>)
         /\ Guard!Ignorer[3] = Guard!compile(<<"*", ".map">>)
         /\ Guard!Ignorer[4] = Guard!compile(<<".env", "*">>)
         /\ Guard!Ignorer[5] = Guard!compile(<<"storybook-static", "/">>)
         /\ Guard!Ignorer[6] = Guard!compile(<<"!", "*", ".map">>)
  <1> DEFINE a == <<"node_modules", "/", ".cache">>
             b == <<".git", "/">>
             c == <<"*", ".map">>
             d == <<".env", "*">>
             e == <<"storybook-static", "/">>
             f == <<"!", "*", ".map">>
             T == {a, b, c, d, e, f}
             lines == (Guard!DefaultPatterns \o <<f>>) \o <<>>
  <1>1. Guard!DefaultPatterns = <<a, b, c, d, e>>
    BY DEF Guard!DefaultPatterns
  <1> HIDE DEF a, b, c, d, e, f
  <1>2. /\ Guard!DefaultPatterns \in Seq(T) /\ Len(Guard!DefaultPatterns) = 5
        /\ Guard!DefaultPatterns[1] = a /\ Guard!DefaultPatterns[2] = b /\ Guard!DefaultPatterns[3] = c
        /\ Guard!DefaultPatterns[4] = d /\ Guard!DefaultPatterns[5] = e
    BY <1>1
  <1>3. <<f>> \in Seq(T) /\ Len(<<f>>) = 1 /\ <<f>>[1] = f /\ <<>> \in Seq(T)
    OBVIOUS
  <1> DEFINE first == Guard!DefaultPatterns \o <<f>>
  <1> HIDE DEF T
  <1>4. /\ first \in Seq(T) /\ Len(first) = 5 + 1
        /\ \A i \in 1 .. 5 + 1 : first[i] = IF i <= 5 THEN Guard!DefaultPatterns[i] ELSE <<f>>[i - 5]
    <2> DEFINE front == Guard!DefaultPatterns
               back == <<f>>
               whole == front \o back
    <2>1. front \in Seq(T) /\ back \in Seq(T) /\ Len(front) = 5 /\ Len(back) = 1
      BY <1>2, <1>3
    <2> HIDE DEF front, back
    <2>2. /\ whole \in Seq(T) /\ Len(whole) = Len(front) + Len(back)
          /\ \A i \in 1 .. Len(front) + Len(back) :
               whole[i] = IF i <= Len(front) THEN front[i] ELSE back[i - Len(front)]
      <3>1. front \in Seq(T) /\ back \in Seq(T)
        BY <2>1
      <3>2. whole \in Seq(T)
        BY <3>1, ConcatProperties
      <3>3. Len(whole) = Len(front) + Len(back)
        BY <3>1, ConcatProperties
      <3>4. \A i \in 1 .. Len(front) + Len(back) :
               whole[i] = IF i <= Len(front) THEN front[i] ELSE back[i - Len(front)]
        BY <3>1, ConcatProperties
      <3>5. QED
        BY <3>2, <3>3, <3>4
    <2>3. first = whole
      BY DEF first, front, back
    <2> HIDE DEF whole
    <2>4. QED
      BY <2>1, <2>2, <2>3 DEF front, back
  <1> HIDE DEF first
  <1>5. first \o <<>> = first
    BY <1>4, ConcatEmptySeq
  <1>6. /\ DOMAIN first = 1 .. 6 /\ first[1] = a /\ first[2] = b /\ first[3] = c /\ first[4] = d
        /\ first[5] = e /\ first[6] = f
    BY <1>2, <1>3, <1>4
  <1>7. Guard!Ignorer = Guard!New(first)
    BY <1>5 DEF Guard!Ignorer, first, f
  <1>8. Guard!New(first) = [i \in 1 .. 6 |-> Guard!compile(first[i])]
    BY <1>6 DEF Guard!New
  <1> HIDE DEF Guard!compile
  <1>9. QED
    BY <1>6, <1>7, <1>8 DEF a, b, c, d, e, f

\* With source maps asked for, what no default pattern but theirs matches is
\* not ignored.
LEMMA TakenBackIn ==
  ASSUME ask.maps, ask.own = <<>>, NEW d, NEW isDir \in BOOLEAN,
         \A i \in 1 .. 5 : \A rule \in Guard!Ignorer[i] :
           (isDir \/ ~rule.dirOnly) /\ Guard!matchGlob(rule, d) => Guard!IsSuffix(<<".map">>, Guard!baseName(d))
  PROVE  ~Guard!matchRules(Guard!Ignorer, d, isDir)
  <1> DEFINE rules == Guard!Ignorer
             hits == {i \in DOMAIN rules :
                        \E rule \in rules[i] : (isDir \/ ~rule.dirOnly) /\ Guard!matchGlob(rule, d)}
             chosen == CHOOSE i \in hits : \A j \in hits : j <= i
  <1>1. Guard!matchRules(rules, d, isDir) = (hits # {} /\ \A rule \in rules[chosen] : ~rule.negate)
    BY DEF Guard!matchRules
  <1>2. DOMAIN rules = 1 .. 6
    BY IgnorerIs
  <1>3. /\ rules[6] # {}
        /\ \A rule \in rules[6] :
             rule.kind = "suffix" /\ rule.lit = <<".map">> /\ rule.negate /\ ~rule.dirOnly
    BY IgnorerIs, CompiledSuffix
  <1>4. Guard!IsSuffix(<<".map">>, Guard!baseName(d)) => \A rule \in rules[6] : Guard!matchGlob(rule, d)
    BY <1>3 DEF Guard!matchGlob
  <1> HIDE DEF rules
  <1>5. \A i \in hits : i \in 1 .. 6 /\ 6 \in hits
    <2> SUFFICES ASSUME NEW i \in hits PROVE i \in 1 .. 6 /\ 6 \in hits
      OBVIOUS
    <2>1. i \in 1 .. 6
      BY <1>2
    <2>2. CASE i = 6
      BY <2>2, <1>2
    <2>3. CASE i # 6
      <3>1. i \in 1 .. 5
        BY <2>1, <2>3
      <3>2. Guard!IsSuffix(<<".map">>, Guard!baseName(d))
        BY <3>1 DEF rules
      <3>3. QED
        BY <2>1, <3>2, <1>2, <1>3, <1>4
    <2>4. QED
      BY <2>2, <2>3
  <1>6. hits # {} => chosen = 6
    <2> SUFFICES ASSUME hits # {} PROVE chosen = 6
      OBVIOUS
    <2> HIDE DEF hits
    <2>1. 6 \in hits /\ \A j \in hits : j <= 6
      BY <1>5
    <2>2. chosen \in hits /\ \A j \in hits : j <= chosen
      BY <2>1
    <2>3. QED
      BY <2>1, <2>2, <1>5
  <1> HIDE DEF hits, chosen
  <1>7. QED
    BY <1>1, <1>3, <1>6 DEF rules

\* The first token of a path.
LEMMA FirstOf ==
  ASSUME NEW S, NEW s \in Seq(S), s # <<>>
  PROVE  SubSeq(s, 1, 1) = <<s[1]>>
  <1>1. Len(s) \in Nat /\ Len(s) >= 1 /\ s[1] \in S
    OBVIOUS
  <1>2. SubSeq(s, 1, 1) = [i \in 1 .. 1 |-> s[i]]
    BY <1>1
  <1>3. <<s[1]>> = [i \in 1 .. 1 |-> <<s[1]>>[i]]
    OBVIOUS
  <1>4. \A i \in 1 .. 1 : <<s[1]>>[i] = s[i]
    OBVIOUS
  <1>5. QED
    BY <1>2, <1>3, <1>4

\* The last name of a path, and what ends a path ends that name.
LEMMA BaseIs ==
  ASSUME NEW S, NEW d \in Seq(S)
  PROVE  /\ Guard!baseName(d) \in Seq(S)
         /\ (d # <<>> /\ Guard!Last(d) # "/") =>
              Guard!baseName(d) # <<>> /\ Guard!Last(Guard!baseName(d)) = Guard!Last(d)
  <1> DEFINE slashes == {i \in DOMAIN d : d[i] = "/"}
             final == IF slashes = {} THEN 0 ELSE CHOOSE i \in slashes : \A j \in slashes : j <= i
  <1>1. Guard!baseName(d) = SubSeq(d, 1 + final, Len(d))
    BY DEF Guard!baseName, Guard!Without
  <1>2. Len(d) \in Nat /\ DOMAIN d = 1 .. Len(d)
    OBVIOUS
  <1>3. /\ final \in 0 .. Len(d)
        /\ final # 0 => d[final] = "/"
    <2>1. CASE slashes = {}
      BY <2>1, <1>2
    <2>2. CASE slashes # {}
      <3>1. slashes \in SUBSET Nat /\ \A i \in slashes : i <= Len(d)
        BY <1>2
      <3>2. \E i \in slashes : \A j \in slashes : j <= i
        <4> HIDE DEF slashes
        <4>1. QED
          BY <2>2, <3>1, <1>2, GreatestOf
      <3>3. final \in slashes
        <4> HIDE DEF slashes
        <4>1. QED
          BY <2>2, <3>2
      <3>4. QED
        BY <3>1, <3>3, <1>2
    <2>3. QED
      BY <2>1, <2>2
  <1> HIDE DEF final
  <1>4. 1 + final \in Int /\ Len(d) \in Int /\ \A i \in 1 + final .. Len(d) : d[i] \in S
    BY <1>2, <1>3
  <1>5. /\ SubSeq(d, 1 + final, Len(d)) \in Seq(S)
        /\ Len(SubSeq(d, 1 + final, Len(d))) =
             IF 1 + final <= Len(d) THEN Len(d) - (1 + final) + 1 ELSE 0
        /\ \A i \in 1 .. Len(d) - (1 + final) + 1 :
             SubSeq(d, 1 + final, Len(d))[i] = d[(1 + final) + i - 1]
    BY <1>4, SubSeqProperties
  <1>6. ASSUME d # <<>>, Guard!Last(d) # "/"
        PROVE  Guard!baseName(d) # <<>> /\ Guard!Last(Guard!baseName(d)) = Guard!Last(d)
    <2>1. final # Len(d) /\ Len(d) >= 1
      <3>1. Len(d) >= 1
        BY <1>6
      <3>2. d[Len(d)] # "/"
        BY <1>6 DEF Guard!Last
      <3>3. ASSUME final = Len(d) PROVE FALSE
        <4>1. final # 0
          BY <3>1, <3>3
        <4>2. d[final] = "/"
          BY <4>1, <1>3
        <4>3. QED
          BY <3>2, <3>3, <4>2
      <3>4. QED
        BY <3>1, <3>3
    <2>2. 1 + final <= Len(d) /\ Len(d) - (1 + final) + 1 = Len(d) - final /\ Len(d) - final >= 1
      <3>1. \A n \in Nat : \A m \in 0 .. n : m # n => 1 + m <= n /\ n - (1 + m) + 1 = n - m /\ n - m >= 1
        OBVIOUS
      <3>2. QED
        BY <3>1, <1>2, <1>3, <2>1
    <2> DEFINE name == SubSeq(d, 1 + final, Len(d))
    <2>3. Len(name) = Len(d) - final /\ Len(d) - final \in 1 .. Len(d) - (1 + final) + 1
      BY <1>2, <1>3, <1>5, <2>2
    <2>4. name[Len(d) - final] = d[Len(d)]
      <3>1. (1 + final) + (Len(d) - final) - 1 = Len(d)
        BY <1>2, <1>3
      <3>2. QED
        BY <1>5, <2>3, <3>1
    <2> HIDE DEF name
    <2>5. name # <<>>
      BY <1>2, <1>3, <2>2, <2>3
    <2>6. QED
      BY <1>1, <2>3, <2>4, <2>5 DEF Guard!Last, name
  <1>7. QED
    BY <1>1, <1>5, <1>6

\* A source map ends as one.
LEMMA MapIsASuffix ==
  ASSUME NEW S, NEW t \in Seq(S), t # <<>>, Guard!Last(t) = ".map"
  PROVE  Guard!IsSuffix(<<".map">>, t)
  <1> DEFINE short == Guard!Reverse(<<".map">>)
             long == Guard!Reverse(t)
  <1>1. Len(t) \in Nat /\ Len(t) >= 1 /\ t[Len(t)] = ".map"
    BY DEF Guard!Last
  <1>2. short = [i \in 1 .. 1 |-> ".map"]
    <2>1. short = [i \in 1 .. 1 |-> <<".map">>[(1 - i) + 1]]
      BY DEF Guard!Reverse
    <2>2. \A i \in 1 .. 1 : <<".map">>[(1 - i) + 1] = ".map"
      OBVIOUS
    <2>3. QED
      BY <2>1, <2>2
  <1>3. long = [i \in 1 .. Len(t) |-> t[(Len(t) - i) + 1]]
    BY DEF Guard!Reverse
  <1>4. \A i \in 1 .. Len(t) : (Len(t) - i) + 1 \in 1 .. Len(t)
    BY <1>1
  <1>5. /\ short \in Seq({".map"}) /\ Len(short) = 1 /\ short # <<>> /\ short[1] = ".map"
    BY <1>2
  <1>6. /\ long \in Seq(S) /\ Len(long) = Len(t) /\ long # <<>> /\ long[1] = ".map"
    <2>1. \A i \in 1 .. Len(t) : t[(Len(t) - i) + 1] \in S
      BY <1>1, <1>4
    <2>2. long \in Seq(S) /\ Len(long) = Len(t)
      BY <1>1, <1>3, <2>1
    <2>3. (Len(t) - 1) + 1 = Len(t) /\ 1 \in 1 .. Len(t)
      BY <1>1
    <2>4. long[1] = t[Len(t)]
      BY <1>3, <2>3
    <2> HIDE DEF long
    <2>5. QED
      BY <1>1, <2>2, <2>4
  <1> HIDE DEF short, long
  <1>7. SubSeq(short, 1, 1) = SubSeq(long, 1, 1)
    BY <1>5, <1>6, FirstOf
  <1>8. QED
    BY <1>1, <1>5, <1>6, <1>7 DEF Guard!IsSuffix, Guard!IsPrefix, short, long

\* With source maps searched and no patterns of a project's own, a rule other than
\* the one for maps does not match a name it is not for.
LEMMA OtherRulesMiss ==
  ASSUME ask.maps, ask.own = <<>>, NEW S, NEW d \in Seq(S), NEW isDir \in BOOLEAN,
         d # <<"node_modules", "/", ".cache">>,
         isDir => Guard!baseName(d) \notin {<<".git">>, <<"storybook-static">>},
         ~isDir => Guard!IsSuffix(<<".map">>, Guard!baseName(d)),
         isDir => ~Guard!Starts(Guard!baseName(d), ".env")
  PROVE  ~Guard!matchRules(Guard!Ignorer, d, isDir)
  <1>1. CASE ~isDir
    BY <1>1, TakenBackIn
  <1>2. CASE isDir
    <2>1. ASSUME NEW rule \in Guard!Ignorer[1] PROVE ~Guard!matchGlob(rule, d)
      <3>1. rule.kind = "path" /\ rule.lit = <<"node_modules", "/", ".cache">>
        BY <2>1, IgnorerIs, CompiledPath
      <3>2. QED
        BY <3>1 DEF Guard!matchGlob
    <2>2. ASSUME NEW rule \in Guard!Ignorer[2] PROVE ~Guard!matchGlob(rule, d)
      <3>1. rule \in Guard!compile(<<".git", "/">>)
        BY <2>2, IgnorerIs
      <3>2. rule.kind = "base" /\ rule.lit = <<".git">>
        BY <3>1, CompiledName
      <3>3. QED
        BY <1>2, <3>2 DEF Guard!matchGlob
    <2>3. ASSUME NEW rule \in Guard!Ignorer[3], Guard!matchGlob(rule, d)
          PROVE  Guard!IsSuffix(<<".map">>, Guard!baseName(d))
      <3>1. rule.kind = "suffix" /\ rule.lit = <<".map">>
        BY <2>3, IgnorerIs, CompiledSuffix
      <3>2. QED
        BY <2>3, <3>1 DEF Guard!matchGlob
    <2>4. ASSUME NEW rule \in Guard!Ignorer[4] PROVE ~Guard!matchGlob(rule, d)
      <3>1. rule.kind = "prefix" /\ rule.lit = <<".env">>
        BY <2>4, IgnorerIs, CompiledPrefix
      <3> DEFINE name == Guard!baseName(d)
      <3>2. name \in Seq(S)
        BY BaseIs
      <3> HIDE DEF name
      <3>3. ASSUME Guard!IsPrefix(<<".env">>, name) PROVE FALSE
        <4>1. 1 <= Len(name) /\ SubSeq(<<".env">>, 1, 1) = SubSeq(name, 1, 1)
          BY <3>3 DEF Guard!IsPrefix
        <4>2. name # <<>>
          BY <3>2, <4>1
        <4>3. <<".env">> \in Seq({".env"}) /\ <<".env">> # <<>> /\ <<".env">>[1] = ".env"
          OBVIOUS
        <4>4. SubSeq(<<".env">>, 1, 1) = <<".env">> /\ SubSeq(name, 1, 1) = <<name[1]>>
          BY <3>2, <4>2, <4>3, FirstOf
        <4>5. name[1] = ".env"
          BY <4>1, <4>4
        <4>6. QED
          BY <1>2, <4>2, <4>5 DEF Guard!Starts, name
      <3>4. QED
        BY <3>1, <3>3 DEF Guard!matchGlob, name
    <2>5. ASSUME NEW rule \in Guard!Ignorer[5] PROVE ~Guard!matchGlob(rule, d)
      <3>1. rule \in Guard!compile(<<"storybook-static", "/">>)
        BY <2>5, IgnorerIs
      <3>2. rule.kind = "base" /\ rule.lit = <<"storybook-static">>
        BY <3>1, CompiledName
      <3>3. QED
        BY <1>2, <3>2 DEF Guard!matchGlob
    <2>6. \A i \in 1 .. 5 : i = 1 \/ i = 2 \/ i = 3 \/ i = 4 \/ i = 5
      OBVIOUS
    <2>7. \A i \in 1 .. 5 : \A rule \in Guard!Ignorer[i] :
            Guard!matchGlob(rule, d) => Guard!IsSuffix(<<".map">>, Guard!baseName(d))
      BY <2>1, <2>2, <2>3, <2>4, <2>5, <2>6
    <2>8. QED
      BY <2>7, TakenBackIn
  <1>3. QED
    BY <1>1, <1>2

\* A source map is not passed over when nothing above it is.
LEMMA MapIsNotPassedOver ==
  ASSUME ask.maps, ask.own = <<>>, NEW path, Guard!IsText(path), Guard!Ext(path) = ".map",
         \A d \in Guard!Above(path) :
           /\ Guard!baseName(d) \notin Guard!skippedDirs \cup {<<"storybook-static">>}
           /\ ~Guard!Starts(Guard!baseName(d), ".env")
  PROVE  ~Guard!PassedOver(path)
  <1> DEFINE S == Guard!ToSet(path)
             Kept == <<"node_modules", "/", ".cache">>
  <1>1. path \in Seq(S) /\ path # <<>> /\ Len(path) \in Nat /\ DOMAIN path = 1 .. Len(path)
    BY DEF Guard!IsText
  <1>2. path[Len(path)] = ".map" /\ Len(path) \in 1 .. Len(path)
    BY <1>1 DEF Guard!Ext, Guard!Last
  <1>3. \A d \in Guard!Above(path) : /\ d \in Seq(S) /\ Len(d) \in Nat
                                     /\ \A i \in 1 .. Len(d) : d[i] = path[i]
                                     /\ \A i \in 1 .. Len(d) : d[i] = "/" => SubSeq(d, 1, i - 1) \in Guard!Above(path)
    <2> SUFFICES ASSUME NEW k \in 1 .. Len(path), path[k] = "/"
                 PROVE  /\ SubSeq(path, 1, k - 1) \in Seq(S) /\ Len(SubSeq(path, 1, k - 1)) \in Nat
                        /\ \A i \in 1 .. Len(SubSeq(path, 1, k - 1)) :
                             /\ SubSeq(path, 1, k - 1)[i] = path[i]
                             /\ SubSeq(path, 1, k - 1)[i] = "/" =>
                                  SubSeq(SubSeq(path, 1, k - 1), 1, i - 1) \in Guard!Above(path)
      <3>1. \A d \in Guard!Above(path) :
              \E k \in 1 .. Len(path) : path[k] = "/" /\ d = SubSeq(path, 1, k - 1)
        BY <1>1 DEF Guard!Above
      <3> HIDE DEF Guard!Above, S
      <3>2. QED
        BY <3>1
    <2>1. k - 1 \in 0 .. Len(path)
      BY <1>1
    <2> DEFINE e == SubSeq(path, 1, k - 1)
    <2> HIDE DEF S
    <2>2. e \in Seq(S) /\ Len(e) = k - 1 /\ \A i \in 1 .. k - 1 : e[i] = path[i]
      BY <1>1, <2>1, UptoIs DEF Filter!Upto
    <2>3. \A m \in 0 .. k - 1 : SubSeq(e, 1, m) = SubSeq(path, 1, m)
      BY <1>1, <2>1, UptoIs DEF Filter!Upto
    <2> HIDE DEF e
    <2>4. ASSUME NEW i \in 1 .. k - 1, e[i] = "/"
          PROVE  SubSeq(e, 1, i - 1) \in Guard!Above(path)
      <3>1. i \in 1 .. Len(path) /\ i - 1 \in 0 .. k - 1 /\ path[i] = "/"
        BY <1>1, <2>1, <2>2, <2>4
      <3>2. SubSeq(e, 1, i - 1) = SubSeq(path, 1, i - 1)
        BY <3>1, <2>3
      <3>3. QED
        BY <1>1, <3>1, <3>2 DEF Guard!Above
    <2>5. k - 1 \in Nat
      BY <2>1
    <2>6. QED
      BY <2>2, <2>4, <2>5 DEF e
  <1>4. \A d \in Guard!Above(path) : d # Kept
    <2> SUFFICES ASSUME NEW d \in Guard!Above(path), d = Kept PROVE FALSE
      OBVIOUS
    <2>1. Len(d) = 3 /\ d[2] = "/" /\ d[1] = "node_modules" /\ d # <<>>
      OBVIOUS
    <2>2. SubSeq(d, 1, 2 - 1) \in Guard!Above(path) /\ d \in Seq(S)
      BY <1>3, <2>1
    <2>3. SubSeq(d, 1, 1) = <<"node_modules">>
      BY <2>1, <2>2, FirstOf
    <2>4. <<"node_modules">> \in Guard!Above(path)
      <3>1. 2 - 1 = 1
        OBVIOUS
      <3>2. QED
        BY <2>2, <2>3, <3>1
    <2>5. Guard!baseName(<<"node_modules">>) = <<"node_modules">>
      <3> DEFINE one == <<"node_modules">>
      <3>1. one \in Seq({"node_modules"}) /\ Len(one) = 1 /\ one[1] = "node_modules" /\ DOMAIN one = 1 .. 1
            /\ one # <<>>
        OBVIOUS
      <3> HIDE DEF one
      <3>2. {i \in DOMAIN one : one[i] = "/"} = {}
        BY <3>1
      <3>3. Guard!baseName(one) = SubSeq(one, 1 + 0, Len(one))
        BY <3>2 DEF Guard!baseName, Guard!Without
      <3>4. SubSeq(one, 1, 1) = <<one[1]>>
        BY <3>1, FirstOf
      <3>5. QED
        BY <3>1, <3>3, <3>4 DEF one
    <2>6. QED
      BY <2>4, <2>5 DEF Guard!skippedDirs
  <1>5. path # Kept
    <2> SUFFICES ASSUME path = Kept PROVE FALSE
      OBVIOUS
    <2>1. Len(path) = 3 /\ path[3] = ".cache"
      OBVIOUS
    <2>2. QED
      BY <1>2, <2>1
  <1>6. Guard!IsSuffix(<<".map">>, Guard!baseName(path))
    <2>1. Guard!Last(path) = ".map" /\ Guard!Last(path) # "/"
      BY DEF Guard!Ext
    <2>2. /\ Guard!baseName(path) \in Seq(S) /\ Guard!baseName(path) # <<>>
          /\ Guard!Last(Guard!baseName(path)) = ".map"
      BY <1>1, <2>1, BaseIs
    <2>3. QED
      BY <2>2, MapIsASuffix
  <1> HIDE DEF S, Kept
  <1>7. \A d \in Guard!Above(path) : ~Guard!matchRules(Guard!Ignorer, d, TRUE)
    <2> SUFFICES ASSUME NEW d \in Guard!Above(path) PROVE ~Guard!matchRules(Guard!Ignorer, d, TRUE)
      OBVIOUS
    <2>1. d \in Seq(S) /\ d # <<"node_modules", "/", ".cache">>
      BY <1>3, <1>4 DEF Kept
    <2>2. /\ Guard!baseName(d) \notin {<<".git">>, <<"storybook-static">>}
          /\ ~Guard!Starts(Guard!baseName(d), ".env")
      BY DEF Guard!skippedDirs
    <2>3. QED
      BY <2>1, <2>2, OtherRulesMiss
  <1>8. ~Guard!matchRules(Guard!Ignorer, path, FALSE)
    <2>1. path \in Seq(S) /\ path # <<"node_modules", "/", ".cache">>
      BY <1>1, <1>5 DEF Kept
    <2>2. QED
      BY <2>1, <1>6, OtherRulesMiss
  <1>9. ASSUME NEW d \in Guard!Above(path) PROVE ~Guard!Match(Guard!Ignorer, d, TRUE)
    <2>1. DOMAIN d = 1 .. Len(d)
      BY <1>3
    <2>2. \A i \in DOMAIN d : d[i] = "/" => ~Guard!matchRules(Guard!Ignorer, SubSeq(d, 1, i - 1), TRUE)
      BY <1>3, <1>7, <2>1
    <2>3. QED
      BY <1>7, <2>2 DEF Guard!Match
  <1>10. ~Guard!Match(Guard!Ignorer, path, FALSE)
    <2>1. \A i \in DOMAIN path : path[i] = "/" => SubSeq(path, 1, i - 1) \in Guard!Above(path)
      BY DEF Guard!Above
    <2>2. QED
      BY <1>7, <1>8, <2>1 DEF Guard!Match
  <1>11. QED
    BY <1>9, <1>10 DEF Guard!PassedOver, Guard!precompressedExts

\* The invariant of SecretGuard when the verdict is given.
LEMMA ConcludeSteps ==
  ASSUME Guard!Assumed, Guard!TypeOK, Guard!IInv, Guard!Conclude
  PROVE  Guard!TypeOK' /\ Guard!IInv'
  <1>1. /\ next \notin DOMAIN tree /\ tree' = tree /\ ask' = ask /\ next' = next
        /\ matches' = matches /\ passedBy' = passedBy /\ held' = held
        /\ verdict' = IF matches = {} /\ passedBy = {} THEN "clean" ELSE "found"
    BY DEF Guard!Conclude
  <1>2. Len(tree) \in Nat /\ DOMAIN tree = 1 .. Len(tree)
    BY EntryIs
  <1>3. next \in 1 .. Len(tree) + 1
    BY DEF Guard!TypeOK
  <1>4. next = Len(tree) + 1
    BY <1>1, <1>2, <1>3
  <1>5. Guard!TypeOK'
    BY <1>1 DEF Guard!TypeOK
  <1>6. Guard!IInv'
    BY <1>1, <1>4, GuardUnchanged DEF Guard!IInv
  <1>7. QED
    BY <1>5, <1>6

\* A tree that is called clean holds no secret that is not excused, and source maps
\* are searched where they ship.
THEOREM SecretsAreFound ==
  ASSUME Guard!Assumed
  PROVE  Guard!Spec => [](Guard!TypeOK /\ Guard!CleanIsClean /\ Guard!MapsAreSearched)
  <1>1. Guard!TypeOK /\ Guard!IInv /\ [Guard!Next]_(Guard!vars)
          => (Guard!TypeOK /\ Guard!IInv)'
    <2>1. ASSUME Guard!TypeOK, Guard!IInv, UNCHANGED Guard!vars
          PROVE  Guard!TypeOK' /\ Guard!IInv'
      <3>1. /\ tree' = tree /\ ask' = ask /\ next' = next /\ matches' = matches
            /\ passedBy' = passedBy /\ held' = held /\ verdict' = verdict
        BY <2>1 DEF Guard!vars
      <3>2. Guard!TypeOK'
        BY <2>1, <3>1 DEF Guard!TypeOK
      <3>3. Guard!IInv'
        BY <2>1, <3>1, GuardUnchanged DEF Guard!IInv
      <3>4. QED
        BY <3>2, <3>3
    <2>2. QED
      BY <2>1, ScanSteps, ConcludeSteps DEF Guard!Next
  <1>2. ASSUME Guard!TypeOK, Guard!IInv PROVE Guard!CleanIsClean
    <2> SUFFICES ASSUME verdict = "clean", NEW i \in DOMAIN tree
                 PROVE  /\ \A now \in held[i] : \A l \in DOMAIN now.lines, r \in Guard!secretRules :
                             Guard!MatchesLine(r, now.lines[l]) =>
                               Guard!lineIsAnnotated(now, l) \/ (now.lines[l].allowed /\ ask.allow)
                        /\ held[i] = {} => tree[i].kind # "text" \/ Guard!PassedOver(tree[i].path)
      BY DEF Guard!CleanIsClean
    <2>1. next = Len(tree) + 1 /\ matches = {} /\ passedBy = {}
      BY <1>2 DEF Guard!IInv
    <2>2. i < next
      BY <1>2, <2>1, EntryIs
    <2>3. held[i] = {} => tree[i].kind # "text" \/ Guard!PassedOver(tree[i].path)
      BY <1>2, <2>1, <2>2 DEF Guard!IInv
    <2>4. ASSUME NEW now \in held[i], NEW l \in DOMAIN now.lines, NEW r \in Guard!secretRules,
                 Guard!MatchesLine(r, now.lines[l]), ~Guard!lineIsAnnotated(now, l),
                 ~(now.lines[l].allowed /\ ask.allow)
          PROVE  FALSE
      <3>1. now \in {tree[i]} \cup tree[i].later /\ \A m \in Guard!scanBytes(now) : FALSE
        BY <1>2, <2>1 DEF Guard!IInv
      <3>2. Guard!Holds(now)
        BY <1>2, <3>1, EntryIs
      <3>3. r \in Guard!activeRules(now)
        BY <2>4, <3>2, MatchedRuleIsActive
      <3>4. <<l, r>> \in Guard!scanBytes(now)
        BY <2>4, <3>3 DEF Guard!scanBytes
      <3>5. QED
        BY <3>1, <3>4
    <2>5. QED
      BY <2>3, <2>4
  <1>3. ASSUME Guard!TypeOK, Guard!IInv PROVE Guard!MapsAreSearched
    <2> SUFFICES ASSUME verdict # "walking", ask.maps, ask.own = <<>>, NEW i \in DOMAIN tree,
                        Guard!Ext(tree[i].path) = ".map", tree[i].kind = "text",
                        \A d \in Guard!Above(tree[i].path) :
                          /\ Guard!baseName(d) \notin Guard!skippedDirs \cup {<<"storybook-static">>}
                          /\ ~Guard!Starts(Guard!baseName(d), ".env")
                 PROVE  held[i] # {} \/ i \in passedBy
      BY DEF Guard!MapsAreSearched
    <2>1. next = Len(tree) + 1
      BY <1>3 DEF Guard!IInv
    <2>2. i < next
      BY <1>3, <2>1, EntryIs
    <2>3. Guard!IsText(tree[i].path)
      BY <1>3, EntryIs
    <2>4. ~Guard!PassedOver(tree[i].path)
      BY <2>3, MapIsNotPassedOver
    <2>5. QED
      BY <1>3, <2>2, <2>4 DEF Guard!IInv
  <1>4. QED
    BY <1>1, <1>2, <1>3, GuardInit, PTL DEF Guard!Spec

-----------------------------------------------------------------------------
(* A scan for vulnerabilities *)

\* What the assumptions say of the target and the query.
LEMMA TargetIs ==
  ASSUME Scan!Assumed, Scan!TypeOK
  PROVE  /\ Today \in Nat
         /\ query.failOn \in Nat /\ query.offline \in BOOLEAN /\ query.allow \in BOOLEAN
         /\ query.toolchainOnly \in BOOLEAN /\ \A ex \in query.vex : ex.expires \in Nat
         /\ \/ target.kind = "image" /\ target.layers \in Seq(Scan!ToSet(target.layers))
            \/ /\ target.kind = "dir" /\ target.manifest \in BOOLEAN
               /\ target.kit \in [core : Seq(Nat \cup {-1}), pre : Nat]
  <1>1. target \in Targets /\ query \in Scans
    BY DEF Scan!TypeOK
  <1>2. Today \in Nat
    BY DEF Scan!Assumed
  <1>3. /\ query.failOn \in Nat /\ query.offline \in BOOLEAN /\ query.allow \in BOOLEAN
        /\ query.toolchainOnly \in BOOLEAN /\ \A ex \in query.vex : ex.expires \in Nat
    BY <1>1 DEF Scan!Assumed
  <1>4. \/ target.kind = "image" /\ target.layers \in Seq(Scan!ToSet(target.layers))
        \/ /\ target.kind = "dir" /\ target.manifest \in BOOLEAN
           /\ target.kit \in [core : Seq(Nat \cup {-1}), pre : Nat]
    BY <1>1 DEF Scan!Assumed
  <1>5. QED
    BY <1>2, <1>3, <1>4

\* What the assumptions say of a lockfile.
LEMMA LocksAre ==
  ASSUME Scan!Assumed, Scan!TypeOK, target.kind = "dir", NEW l \in target.locks
  PROVE  /\ l.entries \in Seq(Scan!ToSet(l.entries))
         /\ \A i, j \in DOMAIN l.entries :
              (l.entries[i].hoisted /\ l.entries[j].hoisted /\ l.entries[i].name = l.entries[j].name)
                => i = j
  <1>1. target \in Targets
    BY DEF Scan!TypeOK
  <1>2. QED
    BY <1>1 DEF Scan!Assumed

\* The invariant of Scanner when the scan starts.
LEMMA ScanInit == Scan!Assumed /\ Scan!Init => Scan!TypeOK /\ Scan!IInv
  <1> SUFFICES ASSUME Scan!Assumed, Scan!Init PROVE Scan!TypeOK /\ Scan!IInv
    OBVIOUS
  <1>1. /\ target \in Targets /\ query \in Scans
        /\ phase = "start" /\ found = {} /\ incomplete = FALSE /\ resolved = FALSE /\ skipped = {}
        /\ packages = Nothing /\ bill = Nothing
    BY DEF Scan!Init
  <1>2. Scan!TypeOK
    BY <1>1 DEF Scan!TypeOK
  <1>3. Scan!ByPhase /\ Scan!Remembered /\ Scan!OwnFound /\ Scan!AllAsked /\ Scan!GapsAreKnown
    BY <1>1 DEF Scan!ByPhase, Scan!Remembered, Scan!OwnFound, Scan!AllAsked, Scan!GapsAreKnown, Scan!Verdicts
  <1>4. Scan!Judged /\ Scan!BillIsOfTheImage
    BY <1>1 DEF Scan!Judged, Scan!BillIsOfTheImage
  <1>5. QED
    BY <1>2, <1>3, <1>4 DEF Scan!IInv

\* What is asked does not change.
LEMMA SameScan ==
  ASSUME target' = target, query' = query
  PROVE  /\ Scan!Whole' = Scan!Whole /\ Scan!requestedBunVersion' = Scan!requestedBunVersion
         /\ Scan!Known' = Scan!Known
  BY DEF Scan!Whole, Scan!requestedBunVersion, Scan!Known, Scan!Ships

\* The invariant of Scanner when the target is looked at.
LEMMA BeginSteps ==
  ASSUME Scan!Assumed, Scan!TypeOK, Scan!IInv, Scan!Begin
  PROVE  Scan!TypeOK' /\ Scan!IInv'
  <1>1. /\ phase = "start" /\ phase' = (IF target.kind = "dir" THEN "toolchain" ELSE "image")
        /\ target' = target /\ query' = query /\ found' = found /\ incomplete' = incomplete
        /\ resolved' = resolved /\ skipped' = skipped /\ packages' = packages /\ bill' = bill
    BY DEF Scan!Begin
  <1>2. target.kind \in {"dir", "image"}
    BY TargetIs
  <1>3. Scan!TypeOK'
    BY <1>1 DEF Scan!TypeOK
  <1>4. Scan!ByPhase' /\ Scan!Remembered'
    BY <1>1, <1>2 DEF Scan!IInv, Scan!ByPhase, Scan!Remembered
  <1>5. Scan!OwnFound' /\ Scan!AllAsked' /\ Scan!GapsAreKnown'
    BY <1>1 DEF Scan!IInv, Scan!ByPhase, Scan!OwnFound, Scan!AllAsked, Scan!GapsAreKnown, Scan!Verdicts
  <1>6. Scan!Judged' /\ Scan!BillIsOfTheImage'
    BY <1>1 DEF Scan!IInv, Scan!Judged, Scan!BillIsOfTheImage
  <1>7. QED
    BY <1>3, <1>4, <1>5, <1>6 DEF Scan!IInv

\* The invariant of Scanner when the toolchain is asked about.
LEMMA ToolchainSteps ==
  ASSUME Scan!Assumed, Scan!TypeOK, Scan!IInv, Scan!scanProjectToolchain
  PROVE  Scan!TypeOK' /\ Scan!IInv'
  <1> DEFINE kit == target.kit
             own == Scan!checkEmbeddedAdvisories(query.runtime, Scan!requestedBunVersion, kit)
             asks == IF kit = Scan!NoVersion THEN {} ELSE Scan!Kit(kit)
  <1>1. /\ phase = "toolchain" /\ target' = target /\ query' = query /\ packages' = packages /\ bill' = bill
        /\ \/ /\ ~target.manifest /\ phase' = "dependencies" /\ skipped' = skipped \cup {"toolchain"}
              /\ found' = found /\ incomplete' = incomplete /\ resolved' = resolved
           \/ /\ target.manifest /\ resolved' = TRUE /\ query.offline
              /\ Scan!Without("kit", own, "dependencies", FALSE)
           \/ /\ target.manifest /\ resolved' = TRUE /\ ~query.offline
              /\ Scan!Lookup("kit", asks, own, "dependencies")
    BY DEF Scan!scanProjectToolchain
  <1>2. Scan!Without("kit", own, "dependencies", FALSE) =>
          /\ found' = found \cup own /\ skipped' = skipped \cup {"kit"}
          /\ incomplete' = incomplete /\ phase' = "dependencies"
    BY DEF Scan!Without, Scan!TypeOK
  <1>3. Scan!Lookup("kit", asks, own, "dependencies") =>
          /\ own \subseteq found' /\ phase' = "dependencies"
          /\ \/ incomplete' = incomplete /\ skipped' = skipped
             \/ incomplete' = TRUE /\ skipped' = skipped \cup {"kit"}
    BY DEF Scan!Lookup
  <1>4. target.kind = "dir" /\ skipped = {} /\ ~resolved
    BY <1>1 DEF Scan!IInv, Scan!ByPhase
  <1> HIDE DEF own, asks, kit
  <1>5. /\ phase' = "dependencies"
        /\ target.manifest => own \subseteq found'
        /\ incomplete' \in BOOLEAN /\ resolved' \in BOOLEAN
        /\ skipped' \subseteq {"toolchain", "kit"}
        /\ skipped' = {} \/ incomplete' \/ ~resolved' \/ query.offline
    <2>1. incomplete \in BOOLEAN /\ resolved \in BOOLEAN /\ query.offline \in BOOLEAN
      BY TargetIs DEF Scan!TypeOK
    <2>2. CASE ~target.manifest
      <3>1. /\ phase' = "dependencies" /\ skipped' = skipped \cup {"toolchain"}
            /\ incomplete' = incomplete /\ resolved' = resolved
        BY <2>2, <1>1
      <3>2. incomplete' \in BOOLEAN /\ resolved' \in BOOLEAN
        BY <2>1, <3>1
      <3>3. ~resolved'
        BY <2>1, <3>1, <1>4
      <3>4. skipped' \subseteq {"toolchain", "kit"}
        BY <3>1, <1>4
      <3>5. QED
        BY <2>2, <3>1, <3>2, <3>3, <3>4
    <2>3. CASE target.manifest /\ query.offline
      BY <2>1, <2>3, <1>1, <1>2, <1>4
    <2>4. CASE target.manifest /\ ~query.offline
      BY <2>1, <2>4, <1>1, <1>3, <1>4
    <2>5. QED
      BY <2>1, <2>2, <2>3, <2>4
  <1>6. Scan!TypeOK'
    BY <1>1, <1>5 DEF Scan!TypeOK
  <1>7. Scan!ByPhase' /\ Scan!Remembered'
    BY <1>1, <1>4, <1>5 DEF Scan!IInv, Scan!ByPhase, Scan!Remembered
  <1>8. Scan!OwnFound'
    BY <1>1, <1>5, SameScan DEF Scan!OwnFound, own, kit
  <1>9. Scan!AllAsked' /\ Scan!GapsAreKnown'
    BY <1>1, <1>5 DEF Scan!AllAsked, Scan!GapsAreKnown, Scan!Verdicts
  <1>10. Scan!Judged' /\ Scan!BillIsOfTheImage'
    BY <1>1, <1>5 DEF Scan!IInv, Scan!Judged, Scan!BillIsOfTheImage
  <1>11. QED
    BY <1>6, <1>7, <1>8, <1>9, <1>10 DEF Scan!IInv

\* The invariant of Scanner when the dependencies are asked about.
LEMMA DependencySteps ==
  ASSUME Scan!Assumed, Scan!TypeOK, Scan!IInv, Scan!scanProjectDependencies
  PROVE  Scan!TypeOK' /\ Scan!IInv'
  <1> DEFINE asks == Scan!Versioned(Scan!ExtractProjectDependencies(target))
  <1>1. /\ phase = "dependencies" /\ target' = target /\ query' = query /\ packages' = packages
        /\ bill' = bill /\ resolved' = resolved
        /\ \/ query.toolchainOnly /\ phase' = "judge" /\ UNCHANGED <<found, incomplete, skipped>>
           \/ /\ query.offline /\ ~query.toolchainOnly
              /\ Scan!Without("dependencies", {}, "judge", TRUE)
           \/ /\ ~query.offline /\ ~query.toolchainOnly
              /\ Scan!Lookup("dependencies", asks, {}, "judge")
    <2>1. query.offline \in BOOLEAN /\ query.toolchainOnly \in BOOLEAN
      BY TargetIs
    <2>2. QED
      BY <2>1 DEF Scan!scanProjectDependencies
  <1>2. Scan!Without("dependencies", {}, "judge", TRUE) =>
          /\ found' = found /\ skipped' = skipped \cup {"dependencies"}
          /\ incomplete' = TRUE /\ phase' = "judge"
    BY DEF Scan!Without, Scan!TypeOK
  <1>3. Scan!Lookup("dependencies", asks, {}, "judge") =>
          /\ found \subseteq found' /\ phase' = "judge"
          /\ \/ incomplete' = incomplete /\ skipped' = skipped /\ Scan!queryOSVBatch(asks) \subseteq found'
             \/ incomplete' = TRUE /\ skipped' = skipped \cup {"dependencies"}
    BY DEF Scan!Lookup
  <1>4. target.kind = "dir"
    BY <1>1 DEF Scan!IInv, Scan!ByPhase
  <1> HIDE DEF asks
  <1>5. /\ phase' = "judge" /\ found \subseteq found'
        /\ incomplete' \in BOOLEAN /\ skipped' \subseteq {"toolchain", "kit", "dependencies", "image"}
        /\ ~incomplete' /\ ~query.offline /\ ~query.toolchainOnly => Scan!queryOSVBatch(asks) \subseteq found'
    BY <1>1, <1>2, <1>3 DEF Scan!TypeOK
  <1>6. Scan!TypeOK'
    BY <1>1, <1>5 DEF Scan!TypeOK
  <1>7. Scan!ByPhase' /\ Scan!Remembered'
    BY <1>1, <1>4, <1>5 DEF Scan!IInv, Scan!ByPhase, Scan!Remembered
  <1>8. Scan!OwnFound'
    BY <1>1, <1>5, SameScan DEF Scan!IInv, Scan!OwnFound
  <1>9. Scan!AllAsked'
    <2>1. asks = Scan!Versioned(Scan!Whole)
      BY <1>4 DEF Scan!Whole, asks
    <2>2. QED
      BY <1>1, <1>4, <1>5, <2>1, SameScan DEF Scan!AllAsked
  <1>10. Scan!GapsAreKnown'
    <2>1. \/ skipped = {} \/ incomplete \/ ~resolved \/ query.offline
      BY DEF Scan!IInv, Scan!GapsAreKnown
    <2>2. skipped' = {} \/ incomplete' \/ ~resolved \/ (query.offline /\ query.toolchainOnly)
      <3>1. CASE query.toolchainOnly
        BY <3>1, <1>1, <2>1
      <3>2. CASE ~query.toolchainOnly /\ query.offline
        BY <3>2, <1>1, <1>2
      <3>3. CASE ~query.toolchainOnly /\ ~query.offline
        <4>1. incomplete \in BOOLEAN
          BY DEF Scan!TypeOK
        <4>2. incomplete' = TRUE \/ (incomplete' = incomplete /\ skipped' = skipped)
          BY <3>3, <1>1, <1>3
        <4>3. skipped = {} \/ incomplete \/ ~resolved
          BY <3>3, <2>1
        <4>4. QED
          BY <4>1, <4>2, <4>3
      <3>4. QED
        BY <3>1, <3>2, <3>3
    <2>3. QED
      BY <1>1, <1>5, <2>2 DEF Scan!GapsAreKnown, Scan!Verdicts
  <1>11. Scan!Judged' /\ Scan!BillIsOfTheImage'
    BY <1>1, <1>5 DEF Scan!IInv, Scan!Judged, Scan!BillIsOfTheImage
  <1>12. QED
    BY <1>6, <1>7, <1>8, <1>9, <1>10, <1>11 DEF Scan!IInv

\* The packages remembered of an image are the image's.
LEMMA ListingIs ==
  ASSUME Scan!IInv
  PROVE  Scan!Listing = Scan!ImagePackages(target.layers)
  BY DEF Scan!IInv, Scan!Remembered, Scan!Listing

\* The invariant of Scanner when an image is asked about.
LEMMA ImageSteps ==
  ASSUME Scan!Assumed, Scan!TypeOK, Scan!IInv, Scan!scanImageOrTarball
  PROVE  Scan!TypeOK' /\ Scan!IInv'
  <1> DEFINE all == Scan!ImagePackages(target.layers)
             direct == Scan!checkEmbeddedAdvisories(query.runtime, query.bun, Scan!NoVersion)
             own == direct \cup Scan!Observed(all)
             asks == Scan!Versioned(all)
  <1>1. /\ phase = "image" /\ target' = target /\ query' = query /\ bill' = bill
        /\ packages' = packages \/ packages' = all
        /\ \/ Scan!Without("image", direct, "judge", TRUE) /\ resolved' = resolved
           \/ /\ resolved' = TRUE /\ query.offline
              /\ Scan!Without("image", own, "judge", FALSE)
           \/ /\ resolved' = TRUE /\ ~query.offline
              /\ Scan!Lookup("image", asks, own, "judge")
    <2>1. PICK list \in {all, Nothing} :
            /\ phase = "image" /\ target' = target /\ query' = query /\ bill' = bill
            /\ Scan!ExtractImagePackages(list)
            /\ IF list = Nothing
               THEN Scan!Without("image", direct, "judge", TRUE) /\ UNCHANGED resolved
               ELSE /\ resolved' = TRUE
                    /\ IF query.offline
                       THEN Scan!Without("image", direct \cup Scan!Observed(list), "judge", FALSE)
                       ELSE Scan!Lookup("image", Scan!Versioned(list), direct \cup Scan!Observed(list), "judge")
      <3> HIDE DEF Scan!Without, Scan!Lookup, Scan!ExtractImagePackages
      <3>1. QED
        BY ListingIs DEF Scan!scanImageOrTarball
    <2>2. packages' = packages \/ packages' = all
      BY <2>1, ListingIs DEF Scan!ExtractImagePackages
    <2>3. query.offline \in BOOLEAN
      BY TargetIs
    <2> HIDE DEF all, direct
    <2>4. QED
      BY <2>1, <2>2, <2>3
  <1>2. Scan!Without("image", direct, "judge", TRUE) =>
          /\ skipped' = skipped \cup {"image"} /\ incomplete' = TRUE /\ phase' = "judge"
    BY DEF Scan!Without
  <1>3. Scan!Without("image", own, "judge", FALSE) =>
          /\ skipped' = skipped \cup {"image"} /\ incomplete' = incomplete /\ phase' = "judge"
    BY DEF Scan!Without, Scan!TypeOK
  <1>4. Scan!Lookup("image", asks, own, "judge") =>
          /\ phase' = "judge"
          /\ \/ incomplete' = incomplete /\ skipped' = skipped /\ Scan!queryOSVBatch(asks) \subseteq found'
             \/ incomplete' = TRUE /\ skipped' = skipped \cup {"image"}
    BY DEF Scan!Lookup
  <1>5. target.kind = "image" /\ skipped = {} /\ ~resolved
    BY <1>1 DEF Scan!IInv, Scan!ByPhase
  <1> HIDE DEF direct, own, asks, all
  <1>6. /\ phase' = "judge" /\ incomplete' \in BOOLEAN /\ resolved' \in BOOLEAN
        /\ skipped' \subseteq {"image"}
        /\ ~incomplete' /\ ~query.offline => Scan!queryOSVBatch(asks) \subseteq found' /\ skipped' = {}
    <2>1. incomplete \in BOOLEAN /\ resolved \in BOOLEAN /\ query.offline \in BOOLEAN
      BY TargetIs DEF Scan!TypeOK
    <2>2. CASE Scan!Without("image", direct, "judge", TRUE) /\ resolved' = resolved
      BY <2>1, <2>2, <1>2, <1>5
    <2>3. CASE resolved' = TRUE /\ query.offline /\ Scan!Without("image", own, "judge", FALSE)
      BY <2>1, <2>3, <1>3, <1>5
    <2>4. CASE resolved' = TRUE /\ ~query.offline /\ Scan!Lookup("image", asks, own, "judge")
      BY <2>1, <2>4, <1>4, <1>5
    <2>5. QED
      BY <1>1, <2>2, <2>3, <2>4
  <1>7. Scan!TypeOK'
    BY <1>1, <1>6 DEF Scan!TypeOK
  <1>8. Scan!ByPhase' /\ Scan!Remembered'
    BY <1>1, <1>5, <1>6 DEF Scan!IInv, Scan!ByPhase, Scan!Remembered, all
  <1>9. Scan!OwnFound'
    BY <1>1, <1>5 DEF Scan!OwnFound
  <1>10. Scan!AllAsked'
    <2>1. asks = Scan!Versioned(Scan!Whole)
      BY <1>5 DEF Scan!Whole, asks, all
    <2>2. QED
      BY <1>1, <1>6, <2>1, SameScan DEF Scan!AllAsked
  <1>11. Scan!GapsAreKnown'
    BY <1>1, <1>5, <1>6 DEF Scan!GapsAreKnown, Scan!Verdicts
  <1>12. Scan!Judged' /\ Scan!BillIsOfTheImage'
    BY <1>1, <1>6 DEF Scan!IInv, Scan!Judged, Scan!BillIsOfTheImage
  <1>13. QED
    BY <1>7, <1>8, <1>9, <1>10, <1>11, <1>12 DEF Scan!IInv

\* The invariant of Scanner when the verdict is given.
LEMMA JudgeSteps ==
  ASSUME Scan!Assumed, Scan!TypeOK, Scan!IInv, Scan!Judge
  PROVE  Scan!TypeOK' /\ Scan!IInv'
  <1> DEFINE counted == {v \in found : ~Scan!activeVEXExemption(v, query.vex)}
  <1>1. /\ phase = "judge" /\ incomplete' = (incomplete \/ ~resolved)
        /\ phase' = (IF \E v \in counted : v.sev >= query.failOn THEN "exceeded"
                     ELSE IF incomplete' /\ ~query.offline /\ ~query.allow THEN "reduced" ELSE "passed")
        /\ target' = target /\ query' = query /\ found' = found /\ resolved' = resolved
        /\ skipped' = skipped /\ packages' = packages /\ bill' = bill
    BY DEF Scan!Judge
  <1>2. phase' \in {"exceeded", "reduced", "passed"}
    <2> HIDE DEF counted
    <2>1. QED
      BY <1>1
  <1>3. incomplete' \in BOOLEAN /\ resolved \in BOOLEAN /\ incomplete \in BOOLEAN
    BY <1>1 DEF Scan!TypeOK
  <1>4. (incomplete' <=> incomplete \/ ~resolved)
    BY <1>1, <1>3
  <1>5. Scan!TypeOK'
    BY <1>1, <1>2, <1>3 DEF Scan!TypeOK, Scan!Verdicts
  <1>6. Scan!ByPhase' /\ Scan!Remembered'
    BY <1>1, <1>2 DEF Scan!IInv, Scan!ByPhase, Scan!Remembered
  <1>7. Scan!OwnFound' /\ Scan!AllAsked'
    BY <1>1, <1>2, <1>4, SameScan DEF Scan!IInv, Scan!OwnFound, Scan!AllAsked
  <1>8. Scan!GapsAreKnown'
    BY <1>1, <1>2, <1>3, <1>4 DEF Scan!IInv, Scan!GapsAreKnown
  <1>9. Scan!Judged'
    <2>1. phase' = "passed" =>
            /\ \A v \in counted : ~(v.sev >= query.failOn)
            /\ query.offline \/ query.allow \/ ~incomplete'
      <3> HIDE DEF counted
      <3>1. QED
        BY <1>1
    <2>2. QED
      BY <1>1, <2>1 DEF Scan!Judged
  <1>10. Scan!BillIsOfTheImage'
    BY <1>1 DEF Scan!IInv, Scan!BillIsOfTheImage
  <1>11. QED
    BY <1>5, <1>6, <1>7, <1>8, <1>9, <1>10 DEF Scan!IInv

\* The invariant of Scanner when the bill is written.
LEMMA BillSteps ==
  ASSUME Scan!Assumed, Scan!TypeOK, Scan!IInv, Scan!WriteBill
  PROVE  Scan!TypeOK' /\ Scan!IInv'
  <1> DEFINE all == Scan!ImagePackages(target.layers)
  <1>1. /\ target.kind = "image" /\ target' = target /\ query' = query /\ phase' = phase
        /\ found' = found /\ incomplete' = incomplete /\ resolved' = resolved /\ skipped' = skipped
        /\ packages' = packages \/ packages' = all
        /\ bill' \in {{}, all}
    <2>1. PICK list \in {all, Nothing} :
            /\ target.kind = "image" /\ target' = target /\ query' = query /\ phase' = phase
            /\ found' = found /\ incomplete' = incomplete /\ resolved' = resolved /\ skipped' = skipped
            /\ Scan!ExtractImagePackages(list)
            /\ bill' = IF list = Nothing THEN {} ELSE list
      BY ListingIs DEF Scan!WriteBill
    <2>2. packages' = packages \/ packages' = all
      BY <2>1, ListingIs DEF Scan!ExtractImagePackages
    <2> HIDE DEF all
    <2>3. QED
      BY <2>1, <2>2
  <1> HIDE DEF all
  <1>2. Scan!TypeOK'
    BY <1>1 DEF Scan!TypeOK
  <1>3. Scan!ByPhase' /\ Scan!Remembered' /\ Scan!BillIsOfTheImage'
    BY <1>1 DEF Scan!IInv, Scan!ByPhase, Scan!Remembered, Scan!BillIsOfTheImage, all
  <1>4. Scan!OwnFound' /\ Scan!AllAsked'
    BY <1>1, SameScan DEF Scan!IInv, Scan!OwnFound, Scan!AllAsked
  <1>5. Scan!GapsAreKnown' /\ Scan!Judged'
    BY <1>1 DEF Scan!IInv, Scan!GapsAreKnown, Scan!Judged
  <1>6. QED
    BY <1>2, <1>3, <1>4, <1>5 DEF Scan!IInv

\* The invariant of Scanner is inductive.
LEMMA ScanInvariant ==
  Scan!Assumed => (Scan!Spec => [](Scan!TypeOK /\ Scan!IInv))
  <1> SUFFICES ASSUME Scan!Assumed PROVE Scan!Spec => [](Scan!TypeOK /\ Scan!IInv)
    OBVIOUS
  <1>1. Scan!TypeOK /\ Scan!IInv /\ [Scan!Next]_(Scan!vars) => (Scan!TypeOK /\ Scan!IInv)'
    <2>1. ASSUME Scan!TypeOK, Scan!IInv, UNCHANGED Scan!vars
          PROVE  Scan!TypeOK' /\ Scan!IInv'
      <3>1. /\ target' = target /\ query' = query /\ phase' = phase /\ found' = found
            /\ incomplete' = incomplete /\ resolved' = resolved /\ skipped' = skipped
            /\ packages' = packages /\ bill' = bill
        BY <2>1 DEF Scan!vars
      <3>2. Scan!TypeOK'
        BY <2>1, <3>1 DEF Scan!TypeOK
      <3>3. Scan!ByPhase' /\ Scan!Remembered' /\ Scan!BillIsOfTheImage'
        BY <2>1, <3>1 DEF Scan!IInv, Scan!ByPhase, Scan!Remembered, Scan!BillIsOfTheImage
      <3>4. Scan!OwnFound' /\ Scan!AllAsked'
        BY <2>1, <3>1, SameScan DEF Scan!IInv, Scan!OwnFound, Scan!AllAsked
      <3>5. Scan!GapsAreKnown' /\ Scan!Judged'
        BY <2>1, <3>1 DEF Scan!IInv, Scan!GapsAreKnown, Scan!Judged
      <3>6. QED
        BY <3>2, <3>3, <3>4, <3>5 DEF Scan!IInv
    <2>2. QED
      BY <2>1, BeginSteps, ToolchainSteps, DependencySteps, ImageSteps, JudgeSteps, BillSteps DEF Scan!Next
  <1>2. QED
    BY <1>1, ScanInit, PTL DEF Scan!Spec

\* The copy of a package that counts is one of the copies.
LEMMA CopyIs ==
  ASSUME NEW S, NEW entries \in Seq(S), NEW n \in Scan!Names(entries)
  PROVE  /\ \E k \in Scan!Copies(entries, n) : Scan!OneCopy(entries, n) = entries[k]
         /\ \A i \in Scan!Copies(entries, n) :
              (/\ entries[i].hoisted
               /\ \A j \in Scan!Copies(entries, n) : entries[j].hoisted => i = j)
                => Scan!OneCopy(entries, n) = entries[i]
  <1> DEFINE copies == Scan!Copies(entries, n)
             high == {i \in copies : entries[i].hoisted}
  <1>1. copies \in SUBSET Nat /\ copies # {}
    <2>1. DOMAIN entries \subseteq Nat
      OBVIOUS
    <2>2. QED
      BY <2>1 DEF Scan!Copies, Scan!Concrete, Scan!Names
  <1>2. \A T : T \in SUBSET Nat /\ T # {} => Scan!First(T) \in T
    <2> SUFFICES ASSUME NEW T, T \in SUBSET Nat, T # {} PROVE Scan!First(T) \in T
      OBVIOUS
    <2>1. \E x \in T : \A y \in T : x <= y
      BY LeastOf
    <2>2. QED
      BY <2>1 DEF Scan!First
  <1>3. Scan!OneCopy(entries, n) =
          IF high # {} THEN entries[Scan!First(high)] ELSE entries[Scan!First(copies)]
    BY DEF Scan!OneCopy, Scan!FirstCopy
  <1>4. high \subseteq copies
    OBVIOUS
  <1>5. \E k \in copies : Scan!OneCopy(entries, n) = entries[k]
    <2> HIDE DEF copies, high
    <2>1. CASE high # {}
      <3>1. high \in SUBSET Nat
        BY <1>1, <1>4
      <3>2. Scan!First(high) \in high
        BY <2>1, <3>1, <1>2
      <3>3. QED
        BY <2>1, <3>2, <1>3, <1>4
    <2>2. CASE high = {}
      <3>1. Scan!First(copies) \in copies
        BY <1>1, <1>2
      <3>2. QED
        BY <2>2, <3>1, <1>3
    <2>3. QED
      BY <2>1, <2>2
  <1>6. ASSUME NEW i \in copies, entries[i].hoisted, \A j \in copies : entries[j].hoisted => i = j
        PROVE  Scan!OneCopy(entries, n) = entries[i]
    <2>1. i \in high /\ \A j \in high : j = i
      BY <1>6
    <2> HIDE DEF copies, high
    <2>2. high \in SUBSET Nat /\ high # {}
      BY <1>1, <1>4, <2>1
    <2>3. Scan!First(high) \in high
      BY <1>2, <2>2
    <2>4. Scan!First(high) = i
      BY <2>1, <2>3
    <2>5. QED
      BY <1>3, <2>2, <2>4
  <1>7. QED
    BY <1>5, <1>6

\* An entry of a lockfile that has a version is a copy of a name it lists.
LEMMA EntriesNamed ==
  ASSUME NEW S, NEW entries \in Seq(S), NEW e \in Scan!ToSet(entries), e.version # Scan!NoVersion
  PROVE  /\ e.name \in Scan!Names(entries)
         /\ \E i \in Scan!Copies(entries, e.name) : e = entries[i]
  <1>1. PICK i \in DOMAIN entries : e = entries[i]
    BY DEF Scan!ToSet
  <1>2. i \in Scan!Concrete(entries)
    BY <1>1 DEF Scan!Concrete
  <1>3. QED
    BY <1>1, <1>2 DEF Scan!Names, Scan!Copies

\* What production needs can be reached from the roots, in as many steps as it
\* takes; the property follows three.
LEMMA NeededIsListed ==
  ASSUME Scan!Assumed, Scan!TypeOK PROVE Scan!ProductionIsListed
  <1> SUFFICES ASSUME target.kind = "dir", NEW l \in Scan!Lock(target, {"bun"})
               PROVE  LET entries == {e \in Scan!ToSet(l.entries) : e.version # Scan!NoVersion}
                          Needs(names) == names \cup UNION {e.deps : e \in {x \in entries : x.name \in names}}
                          alike == \A e, f \in entries : e.name = f.name => e.deps = f.deps
                      IN alike => \A n \in Needs(Needs(Needs(l.roots))) \cap {e.name : e \in entries} :
                                    \E p \in Scan!ParseBunLock(l) : p.name = n /\ p.scope = "production"
    BY DEF Scan!ProductionIsListed
  <1> DEFINE entries == {e \in Scan!ToSet(l.entries) : e.version # Scan!NoVersion}
             Needs(names) == names \cup UNION {e.deps : e \in {x \in entries : x.name \in names}}
             Listed == Scan!Names(l.entries)
             Closed(names) == /\ l.roots \cap Listed \subseteq names
                              /\ \A n \in names : Scan!OneCopy(l.entries, n).deps \cap Listed \subseteq names
  <1> SUFFICES ASSUME \A e, f \in entries : e.name = f.name => e.deps = f.deps,
                      NEW n \in Needs(Needs(Needs(l.roots))), n \in {e.name : e \in entries}
               PROVE  \E p \in Scan!ParseBunLock(l) : p.name = n /\ p.scope = "production"
    BY Zenon
  <1>1. l.entries \in Seq(Scan!ToSet(l.entries))
    BY LocksAre DEF Scan!Lock
  <1>2. \A e \in entries : e.name \in Listed
    BY <1>1, EntriesNamed
  <1>3. n \in Listed
    BY <1>2
  <1>4. ASSUME NEW names \in SUBSET Listed, Closed(names), NEW X, X \cap Listed \subseteq names
        PROVE  Needs(X) \cap Listed \subseteq names
    <2> SUFFICES ASSUME NEW m \in Needs(X), m \in Listed, m \notin X PROVE m \in names
      BY <1>4
    <2>1. PICK e \in entries : e.name \in X /\ m \in e.deps
      OBVIOUS
    <2>2. e.name \in names
      BY <1>2, <1>4, <2>1
    <2>3. PICK k \in Scan!Copies(l.entries, e.name) : Scan!OneCopy(l.entries, e.name) = l.entries[k]
      BY <1>1, <1>2, CopyIs
    <2>4. l.entries[k] \in entries /\ l.entries[k].name = e.name
      BY <1>1 DEF Scan!Copies, Scan!Concrete, Scan!ToSet
    <2>5. Scan!OneCopy(l.entries, e.name).deps = e.deps
      BY <2>3, <2>4
    <2>6. QED
      BY <1>4, <2>1, <2>2, <2>5
  <1> HIDE DEF Needs
  <1>5. ASSUME NEW names \in SUBSET Listed, Closed(names)
        PROVE  n \in names
    <2>1. l.roots \cap Listed \subseteq names
      BY <1>5
    <2>2. Needs(l.roots) \cap Listed \subseteq names
      BY <1>4, <1>5, <2>1
    <2>3. Needs(Needs(l.roots)) \cap Listed \subseteq names
      BY <1>4, <1>5, <2>2
    <2>4. Needs(Needs(Needs(l.roots))) \cap Listed \subseteq names
      BY <1>4, <1>5, <2>3
    <2>5. QED
      BY <1>3, <2>4
  <1>6. n \in Scan!ReachableFrom(l.roots, l.entries)
    BY <1>3, <1>5 DEF Scan!ReachableFrom
  <1>7. Scan!Package(n, Scan!OneCopy(l.entries, n).version, Scan!Npm, "production") \in Scan!ParseBunLock(l)
    <2> HIDE DEF entries, Closed
    <2>1. QED
      BY <1>3, <1>6 DEF Scan!ParseBunLock
  <1>8. QED
    BY <1>7 DEF Scan!Package

\* The segments of a version, and the first one that tells two versions apart.
Segment(core, i) == IF i <= Len(core) THEN core[i] ELSE 0
Differ(v, w, n) == {i \in 1..n : Segment(v, i) # Segment(w, i)}

\* A segment of a release is a number, and 0 past its end.
LEMMA SegmentIs ==
  ASSUME NEW core \in Seq(Nat), NEW i \in Nat \ {0}
  PROVE  Segment(core, i) \in Nat /\ (i > Len(core) => Segment(core, i) = 0)
  <1>1. Len(core) \in Nat
    OBVIOUS
  <1>2. i <= Len(core) => core[i] \in Nat
    OBVIOUS
  <1>3. QED
    BY <1>1, <1>2 DEF Segment

\* What the code compares is told by the first segment that differs.
LEMMA CoresCompared ==
  ASSUME NEW v \in Seq(Nat), NEW w \in Seq(Nat)
  PROVE  LET n == Len(v) + Len(w)
             c == Scan!compareNumericCores(v, w)
         IN \/ c = 0 /\ \A i \in 1..n : Segment(v, i) = Segment(w, i)
            \/ \E i \in 1..n : /\ \A j \in 1..i - 1 : Segment(v, j) = Segment(w, j)
                               /\ \/ c = 1 /\ Segment(v, i) > Segment(w, i)
                                  \/ c = -1 /\ Segment(v, i) < Segment(w, i)
  <1> DEFINE n == Len(v) + Len(w)
             m == IF Len(v) > Len(w) THEN Len(v) ELSE Len(w)
             first == CHOOSE i \in Differ(v, w, m) : \A j \in Differ(v, w, m) : i <= j
             c == Scan!compareNumericCores(v, w)
  <1>1. /\ m \in Nat /\ n \in Nat /\ m <= n /\ Len(v) <= m /\ Len(w) <= m
        /\ Len(v) \in Nat /\ Len(w) \in Nat
    OBVIOUS
  <1>2. c = IF Differ(v, w, m) = {} THEN 0
            ELSE IF Segment(v, first) = -1 \/ Segment(w, first) = -1 \/ Segment(v, first) < Segment(w, first)
                 THEN -1 ELSE 1
    BY Zenon DEF Scan!compareNumericCores, Differ, Segment
  <1> HIDE DEF c, m, n, first
  <1>3. CASE Differ(v, w, m) = {}
    <2>1. c = 0
      BY <1>2, <1>3
    <2>2. ASSUME NEW i \in 1..n PROVE Segment(v, i) = Segment(w, i)
      <3>1. CASE i <= m
        BY <1>1, <1>3, <3>1 DEF Differ
      <3>2. CASE i > m
        <4>1. i \in Nat \ {0} /\ i > Len(v) /\ i > Len(w)
          BY <1>1, <3>2
        <4>2. Segment(v, i) = 0 /\ Segment(w, i) = 0
          BY <4>1, SegmentIs
        <4>3. QED
          BY <4>2
      <3>3. QED
        BY <1>1, <3>1, <3>2
    <2>3. QED
      BY <2>1, <2>2 DEF n, c
  <1>4. CASE Differ(v, w, m) # {}
    <2>1. Differ(v, w, m) \in SUBSET Nat
      BY <1>1 DEF Differ
    <2>2. \E x \in Differ(v, w, m) : \A y \in Differ(v, w, m) : x <= y
      BY <1>4, <2>1, LeastOf
    <2>3. first \in Differ(v, w, m) /\ \A j \in Differ(v, w, m) : first <= j
      BY <2>2 DEF first
    <2>4. first \in 1..m /\ first \in 1..n /\ Segment(v, first) # Segment(w, first)
      BY <1>1, <2>3 DEF Differ
    <2>5. Segment(v, first) \in Nat /\ Segment(w, first) \in Nat
      BY <1>1, <2>4, SegmentIs
    <2>6. ASSUME NEW j \in 1..first - 1 PROVE Segment(v, j) = Segment(w, j)
      <3>1. j \in 1..m /\ ~(first <= j)
        BY <1>1, <2>4
      <3>2. QED
        BY <2>3, <3>1 DEF Differ
    <2>7. \/ c = 1 /\ Segment(v, first) > Segment(w, first)
          \/ c = -1 /\ Segment(v, first) < Segment(w, first)
      BY <1>2, <1>4, <2>4, <2>5
    <2>8. QED
      BY <2>4, <2>6, <2>7 DEF n, c
  <1>5. QED
    BY <1>3, <1>4

\* The order of the code is the order that is meant, where both are numbers.
LEMMA OrderIs ==
  ASSUME NEW v \in Scan!Release, NEW w \in Scan!Release
  PROVE  /\ ~Scan!Newer(v, w) => Scan!compareVersions(v, w) <= 0
         /\ Scan!Newer(w, v) => Scan!compareVersions(v, w) < 0
  <1> DEFINE n == Len(v.core) + Len(w.core)
             c == Scan!compareNumericCores(v.core, w.core)
  <1>1. /\ v.core \in Seq(Nat) /\ w.core \in Seq(Nat) /\ v.pre \in Nat /\ w.pre \in Nat
        /\ n \in Nat /\ Len(w.core) + Len(v.core) = n
    BY DEF Scan!Release
  <1>2. \/ c = 0 /\ \A i \in 1..n : Segment(v.core, i) = Segment(w.core, i)
        \/ \E i \in 1..n : /\ \A j \in 1..i - 1 : Segment(v.core, j) = Segment(w.core, j)
                           /\ \/ c = 1 /\ Segment(v.core, i) > Segment(w.core, i)
                              \/ c = -1 /\ Segment(v.core, i) < Segment(w.core, i)
    BY <1>1, CoresCompared
  <1>3. Scan!Newer(v, w) <=>
          \/ \E i \in 1..n : /\ Segment(v.core, i) > Segment(w.core, i)
                             /\ \A j \in 1..i - 1 : Segment(v.core, j) = Segment(w.core, j)
          \/ /\ \A i \in 1..n : Segment(v.core, i) = Segment(w.core, i)
             /\ v.pre # w.pre /\ (v.pre = 0 \/ (w.pre # 0 /\ v.pre > w.pre))
    BY Zenon DEF Scan!Newer, Segment
  <1>4. Scan!Newer(w, v) <=>
          \/ \E i \in 1..n : /\ Segment(w.core, i) > Segment(v.core, i)
                             /\ \A j \in 1..i - 1 : Segment(w.core, j) = Segment(v.core, j)
          \/ /\ \A i \in 1..n : Segment(w.core, i) = Segment(v.core, i)
             /\ w.pre # v.pre /\ (w.pre = 0 \/ (v.pre # 0 /\ w.pre > v.pre))
    <2>1. Scan!Newer(w, v) <=>
          \/ \E i \in 1..Len(w.core) + Len(v.core) :
               /\ Segment(w.core, i) > Segment(v.core, i)
               /\ \A j \in 1..i - 1 : Segment(w.core, j) = Segment(v.core, j)
          \/ /\ \A i \in 1..Len(w.core) + Len(v.core) : Segment(w.core, i) = Segment(v.core, i)
             /\ w.pre # v.pre /\ (w.pre = 0 \/ (v.pre # 0 /\ w.pre > v.pre))
      BY Zenon DEF Scan!Newer, Segment
    <2>2. QED
      BY <1>1, <2>1
  <1>5. Scan!compareVersions(v, w) = IF c # 0 \/ v.pre = w.pre THEN c ELSE IF v.pre = 0 THEN 1 ELSE -1
    BY DEF Scan!compareVersions
  <1>6. \A i \in 1..n : Segment(v.core, i) \in Nat /\ Segment(w.core, i) \in Nat
    BY <1>1, SegmentIs
  <1> HIDE DEF n, c
  <1>7. CASE c = 0 /\ \A i \in 1..n : Segment(v.core, i) = Segment(w.core, i)
    <2>1. ~ \E i \in 1..n : Segment(w.core, i) > Segment(v.core, i)
      BY <1>6, <1>7
    <2>2. Scan!Newer(w, v) => w.pre # v.pre /\ v.pre # 0
      BY <1>1, <1>4, <2>1
    <2>3. ~Scan!Newer(v, w) => v.pre = w.pre \/ v.pre # 0
      BY <1>3, <1>7
    <2>4. QED
      BY <1>1, <1>5, <1>7, <2>2, <2>3
  <1>8. ASSUME NEW i \in 1..n, \A j \in 1..i - 1 : Segment(v.core, j) = Segment(w.core, j),
               c = 1, Segment(v.core, i) > Segment(w.core, i)
        PROVE  Scan!Newer(v, w) /\ ~Scan!Newer(w, v)
    <2>1. Scan!Newer(v, w)
      BY <1>3, <1>8
    <2>2. ~ \A k \in 1..n : Segment(w.core, k) = Segment(v.core, k)
      BY <1>6, <1>8
    <2>3. ASSUME NEW k \in 1..n, Segment(w.core, k) > Segment(v.core, k),
                 \A j \in 1..k - 1 : Segment(w.core, j) = Segment(v.core, j)
          PROVE  FALSE
      <3>1. CASE k < i
        BY <1>1, <1>6, <1>8, <2>3, <3>1
      <3>2. CASE k > i
        BY <1>1, <1>6, <1>8, <2>3, <3>2
      <3>3. CASE k = i
        BY <1>1, <1>6, <1>8, <2>3, <3>3
      <3>4. QED
        BY <1>1, <3>1, <3>2, <3>3
    <2>4. QED
      BY <1>4, <2>1, <2>2, <2>3
  <1>9. CASE c = -1
    BY <1>5, <1>9
  <1>10. QED
    BY <1>2, <1>5, <1>7, <1>8, <1>9

\* A version in a range an advisory gives is one the code says it affects.
LEMMA AffectedIs ==
  ASSUME Scan!Assumed, NEW a \in Advisories, NEW v \in Scan!Release, v # Scan!NoVersion,
         Scan!Vulnerable(a, v)
  PROVE  Scan!affects(a, v)
  <1>1. PICK r \in a.ranges : /\ r.introduced # Scan!NoVersion => ~Scan!Newer(r.introduced, v)
                              /\ r.fixed # Scan!NoVersion => Scan!Newer(r.fixed, v)
                              /\ r.last # Scan!NoVersion => ~Scan!Newer(v, r.last)
    BY DEF Scan!Vulnerable
  <1>2. r.introduced \in Scan!Release /\ r.fixed \in Scan!Release /\ r.last \in Scan!Release
    BY DEF Scan!Assumed
  <1>3. r.introduced = Scan!NoVersion \/ Scan!compareVersions(r.introduced, v) <= 0
    BY <1>1, <1>2, OrderIs
  <1>4. r.fixed # Scan!NoVersion => Scan!isVersionOlderThan(v, r.fixed)
    BY <1>1, <1>2, OrderIs DEF Scan!isVersionOlderThan
  <1>5. r.last # Scan!NoVersion => Scan!compareVersions(v, r.last) <= 0
    BY <1>1, <1>2, OrderIs
  <1>6. Scan!InRange(v, r)
    BY <1>3, <1>4, <1>5 DEF Scan!InRange
  <1>7. QED
    BY <1>6 DEF Scan!affects

\* The framework's own advisories are found by the time of a verdict.
LEMMA OwnAdvisoriesHold ==
  ASSUME Scan!Assumed, Scan!TypeOK, Scan!IInv
  PROVE  Scan!OwnAdvisoriesCount
  <1> SUFFICES ASSUME phase = "passed", target.kind = "dir", target.manifest,
                      -1 \notin Scan!ToSet(target.kit.core), target.kit # Scan!NoVersion,
                      NEW a \in Advisories, a.name = "kit", Scan!Vulnerable(a, target.kit),
                      a.sev >= query.failOn
               PROVE  \E ex \in query.vex : ex.id = a.id /\ ex.expires > Today
    BY DEF Scan!OwnAdvisoriesCount
  <1> DEFINE kit == target.kit
             v == Scan!Finding(a, "kit", kit)
  <1>1. kit \in Scan!Release
    <2>1. kit \in [core : Seq(Nat \cup {-1}), pre : Nat]
      BY TargetIs
    <2>2. kit.core \in Seq(Nat \cup {-1})
      BY <2>1
    <2>3. \A i \in 1..Len(kit.core) : kit.core[i] \in Nat
      BY <2>2 DEF Scan!ToSet
    <2>4. kit.core \in Seq(Nat)
      BY <2>2, <2>3
    <2>5. QED
      BY <2>1, <2>4 DEF Scan!Release
  <1>2. Scan!affects(a, kit)
    BY <1>1, AffectedIs
  <1>3. v \in Scan!checkEmbeddedAdvisories(query.runtime, Scan!requestedBunVersion, kit)
    BY <1>2, Zenon DEF Scan!checkEmbeddedAdvisories
  <1>4. v \in found
    BY <1>3 DEF Scan!IInv, Scan!OwnFound
  <1>5. v.sev = a.sev /\ v.id = a.id
    BY DEF Scan!Finding
  <1>6. Scan!activeVEXExemption(v, query.vex)
    BY <1>4, <1>5 DEF Scan!IInv, Scan!Judged
  <1>7. PICK ex \in query.vex : ex.id = a.id /\ ~(ex.expires <= Today)
    BY <1>5, <1>6 DEF Scan!activeVEXExemption, Scan!Matches, Scan!Expired
  <1>8. ex.expires \in Nat /\ Today \in Nat
    BY TargetIs
  <1>9. QED
    BY <1>7, <1>8

\* What was not looked at is said by the time of a verdict.
LEMMA GapsAreTold ==
  ASSUME Scan!TypeOK, Scan!IInv PROVE Scan!GapsAreSaid
  <1> SUFFICES ASSUME phase \in Scan!Verdicts, ~incomplete
               PROVE  skipped = {} \/ (query.offline /\ (target.kind = "image" \/ query.toolchainOnly))
    BY DEF Scan!GapsAreSaid
  <1>1. resolved \in BOOLEAN /\ incomplete \in BOOLEAN /\ phase # "dependencies"
    BY DEF Scan!TypeOK, Scan!Verdicts
  <1>2. QED
    BY <1>1 DEF Scan!IInv, Scan!GapsAreKnown

\* The hoisted copy of a package is the one a lockfile is taken to name.
LEMMA HoistedCounts ==
  ASSUME Scan!Assumed, Scan!TypeOK, target.kind = "dir", NEW l \in target.locks,
         NEW e \in Scan!ToSet(l.entries), e.hoisted, e.version # Scan!NoVersion
  PROVE  e.name \in Scan!Names(l.entries) /\ Scan!OneCopy(l.entries, e.name) = e
  <1>1. l.entries \in Seq(Scan!ToSet(l.entries))
    BY LocksAre
  <1>2. PICK i \in Scan!Copies(l.entries, e.name) : e = l.entries[i]
    BY <1>1, EntriesNamed
  <1>3. e.name \in Scan!Names(l.entries)
    BY <1>1, EntriesNamed
  <1>4. \A j \in Scan!Copies(l.entries, e.name) : l.entries[j].hoisted => i = j
    <2>1. \A j \in Scan!Copies(l.entries, e.name) : j \in DOMAIN l.entries /\ l.entries[j].name = e.name
      BY DEF Scan!Copies, Scan!Concrete
    <2>2. QED
      BY <1>2, <2>1, LocksAre
  <1>5. Scan!OneCopy(l.entries, e.name) = l.entries[i]
    BY <1>1, <1>2, <1>3, <1>4, CopyIs
  <1>6. QED
    BY <1>2, <1>3, <1>5

\* Whether a package list holds what is shipped as p.
Lists(list, p) == \E q \in list : q.name = p.name /\ q.version = p.version /\ q.eco = p.eco

\* What a project ships is in the list of its packages.
LEMMA ShippedFromLocks ==
  ASSUME Scan!Assumed, Scan!TypeOK, target.kind = "dir", NEW p \in Scan!Ships, p.version # Scan!NoVersion
  PROVE  Lists(Scan!ExtractProjectDependencies(target), p)
  <1> DEFINE Shipped(e) == [name |-> e.name, version |-> e.version, eco |-> Scan!Npm]
             Hoisted(format) == UNION {{Shipped(e) : e \in {x \in Scan!ToSet(l.entries) : x.hoisted}}
                                         : l \in Scan!Lock(target, {format})}
             Named == UNION {Scan!Names(l.entries) : l \in Scan!Lock(target, {"bun"})}
             bun == UNION {Scan!ParseBunLock(l) : l \in Scan!Lock(target, {"bun"})}
             npm == UNION {Scan!ParsePackageLock(l) : l \in Scan!Lock(target, {"npm1", "npm"})}
             all == Scan!ExtractProjectDependencies(target)
  <1>1. p \in Hoisted("bun") \/ (p \in Hoisted("npm") /\ p.name \notin Named)
    BY DEF Scan!Ships
  <1>2. bun \subseteq all /\ {q \in npm : q.name \notin Scan!NamesOf(bun)} \subseteq all
    <2> DEFINE pnpm == UNION {Scan!ParsePnpmLock(l) : l \in Scan!Lock(target, {"pnpm"})}
               Besides(first, more) == first \cup {q \in more : q.name \notin Scan!NamesOf(first)}
               declaredOnes == {Scan!Package(d.name, d.version, Scan!Npm, IF d.dev THEN "development" ELSE "production")
                     : d \in target.declared}
    <2>1. all = Besides(Besides(Besides(bun, npm), pnpm), Besides({q \in declaredOnes : q.scope = "production"}, declaredOnes))
      BY Zenon DEF Scan!ExtractProjectDependencies
    <2>2. \A first, more : first \subseteq Besides(first, more)
      OBVIOUS
    <2> HIDE DEF all, pnpm, bun, npm, declaredOnes
    <2>3. Besides(bun, npm) \subseteq all
      <3> HIDE DEF Besides
      <3>1. QED
        BY <2>1, <2>2
    <2>4. QED
      BY <2>3
  <1> HIDE DEF all
  <1>3. \A l \in Scan!Lock(target, {"bun"}) : l \in target.locks /\ l.format = "bun"
    BY DEF Scan!Lock
  <1>4. \A l \in Scan!Lock(target, {"npm"}) : l \in target.locks /\ l.format = "npm" /\ l \in Scan!Lock(target, {"npm1", "npm"})
    BY DEF Scan!Lock
  <1>5. CASE p \in Hoisted("bun")
    <2>1. PICK l \in Scan!Lock(target, {"bun"}) :
            \E x \in Scan!ToSet(l.entries) : x.hoisted /\ p = Shipped(x)
      BY <1>5
    <2>0. PICK e \in Scan!ToSet(l.entries) : e.hoisted /\ p = Shipped(e)
      BY <2>1
    <2>2. e.version # Scan!NoVersion /\ p.name = e.name /\ p.version = e.version /\ p.eco = Scan!Npm
      BY <2>0
    <2>3. e.name \in Scan!Names(l.entries) /\ Scan!OneCopy(l.entries, e.name) = e
      BY <1>3, <2>0, <2>2, HoistedCounts
    <2>4. \E s : Scan!Package(e.name, e.version, Scan!Npm, s) \in Scan!ParseBunLock(l)
      BY <2>3, Zenon DEF Scan!ParseBunLock
    <2>5. PICK s : Scan!Package(e.name, e.version, Scan!Npm, s) \in all
      BY <1>2, <2>4
    <2>6. QED
      BY <2>2, <2>5 DEF Lists, Scan!Package, all
  <1>6. CASE p \in Hoisted("npm") /\ p.name \notin Named
    <2>1. PICK l \in Scan!Lock(target, {"npm"}) :
            \E x \in Scan!ToSet(l.entries) : x.hoisted /\ p = Shipped(x)
      BY <1>6
    <2>0. PICK e \in Scan!ToSet(l.entries) : e.hoisted /\ p = Shipped(e)
      BY <2>1
    <2>2. e.version # Scan!NoVersion /\ p.name = e.name /\ p.version = e.version /\ p.eco = Scan!Npm
      BY <2>0
    <2>3. e.name \in Scan!Names(l.entries) /\ Scan!OneCopy(l.entries, e.name) = e /\ l.format = "npm"
      BY <1>4, <2>0, <2>2, HoistedCounts
    <2>4. \E s : Scan!Package(e.name, e.version, Scan!Npm, s) \in Scan!ParsePackageLock(l)
      <3>1. Scan!Package(e.name, Scan!OneCopy(l.entries, e.name).version, Scan!Npm,
                         IF Scan!OneCopy(l.entries, e.name).dev THEN "development" ELSE "production")
              \in Scan!ParsePackageLock(l)
        BY <2>3 DEF Scan!ParsePackageLock
      <3>2. QED
        BY <2>3, <3>1
    <2>5. PICK s : Scan!Package(e.name, e.version, Scan!Npm, s) \in npm
      BY <1>4, <2>1, <2>4
    <2>6. Scan!NamesOf(bun) \subseteq Named
      <3> SUFFICES ASSUME NEW q \in bun PROVE q.name \in Named
        BY DEF Scan!NamesOf
      <3>1. PICK k \in Scan!Lock(target, {"bun"}) : q \in Scan!ParseBunLock(k)
        OBVIOUS
      <3>2. q.name \in Scan!Names(k.entries)
        BY <3>1 DEF Scan!ParseBunLock, Scan!Package
      <3>3. QED
        BY <3>2
    <2>7. Scan!Package(e.name, e.version, Scan!Npm, s) \in all
      <3>1. Scan!Package(e.name, e.version, Scan!Npm, s).name = p.name
        BY <2>2 DEF Scan!Package
      <3> HIDE DEF npm, bun, Named
      <3>2. QED
        BY <1>2, <1>6, <2>5, <2>6, <3>1
    <2>8. QED
      BY <2>2, <2>7 DEF Lists, Scan!Package, all
  <1>7. QED
    BY <1>1, <1>5, <1>6

\* What an image ships is in the list of its packages.
LEMMA ShippedFromLayers ==
  ASSUME Scan!Assumed, Scan!TypeOK, target.kind = "image", NEW p \in Scan!Ships, p.version # Scan!NoVersion
  PROVE  Lists(Scan!ImagePackages(target.layers), p)
  <1> DEFINE layers == target.layers
             Shipped(q, eco) == [name |-> q.name, version |-> q.version, eco |-> eco]
             Of(type) == Scan!MapDistroEcosystem(Scan!Distro(layers), type)
             Alone(q, i) == \A j \in i + 1..Len(layers) : q.name \notin Scan!NamesOf(layers[j].vendor)
             every(field) == UNION {layers[i][field] : i \in DOMAIN layers}
             all == Scan!ImagePackages(layers)
  <1>1. PICK i \in DOMAIN layers :
          \/ p \in {Shipped(q, Of("deb")) : q \in {x \in layers[i].deb : x.state = "installed"}}
          \/ p \in {Shipped(q, Of("apk")) : q \in layers[i].apk}
          \/ p \in {Shipped(q, Scan!Npm) : q \in {x \in layers[i].vendor : Alone(x, i)}}
    BY DEF Scan!Ships
  <1>2. /\ \A q \in Scan!ParseDPKGStatus(every("deb")) : Scan!Package(q.name, q.version, Of("deb"), "production") \in all
        /\ \A q \in Scan!ParseAPKInstalled(every("apk")) : Scan!Package(q.name, q.version, Of("apk"), "production") \in all
        /\ \A q \in every("vendor") :
             (\E k \in DOMAIN layers : q \in layers[k].vendor /\ Alone(q, k))
               => Scan!Package(q.name, q.version, Scan!Npm, "production") \in all
    BY DEF Scan!ImagePackages
  <1>3. /\ layers[i].deb \subseteq every("deb") /\ layers[i].apk \subseteq every("apk")
        /\ layers[i].vendor \subseteq every("vendor")
    OBVIOUS
  <1> HIDE DEF all, every, Of, Alone, layers
  <1>4. CASE p \in {Shipped(q, Of("deb")) : q \in {x \in layers[i].deb : x.state = "installed"}}
    <2>1. PICK q \in layers[i].deb : q.state = "installed" /\ p = Shipped(q, Of("deb"))
      BY <1>4
    <2>2. p.name = q.name /\ p.version = q.version /\ p.eco = Of("deb")
      BY <2>1
    <2>3. q \in Scan!ParseDPKGStatus(every("deb"))
      BY <1>3, <2>1, <2>2 DEF Scan!ParseDPKGStatus
    <2>4. Scan!Package(q.name, q.version, Of("deb"), "production") \in all
      BY <1>2, <2>3
    <2>5. QED
      BY <2>2, <2>4 DEF Lists, Scan!Package, all, layers
  <1>5. CASE p \in {Shipped(q, Of("apk")) : q \in layers[i].apk}
    <2>1. PICK q \in layers[i].apk : p = Shipped(q, Of("apk"))
      BY <1>5
    <2>2. p.name = q.name /\ p.version = q.version /\ p.eco = Of("apk")
      BY <2>1
    <2>3. q \in Scan!ParseAPKInstalled(every("apk"))
      BY <1>3, <2>1, <2>2 DEF Scan!ParseAPKInstalled
    <2>4. Scan!Package(q.name, q.version, Of("apk"), "production") \in all
      BY <1>2, <2>3
    <2>5. QED
      BY <2>2, <2>4 DEF Lists, Scan!Package, all, layers
  <1>6. CASE p \in {Shipped(q, Scan!Npm) : q \in {x \in layers[i].vendor : Alone(x, i)}}
    <2>1. PICK q \in layers[i].vendor : Alone(q, i) /\ p = Shipped(q, Scan!Npm)
      BY <1>6
    <2>2. p.name = q.name /\ p.version = q.version /\ p.eco = Scan!Npm
      BY <2>1
    <2>3. Scan!Package(q.name, q.version, Scan!Npm, "production") \in all
      BY <1>2, <1>3, <2>1
    <2>4. QED
      BY <2>2, <2>3 DEF Lists, Scan!Package, all, layers
  <1>7. QED
    BY <1>1, <1>4, <1>5, <1>6

\* What is known of what ships is among what the database says of the whole.
LEMMA KnownIsAsked ==
  ASSUME Scan!Assumed, Scan!TypeOK
  PROVE  Scan!Known \subseteq Scan!queryOSVBatch(Scan!Versioned(Scan!Whole))
  <1> SUFFICES ASSUME NEW v \in Scan!Known
               PROVE  v \in Scan!queryOSVBatch(Scan!Versioned(Scan!Whole))
    OBVIOUS
  <1>1. PICK o \in Osv, p \in Scan!Ships :
          /\ v = Scan!Finding(o, o.name, o.version)
          /\ p.name = o.name /\ p.version = o.version /\ p.eco = o.eco
    BY DEF Scan!Known
  <1>2. p.version # Scan!NoVersion
    BY <1>1 DEF Scan!Assumed
  <1>3. Lists(Scan!Whole, p)
    <2>1. CASE target.kind = "dir"
      BY <1>2, <2>1, ShippedFromLocks DEF Scan!Whole
    <2>2. CASE target.kind = "image"
      BY <1>2, <2>2, ShippedFromLayers DEF Scan!Whole
    <2>3. QED
      BY <2>1, <2>2, TargetIs
  <1>4. PICK q \in Scan!Whole : q.name = o.name /\ q.version = o.version /\ q.eco = o.eco
    BY <1>1, <1>3 DEF Lists
  <1>5. q \in Scan!Versioned(Scan!Whole)
    BY <1>1, <1>2, <1>4 DEF Scan!Versioned
  <1>6. QED
    BY <1>1, <1>4, <1>5 DEF Scan!queryOSVBatch

\* What passes was asked about: a severe finding is exempt.
LEMMA PassesAreEarned ==
  ASSUME Scan!Assumed, Scan!TypeOK, Scan!IInv
  PROVE  Scan!PassIsEarned
  <1> SUFFICES ASSUME phase = "passed", ~query.offline, ~query.allow, ~query.toolchainOnly, NEW v \in Scan!Known
               PROVE  \/ v.sev < query.failOn
                      \/ \E ex \in query.vex :
                           ex.id = v.id /\ ex.name \in {Scan!AnyPackage, v.name} /\ ex.expires > Today
    BY DEF Scan!PassIsEarned
  <1>1. ~incomplete
    BY DEF Scan!IInv, Scan!Judged
  <1>2. v \in found
    BY <1>1, KnownIsAsked DEF Scan!IInv, Scan!AllAsked, Scan!Verdicts
  <1>3. v.sev \in Nat
    BY DEF Scan!Known, Scan!Assumed, Scan!Finding
  <1>4. query.failOn \in Nat /\ Today \in Nat /\ \A ex \in query.vex : ex.expires \in Nat
    BY TargetIs
  <1>5. CASE v.sev >= query.failOn
    <2>1. Scan!activeVEXExemption(v, query.vex)
      BY <1>2, <1>5 DEF Scan!IInv, Scan!Judged
    <2>2. QED
      BY <1>4, <2>1 DEF Scan!activeVEXExemption, Scan!Matches, Scan!Expired
  <1>6. QED
    BY <1>3, <1>4, <1>5

\* A scan lets pass over nothing it could have known, finds the framework's own
\* advisories without a network, says what it has not looked at, and lists what
\* production needs and what the image holds: the invariant IInv says of each
\* phase what has been found by then and what has not been asked.
THEOREM ScansHold ==
  ASSUME Scan!Assumed
  PROVE  Scan!Spec => [](/\ Scan!TypeOK /\ Scan!PassIsEarned /\ Scan!OwnAdvisoriesCount
                         /\ Scan!GapsAreSaid /\ Scan!ProductionIsListed /\ Scan!BillIsOfTheImage)
  <1>1. Scan!TypeOK /\ Scan!IInv =>
          /\ Scan!TypeOK /\ Scan!PassIsEarned /\ Scan!OwnAdvisoriesCount
          /\ Scan!GapsAreSaid /\ Scan!ProductionIsListed /\ Scan!BillIsOfTheImage
    BY PassesAreEarned, OwnAdvisoriesHold, GapsAreTold, NeededIsListed DEF Scan!IInv
  <1>2. QED
    BY <1>1, ScanInvariant, PTL

-----------------------------------------------------------------------------
(* All of a build *)

\* A gate that lets a build pass has looked, in the stages of a build, in a
\* vulnerability scan and in the search for secrets, for every project, image
\* and tree the components' assumptions allow.
THEOREM GatesAlwaysHold ==
  Stages!Spec /\ Scan!Spec /\ Guard!Spec => []GatesHold
  <1> USE BuildAssumption
  <1>1. Stages!Spec => [](Stages!ShippedIsScanned /\ Stages!ReadBackAfterAttach)
    BY StagesHoldTheirGates
  <1>2. Scan!Spec => [](/\ Scan!TypeOK /\ Scan!PassIsEarned /\ Scan!OwnAdvisoriesCount
                        /\ Scan!GapsAreSaid /\ Scan!ProductionIsListed /\ Scan!BillIsOfTheImage)
    BY ScansHold
  <1>3. Guard!Spec => [](Guard!TypeOK /\ Guard!CleanIsClean /\ Guard!MapsAreSearched)
    BY SecretsAreFound
  <1>4. QED
    BY <1>1, <1>2, <1>3, PTL DEF GatesHold

\* What is asked of a build is what is built: the request, the routes and the
\* files it leaves out, and those it does not.
THEOREM RequestIsAlwaysAsAsked ==
  Wanted!Spec /\ Filter!Spec /\ Disposal!Spec => []RequestIsAsAsked
  <1> USE BuildAssumption
  <1>1. Wanted!Spec => [](/\ Wanted!TypeOK /\ Wanted!AsksAreHonoured
                          /\ Wanted!AcceptedImagesStart /\ Wanted!ValidFilesBuild)
    BY Wanted!RequestsAreHonoured, PTL
  <1>2. Filter!Spec => [](/\ Filter!TypeOK /\ Filter!ExclusionsHold /\ Filter!OnlyExcludedGoes
                          /\ Filter!MergeIsWhole /\ Filter!ReportIsTrue)
    BY ExclusionsAreKept
  <1>3. Disposal!Spec => [](Disposal!TypeOK /\ Disposal!NothingIsDropped)
    BY NoFileIsDropped
  <1>4. QED
    BY <1>1, <1>2, <1>3, PTL DEF RequestIsAsAsked

\* No step of a component of a build leaves its state without its type, for the
\* constants each of them counts on.
THEOREM BuildTypesAreKept ==
  /\ Stages!Spec /\ Pack!Spec /\ Cache!Spec /\ Bundle!Spec /\ Base!Spec
  /\ Images!Spec /\ Outputs!Spec /\ Pages!Spec
  /\ Wanted!Spec /\ Scan!Spec /\ Guard!Spec /\ Filter!Spec /\ Disposal!Spec
  => []TypeOK
  <1> USE BuildAssumption
  <1>1. Stages!Spec => [](/\ Stages!TypeOK /\ Stages!NothingOutlivesItsFiles
                          /\ Stages!CauseIsReported /\ Stages!NeverStuck)
    BY GroupsAreOrdered
  <1>2. Pack!Spec => [](Pack!TypeOK /\ Pack!IInv)
    BY PackAlways
  <1>3. Cache!Spec => [](Cache!TypeOK /\ Cache!ServesWhatItNames)
    BY CacheServesWhatItNames
  <1>4. Bundle!Spec => [](/\ Bundle!TypeOK /\ Bundle!NoInstallOutlivesPrepare
                          /\ Bundle!ShipsItsOwnDependencies /\ Bundle!BuildIsTheProjectsOwn)
    BY PreparedIsItsOwn
  <1>5. Base!Spec => [](Base!TypeOK /\ LockIsHonest)
    BY BaseIsLocked
  <1>6. Images!Spec => [](Images!TypeOK /\ Images!PushedTagsWereMoved /\ Images!AttachmentsAreFound)
    BY PushesAreAsReported
  <1>7. Outputs!Spec => [](Outputs!TypeOK /\ Outputs!OutputsAreWhole /\ Outputs!LoadedRunsHere)
    BY OutputsAreAsReported
  <1>8. Pages!Spec => [](/\ Pages!TypeOK /\ Pages!OldPagesFindTheirAssets
                         /\ Pages!NothingIsMixed /\ Pages!LineageIsTrue)
    BY OldPagesAreServed
  <1>9. Wanted!Spec => [](/\ Wanted!TypeOK /\ Wanted!AsksAreHonoured
                          /\ Wanted!AcceptedImagesStart /\ Wanted!ValidFilesBuild)
    BY Wanted!RequestsAreHonoured, PTL
  <1>10. Scan!Spec => [](/\ Scan!TypeOK /\ Scan!PassIsEarned /\ Scan!OwnAdvisoriesCount
                         /\ Scan!GapsAreSaid /\ Scan!ProductionIsListed /\ Scan!BillIsOfTheImage)
    BY ScansHold
  <1>11. Guard!Spec => [](Guard!TypeOK /\ Guard!CleanIsClean /\ Guard!MapsAreSearched)
    BY SecretsAreFound
  <1>12. Filter!Spec => [](/\ Filter!TypeOK /\ Filter!ExclusionsHold /\ Filter!OnlyExcludedGoes
                           /\ Filter!MergeIsWhole /\ Filter!ReportIsTrue)
    BY ExclusionsAreKept
  <1>13. Disposal!Spec => [](Disposal!TypeOK /\ Disposal!NothingIsDropped)
    BY NoFileIsDropped
  <1>14. QED
    BY <1>1, <1>2, <1>3, <1>4, <1>5, <1>6, <1>7, <1>8, <1>9, <1>10, <1>11, <1>12, <1>13, PTL
       DEF TypeOK
=============================================================================
