-------------------------------- MODULE Prune ---------------------------------
(***************************************************************************)
(* What the walk of a tree leaves out of a layer                            *)
(* (adapters/pruneutils/pruneutils.go): whole directories that belong to    *)
(* another layer, and disposable files, by patterns that were compiled to   *)
(* comparisons.  Paths and patterns are those of Ignore.                    *)
(***************************************************************************)
EXTENDS Ignore

CONSTANTS
  JunkPatterns,  \* the patterns of disposable files
  WalkedTrees,   \* the trees: sequences of [path, kind], in the order of the walk
  PruneOptions   \* [noPrune, keepSourcemap, keeps, excludeDirs]

VARIABLES
  walk, opts,    \* the tree and the options
  visited,       \* how many entries were visited
  below,         \* the directory that is skipped, or <<>>
  layered,       \* the paths that are in the layer
  pruned         \* the paths that are not

pruneVars == <<walk, opts, visited, below, layered, pruned>>

Init ==
  /\ walk \in WalkedTrees /\ opts \in PruneOptions
  /\ visited = 0 /\ below = <<>> /\ layered = {} /\ pruned = {}

-----------------------------------------------------------------------------
(* Patterns *)

hasMeta(p) == globMeta(p)
Stars(p) == Cardinality({i \in DOMAIN p : p[i] = "*"})
Segments(path) ==
  LET ends == {i \in DOMAIN path : path[i] = "/"} \cup {Len(path) + 1}
      starts == {0} \cup (ends \ {Len(path) + 1})
      ordered == SetToSortSeq(starts, <)
  IN [k \in DOMAIN ordered |->
        LET end == CHOOSE e \in ends : e > ordered[k] /\ \A f \in ends : f > ordered[k] => e <= f
        IN SubSeq(path, ordered[k] + 1, end - 1)]

\* What a pattern below any directories is compiled to: a directory's name or
\* several, a base name, or the ends of one; the others stay as they are.
compileJunkRule(p) ==
  LET rest == Without(p, 2)
      inner == SubSeq(rest, 1, Len(rest) - 2)
      ofDir == Len(rest) > 2 /\ Last(rest) = "**"
      star == CHOOSE i \in DOMAIN rest : rest[i] = "*"
  IN CASE ~Starts(p, "**") -> [kind |-> "residual", of |-> p]
       [] Starts(p, "**") /\ ofDir /\ ~hasMeta(inner) -> [kind |-> "dirs", of |-> Segments(inner)]
       [] Starts(p, "**") /\ ~ofDir /\ ~Contains(rest, "/") /\ ~hasMeta(rest) -> [kind |-> "exact", of |-> rest]
       [] Starts(p, "**") /\ ~ofDir /\ ~Contains(rest, "/") /\ Stars(rest) = 1 /\ ~Contains(rest, "**") ->
            [kind |-> "ends", of |-> <<SubSeq(rest, 1, star - 1), Without(rest, star)>>]
       [] OTHER -> [kind |-> "residual", of |-> p]

matchesSegments(path, names) == \E from, to \in 1..Len(Segments(path)) : SubSeq(Segments(path), from, to) = names
prefixSuffix(base, ends) ==
  /\ Len(base) >= Len(ends[1]) + Len(ends[2])
  /\ IsPrefix(ends[1], base) /\ IsSuffix(ends[2], base)

\* The glob library: a directory's pattern also matches its own name.
Doublestar(p, path) ==
  \/ MatchGlobs(p, path)
  \/ Len(p) > 2 /\ Last(p) = "**" /\ MatchGlobs(SubSeq(p, 1, Len(p) - 2), path)

matchesJunk(path) ==
  \E p \in JunkPatterns :
    LET rule == compileJunkRule(p) IN
      CASE rule.kind = "exact"    -> baseName(path) = rule.of
        [] rule.kind = "ends"     -> prefixSuffix(baseName(path), rule.of)
        [] rule.kind = "dirs"     -> matchesSegments(path, rule.of)
        [] rule.kind = "residual" -> Doublestar(p, path) \/ Doublestar(p, baseName(path))

\* A readme and its like, by its name and at most one extension of a document.
docBaseNames == {"readme", "license"}
docExtensions == {".md", ".txt"}
isDocFile(base) ==
  base # <<>> /\ base[1] \in docBaseNames
  /\ (Len(base) = 1 \/ (Len(base) = 2 /\ base[2] \in docExtensions))

\* A pattern without a glob is compared with the path and with its base name.
Kept(path) ==
  \E k \in opts.keeps : IF hasMeta(k) THEN Doublestar(k, path) \/ Doublestar(k, baseName(path))
                        ELSE k \in {path, baseName(path)}

IsSourcemap(path) == Ends(path, ".map") /\ ~(Len(path) > 1 /\ path[Len(path) - 1] = ".d.ts")
IsJunk(path) ==
  /\ ~opts.noPrune /\ ~Kept(path)
  /\ ~(opts.keepSourcemap /\ IsSourcemap(path))
  /\ isDocFile(baseName(path)) \/ matchesJunk(path)

IsExcludedDir(path) == path \in opts.excludeDirs

-----------------------------------------------------------------------------
\* One entry of the walk: a directory of another layer is skipped whole, and
\* what is neither file nor directory is left out, whether or not it is pruned.
Visit ==
  /\ visited < Len(walk)
  /\ visited' = visited + 1
  /\ LET e == walk[visited + 1]
         skipped == below # <<>> /\ IsPrefix(Append(below, "/"), e.path)
     IN CASE skipped -> UNCHANGED <<below, layered, pruned>>
          [] ~skipped /\ e.kind = "dir" ->
               below' = (IF IsExcludedDir(e.path) THEN e.path ELSE <<>>) /\ UNCHANGED <<layered, pruned>>
          [] ~skipped /\ e.kind # "dir" ->
               /\ pruned' = IF IsJunk(e.path) THEN pruned \cup {e.path} ELSE pruned
               /\ layered' = IF ~IsJunk(e.path) /\ e.kind = "file" THEN layered \cup {e.path} ELSE layered
               /\ UNCHANGED below
  /\ UNCHANGED <<walk, opts>>

Next == Visit

Spec == Init /\ [][Next]_pruneVars

-----------------------------------------------------------------------------
(* Properties *)

Seen(kinds) == {walk[i].path : i \in {j \in 1..visited : walk[j].kind \in kinds}}
Files == Seen({"file", "link"})
OfAnother(path) == \E d \in opts.excludeDirs : IsPrefix(Append(d, "/"), path)

\* A walk meets a directory before what is in it, and all of that together.
WalkOrder(t) ==
  \A k \in DOMAIN t : \A n \in DOMAIN t[k].path :
    t[k].path[n] = "/" =>
      LET dir == SubSeq(t[k].path, 1, n - 1)
      IN \E j \in 1..k - 1 : /\ t[j].path = dir /\ t[j].kind = "dir"
                             /\ \A i \in j + 1..k : IsPrefix(Append(dir, "/"), t[i].path)
Assumed ==
  /\ \A t \in WalkedTrees :
       /\ t \in Seq(ToSet(t)) /\ WalkOrder(t)
       /\ \A e \in ToSet(t) : IsText(e.path) /\ e.kind \in {"file", "dir", "link"}
  /\ \A o \in PruneOptions : \A d \in o.excludeDirs : IsText(d)

TypeOK ==
  /\ walk \in WalkedTrees /\ opts \in PruneOptions
  /\ visited \in 0..Len(walk) /\ layered \cup pruned \subseteq Files
  /\ below = <<>> \/ below \in opts.excludeDirs

\* The comparisons are an exact restatement of the patterns (pruneutils.go,
\* 217), and nothing else but documents is left out.
CompiledIsExact ==
  \A path \in Files \ {f \in Files : OfAnother(f)} :
    path \in pruned <=>
      /\ ~opts.noPrune
      /\ ~(opts.keepSourcemap /\ IsSourcemap(path))
      /\ \A k \in opts.keeps : ~Doublestar(k, path) /\ ~Doublestar(k, baseName(path))
      /\ \/ isDocFile(baseName(path))
         \/ \E p \in JunkPatterns : Doublestar(p, path) \/ Doublestar(p, baseName(path))

\* Every regular file is in the layer, in another, or accounted for as pruned,
\* and in one of them only; a link is never in the layer, whose records must
\* agree with the walk that attests it.
NothingIsDropped ==
  /\ Seen({"file"}) \subseteq layered \cup pruned \cup {f \in Files : OfAnother(f)}
  /\ layered \subseteq Seen({"file"})
  /\ \A f \in layered \cup pruned : ~OfAnother(f)
  /\ layered \cap pruned = {}

\* What is left of an excluded directory the walk is in is skipped; and a file
\* is where its path says.
SkippedWhole ==
  \A d \in opts.excludeDirs, j \in 1..visited, k \in visited + 1..Len(walk) :
    (/\ walk[j].path = d /\ walk[j].kind = "dir"
     /\ \A i \in j + 1..k : IsPrefix(Append(d, "/"), walk[i].path)) =>
      below # <<>> /\ IsPrefix(Append(below, "/"), walk[k].path)
IInv ==
  /\ SkippedWhole /\ NothingIsDropped
  /\ \A f \in layered : ~IsJunk(f)
  /\ \A f \in pruned : IsJunk(f)
=============================================================================
