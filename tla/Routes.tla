-------------------------------- MODULE Routes --------------------------------
(***************************************************************************)
(* Route exclusion.  Before the build a mirror of the routes directory is   *)
(* made that leaves the excluded ones out; afterwards the prerendered files *)
(* of excluded routes are removed from the output, and what still links to  *)
(* them is reported.  In between, a static site's three staging directories *)
(* are merged into one.                                                     *)
(*                                                                         *)
(* A route is the sequence of its segments; a directory's segments may be   *)
(* groups, which are not in the route.  A pattern is a sequence of names    *)
(* and of "*" and "**", which are no names.                                 *)
(***************************************************************************)
EXTENDS Naturals, Sequences, FiniteSets, SequencesExt

CONSTANTS
  Sites,         \* projects: [dirs, linked, pages, static, slash, staged, links]
  PatternLists   \* what may be excluded: sequences of patterns

VARIABLES
  site, patterns,
  turn,          \* "mirror", "build", "flatten", "filter", "packaged", "failed"
  mirrored,      \* the build reads the mirror
  routes,          \* the directories of routes the build sees
  category,      \* the staging directory that is merged next
  output,        \* the prerendered files
  bundle,        \* the routes compiled into the server
  report         \* what the operator is told: [removed, skipped, unmatched, dead]

routesVars == <<site, patterns, turn, mirrored, routes, category, output, bundle, report>>

NoReport == [removed |-> {}, skipped |-> {}, unmatched |-> {}, dead |-> {}]
Categories == <<"dependencies", "data", "pages">>

Init ==
  /\ site \in Sites /\ patterns \in PatternLists
  /\ turn = "mirror" /\ mirrored = FALSE /\ routes = {} /\ category = 1
  /\ output = {} /\ bundle = {} /\ report = NoReport

-----------------------------------------------------------------------------
(* Patterns *)

Upto(s, n) == SubSeq(s, 1, n)
Fits(p, r) == Len(p) = Len(r) /\ \A i \in DOMAIN p : p[i] \in {"*", r[i]}
IsBelow(r, p) == Len(r) > Len(p) /\ Upto(r, Len(p)) = p

\* The regular expression of a pattern: where each of its segments ends in the
\* route.
LaidOver(p, r) ==
  \E end \in [0..Len(p) -> 0..Len(r)] :
    /\ end[0] = 0 /\ end[Len(p)] = Len(r)
    /\ \A i \in DOMAIN p : IF p[i] = "**" THEN end[i] > end[i - 1]
                           ELSE end[i] = end[i - 1] + 1 /\ p[i] \in {"*", r[end[i]]}

\* Without a wildcard a route and what is below it; "**" at the end is what is
\* below, anywhere else one segment or more; "*" is one segment.
matches(r, p) ==
  \/ p = r
  \/ ~Contains(p, "*") /\ ~Contains(p, "**") /\ p # <<>> /\ IsBelow(r, p)
  \/ p # <<>> /\ Last(p) = "**" /\ (Len(p) = 1 \/ IsBelow(r, Front(p)))
  \/ Contains(p, "*") /\ ~Contains(p, "**") /\ Fits(p, r)
  \/ Contains(p, "**") /\ Last(p) # "**" /\ LaidOver(p, r)

\* The first of the patterns, in their order; 0 is none.
matchingPattern(r) ==
  LET hits == {i \in DOMAIN patterns : matches(r, patterns[i])}
  IN IF hits = {} THEN 0 ELSE CHOOSE i \in hits : \A j \in hits : i <= j
MatchesAny(r) == matchingPattern(r) # 0

-----------------------------------------------------------------------------
(* The mirror *)

RouteForDir(d) ==
  LET kept == {i \in DOMAIN d : ~d[i].group}
      nth(k) == CHOOSE i \in kept : Cardinality({j \in kept : j <= i}) = k
  IN [k \in 1..Cardinality(kept) |-> d[nth(k)].name]

IsDir(d) == d \in site.dirs /\ d \notin site.linked
Excluded(d) == d # <<>> /\ IsDir(d) /\ MatchesAny(RouteForDir(d))

\* What decides whether a directory may be linked whole.  A link to a directory
\* is no directory here.
subtreeHasExclusion(d) ==
  \E e \in site.dirs : /\ IsBelow(e, d) /\ Excluded(e)
                       /\ \A n \in Len(d) + 1..Len(e) : IsDir(Upto(e, n))

\* A level that is made anew carries its files, and links what is not a
\* directory; an excluded directory is left out; another is linked whole, or
\* made anew if something below it is excluded.
mirrorLevel(d) ==
  \A n \in 1..Len(d) : LET e == Upto(d, n)
                       IN IsDir(e) /\ ~Excluded(e) /\ subtreeHasExclusion(e)
LinkedWhole(d) == /\ d # <<>> /\ mirrorLevel(Front(d))
                  /\ \/ ~IsDir(d)
                     \/ ~Excluded(d) /\ ~subtreeHasExclusion(d)
BuildFilteredRoutesMirror ==
  {d \in site.dirs : mirrorLevel(d) \/ \E n \in 1..Len(d) : LinkedWhole(Upto(d, n))}

Left == {d \in site.dirs : d # <<>> /\ mirrorLevel(Front(d)) /\ Excluded(d)}

\* The mirror may not be wanted, possible or read (Prepare); one that leaves
\* nothing out is not used.
Mirror ==
  /\ turn = "mirror"
  /\ \E redirected \in BOOLEAN :
       /\ mirrored' = (redirected /\ Left # {})
       /\ routes' = IF mirrored' THEN BuildFilteredRoutesMirror ELSE site.dirs
  /\ turn' = "build"
  /\ UNCHANGED <<site, patterns, category, output, bundle, report>>

-----------------------------------------------------------------------------
(* The output *)

\* SvelteKit: a page is prerendered, as a file of its route or an index below
\* it, or compiled into the server.
HTML(path) == [path |-> path, html |-> TRUE, enc |-> FALSE, link |-> FALSE]
Page(r) == HTML(IF r = <<>> \/ site.slash THEN Append(r, "index") ELSE r)
Renamed(f, path) == [path |-> path, html |-> f.html, enc |-> f.enc, link |-> f.link]
In(c, f) == Renamed(f, <<c>> \o f.path)

Build ==
  /\ turn = "build"
  /\ LET pages == {Page(RouteForDir(d)) : d \in {e \in routes \cap DOMAIN site.pages : site.pages[e] = "static"}}
     IN output' = IF site.static THEN {In("pages", f) : f \in pages} \cup site.staged
                  ELSE pages \cup site.staged
  /\ bundle' = {RouteForDir(d) : d \in {e \in routes \cap DOMAIN site.pages : site.pages[e] = "server"}}
  /\ turn' = IF site.static THEN "flatten" ELSE "filter"
  /\ UNCHANGED <<site, patterns, mirrored, routes, category, report>>

\* One staging directory merged: each of its files is moved up unless there is
\* one already, and the directory is removed with what is in it by then.
Moved(f) == Renamed(f, Tail(f.path))
FlattenPrerenderedOutput ==
  /\ turn = "flatten"
  /\ LET c == Categories[category]
         walked == {f \in output : f.path[1] = c /\ Len(f.path) > 1}
         taken == {f \in walked : Moved(f) \in output}
     IN \/ taken # {} /\ turn' = "failed" /\ UNCHANGED <<category, output>>
        \/ /\ \A f \in taken : Moved(f) \in walked
           /\ output' = (output \ walked) \cup {Moved(f) : f \in {g \in walked : g.path[2] # c \/ Len(g.path) = 2}}
           /\ category' = category + 1
           /\ turn' = IF category = Len(Categories) THEN "filter" ELSE "flatten"
  /\ UNCHANGED <<site, patterns, mirrored, routes, bundle, report>>

-----------------------------------------------------------------------------
(* The filter *)

RouteForFile(f) == IF f.html /\ Last(f.path) = "index" THEN Front(f.path) ELSE f.path

Matched == {f \in output : MatchesAny(RouteForFile(f))}
RemovedFiles == {f \in Matched : ~f.link}

\* A pattern is unmatched if no file has it for its first; and it is not told
\* of one that a route has which the mirror left out.
UnmatchedPatterns ==
  {i \in DOMAIN patterns : \A f \in Matched : patterns[matchingPattern(RouteForFile(f))] # patterns[i]}
filterHandledPatterns ==
  {i \in UnmatchedPatterns : ~\E d \in Left : mirrored /\ matches(RouteForDir(d), patterns[i])}

\* What the pages that are left link to by an absolute path.
FindDeadLinks(files) ==
  {x \in files \X UNION {site.links[g] : g \in DOMAIN site.links} :
     /\ x[1].html /\ ~x[1].link /\ ~x[1].enc
     /\ RouteForFile(x[1]) \in DOMAIN site.links /\ x[2] \in site.links[RouteForFile(x[1])]
     /\ MatchesAny(x[2])}

\* Files are removed one by one, and one that cannot be ends the build.
ApplyExclusions ==
  /\ turn = "filter"
  /\ \/ /\ output' = output \ RemovedFiles
        /\ report' = [removed |-> RemovedFiles, skipped |-> Matched \ RemovedFiles,
                      unmatched |-> filterHandledPatterns, dead |-> FindDeadLinks(output')]
        /\ turn' = "packaged"
     \/ RemovedFiles # {} /\ turn' = "failed" /\ UNCHANGED <<output, report>>
  /\ UNCHANGED <<site, patterns, mirrored, routes, category, bundle>>

Next == Mirror \/ Build \/ FlattenPrerenderedOutput \/ ApplyExclusions

Spec == Init /\ [][Next]_routesVars

-----------------------------------------------------------------------------
(* Properties *)

Pages == DOMAIN site.pages
\* A page below a directory that the mirror leaves out goes with it, also where
\* the pattern is for one segment, or for the group the directory is.
LeftOut(d) == mirrored /\ \E n \in 1..Len(d) : Excluded(Upto(d, n))
Linked(d) == \E n \in 1..Len(d) : Upto(d, n) \in site.linked
\* No route ends in the name of an index, which its page would be taken for; and
\* none is below the name of a staging directory, which the merge would take for
\* one of its own.
OwnNames ==
  /\ \A d \in Pages : RouteForDir(d) = <<>> \/ Last(RouteForDir(d)) # "index"
  /\ site.static =>
       /\ \A d \in Pages : RouteForDir(d) = <<>> \/ ~Contains(Categories, RouteForDir(d)[1])
       /\ \A f \in site.staged : ~Contains(Categories, f.path[2])

\* A directory is in its parent, a page is in a directory, and every page of a
\* static site is prerendered.
Assumed ==
  /\ \A s \in Sites :
       /\ \A d \in s.dirs : d \in Seq(ToSet(d))
                            /\ \A n \in 0..Len(d) : Upto(d, n) \in s.dirs
       /\ DOMAIN s.pages \subseteq s.dirs
       /\ \A d \in DOMAIN s.pages : s.pages[d] \in IF s.static THEN {"static"} ELSE {"static", "server"}
       /\ {s.static, s.slash} \subseteq BOOLEAN
       /\ \A f \in s.staged : /\ f.path \in Seq(ToSet(f.path))
                              /\ s.static => Len(f.path) > 1 /\ Contains(Categories, f.path[1])
  /\ \A p \in PatternLists : p \in Seq(ToSet(p))

TypeOK ==
  /\ site \in Sites /\ patterns \in PatternLists
  /\ turn \in {"mirror", "build", "flatten", "filter", "packaged", "failed"}
  /\ mirrored \in BOOLEAN /\ routes \subseteq site.dirs /\ category \in 1..Len(Categories) + 1
  /\ report.removed \cap output = {} /\ report.unmatched \subseteq DOMAIN patterns

\* What a pattern is said to cover (routefilter.go, 110), whichever of the ways
\* above compares it: a way to lay it over the segments.  One that ends in "**" is
\* compared as it is written, so it covers nothing if it has another wildcard;
\* and alone it covers the root too.
Covers(p, r) ==
  \/ LaidOver(p, r)
  \/ p = <<"**">>
  \/ p # <<>> /\ \A i \in DOMAIN p : p[i] \notin {"*", "**"} /\ LaidOver(Append(p, "**"), r)
PatternsCover ==
  \A i \in DOMAIN patterns, r \in {RouteForDir(d) : d \in site.dirs} \cup {RouteForFile(f) : f \in output} :
    (patterns[i] = <<>> \/ Last(patterns[i]) # "**" \/ ~Contains(Front(patterns[i]), "*")) =>
      (matches(r, patterns[i]) <=> Covers(patterns[i], r))

\* An excluded route is not in the image (routefilter.go, 4): neither a file of
\* it, unless it is a link, which is reported; nor its code, if the mirror was
\* read and the directory is neither the root nor reached by a link.
ExclusionsHold ==
  turn = "packaged" =>
    /\ \A f \in output : MatchesAny(RouteForFile(f)) => f \in report.skipped
    /\ mirrored => \A d \in Pages \cap routes : MatchesAny(RouteForDir(d)) => d = <<>> \/ Linked(d)

\* What no pattern covers is still there, with the directories above it, whose
\* layouts wrap it (mirror.go, 30), unless a directory above was left out.
OnlyExcludedGoes ==
  turn = "packaged" =>
    /\ OwnNames => \A d \in Pages :
         LET r == RouteForDir(d)
         IN \/ MatchesAny(r) \/ LeftOut(d)
            \/ site.pages[d] = "server" /\ r \in bundle
            \/ site.pages[d] = "static" /\ Page(r) \in output
    /\ \A d \in routes : \A n \in 0..Len(d) : Upto(d, n) \in routes

\* Merging the staging directories loses no file and moves none elsewhere
\* (prerendered_flatten.go, 29).
MergeIsWhole ==
  (turn = "filter" /\ site.static /\ OwnNames) =>
    /\ \A d \in Pages \cap routes : Page(RouteForDir(d)) \in output
    /\ \A f \in site.staged : Moved(f) \in output

\* A pattern is reported only if nothing was taken out for it, or an earlier
\* one was given the credit; and a dead link is of a page that is shipped.
ReportIsTrue ==
  turn = "packaged" =>
    /\ \A i \in report.unmatched : \A f \in report.removed :
         matches(RouteForFile(f), patterns[i]) => matchingPattern(RouteForFile(f)) < i
    /\ mirrored => \A i \in report.unmatched, d \in site.dirs \ routes :
                     ~(d \in Left /\ matches(RouteForDir(d), patterns[i]))
    /\ \A i \in DOMAIN patterns \ report.unmatched :
         \/ \E f \in report.removed \cup report.skipped : matches(RouteForFile(f), patterns[i])
         \/ \E d \in site.dirs \ routes : matches(RouteForDir(d), patterns[i])
    /\ \A x \in report.dead : x[1] \in output

\* Where the files of a static site are while its directories are merged; and
\* what a build has made of the directories it saw.
Staged == site.staged \cup {In("pages", Page(RouteForDir(d))) : d \in Pages \cap routes}
Merging ==
  (site.static /\ OwnNames /\ turn \in {"flatten", "filter"}) =>
    \A f \in Staged : IF \E i \in category..Len(Categories) : f.path[1] = Categories[i]
                      THEN f \in output ELSE Moved(f) \in output
ByTurn ==
  /\ turn # "packaged" => report = NoReport
  /\ turn \in {"mirror", "build"} => category = 1
  /\ turn = "flatten" => site.static /\ category <= Len(Categories)
  /\ (turn = "filter" /\ site.static) => category > Len(Categories)
  /\ turn = "mirror" => ~mirrored
Seen ==
  turn # "mirror" => routes = IF mirrored THEN BuildFilteredRoutesMirror ELSE site.dirs
Built ==
  /\ turn \in {"flatten", "filter"} =>
       bundle = {RouteForDir(d) : d \in {e \in routes \cap Pages : site.pages[e] = "server"}}
  /\ (turn = "filter" /\ ~site.static) =>
       \A d \in routes \cap Pages : site.pages[d] = "static" => Page(RouteForDir(d)) \in output

IInv == ByTurn /\ Seen /\ Built /\ Merging /\ ExclusionsHold /\ OnlyExcludedGoes /\ ReportIsTrue
=============================================================================
