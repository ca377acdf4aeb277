----------------------------- MODULE SecretGuard ------------------------------
(***************************************************************************)
(* The search of a tree for secrets (adapters/secretguard/guard.go), entry  *)
(* by entry in the order of the walk, while an editor may still change the  *)
(* files.  A file is its lines; a line holds the pieces of text a rule or a *)
(* marker looks for, in either case.                                        *)
(***************************************************************************)
EXTENDS Ignore

CONSTANTS
  Trees,        \* the trees: sequences of entries in the order of the walk
  Asked,        \* the requests: [maps, allow, own] and the project's own patterns
  Window        \* the letters folded at a time

VARIABLES
  tree, ask,    \* what is searched, and how
  next,         \* the entry the walk is at
  matches,      \* what was found: <<entry, line, rule>>
  passedBy,     \* the entries reported as skipped
  held,         \* what every entry held when it was read
  verdict       \* "walking", "clean", "found"

vars == <<tree, ask, next, matches, passedBy, held, verdict>>

-----------------------------------------------------------------------------
(* Rules, and the text without which a rule can match nowhere in a file.  A  *)
(* piece of text is [word, upper, start]: where in the file it starts.       *)

secretRules == {"aws", "jwt", "password"}
RequiredAny == [aws |-> {"AKIA"}, jwt |-> {"eyJ"}]
RequiredAnyFold == [password |-> {"token", "secret", "api_key"}]
foldEscapes == {"kelvin"}
Letters == [w \in {"AKIA", "eyJ", "token", "secret", "api_key", "kelvin", "marker"} |->
              CASE w = "eyJ" -> 3 [] w = "AKIA" -> 4 [] w = "token" -> 5 [] w = "secret" -> 6
                [] w = "api_key" -> 7 [] OTHER -> 1]
longest == 7

Pieces(file) == UNION {file.lines[i].pieces : i \in DOMAIN file.lines}
Size(file) == file.letters
containsAny(file, words) == \E p \in Pieces(file) : p.word \in words /\ ~p.upper

\* The text is folded window by window; each takes in what may have begun
\* before it.
containsAnyFold(file, words) ==
  \E p \in Pieces(file) : p.word \in words
    /\ \E w \in 0..Size(file) :
         /\ w * Window < Size(file)
         /\ p.start + longest - 1 >= w * Window
         /\ p.start + Letters[p.word] <= (w + 1) * Window

activeRules(file) ==
  {r \in secretRules :
     IF r \in DOMAIN RequiredAny THEN containsAny(file, RequiredAny[r])
     ELSE containsAny(file, foldEscapes) \/ containsAnyFold(file, RequiredAnyFold[r])}

\* Where the pattern of a rule matches a line, and what it matches is one.
\* Letters that only look like others are folded by the pattern as well.
MatchesLine(r, line) ==
  \E p \in line.pieces :
    \/ r = "aws" /\ p.word = "AKIA" /\ ~p.upper
    \/ r = "jwt" /\ p.word = "eyJ" /\ ~p.upper /\ line.header
    \/ r = "password" /\ p.word \in RequiredAnyFold["password"] \cup foldEscapes /\ line.assigned

Marked(line) == \E p \in line.pieces : p.word = "marker"
lineIsAnnotated(file, i) == Marked(file.lines[i]) \/ (i > 1 /\ Marked(file.lines[i - 1]))

scanBytes(file) ==
  {m \in (DOMAIN file.lines) \X activeRules(file) :
     /\ ~lineIsAnnotated(file, m[1]) /\ ~(file.lines[m[1]].allowed /\ ask.allow)
     /\ MatchesLine(m[2], file.lines[m[1]])}

-----------------------------------------------------------------------------
(* The walk *)

Ignorer ==
  New(DefaultPatterns \o (IF ask.maps THEN << <<"!", "*", ".map">> >> ELSE <<>>) \o ask.own)

skippedDirs == {<<".git">>, <<"node_modules">>, <<".svelte-kit">>, <<".pokkum">>}
precompressedExts == {".gz", ".br", ".zst"}

Above(path) == {SubSeq(path, 1, i - 1) : i \in {j \in DOMAIN path : path[j] = "/"}}
Ext(path) == Last(path)

\* What the walk does not enter, or reads over without a word.
PassedOver(path) ==
  \/ \E dir \in Above(path) : baseName(dir) \in skippedDirs \/ Match(Ignorer, dir, TRUE)
  \/ Match(Ignorer, path, FALSE)
  \/ Ext(path) \in precompressedExts

Init ==
  /\ tree \in Trees /\ ask \in Asked
  /\ next = 1 /\ matches = {} /\ passedBy = {} /\ verdict = "walking"
  /\ held = [i \in DOMAIN tree |-> {}]

\* A binary and what cannot be read are gone over in silence; a large file is
\* reported.  A file is read to its end, however large it has become.
ScanEntry ==
  /\ verdict = "walking" /\ next \in DOMAIN tree
  /\ LET file == tree[next]
         read == ~PassedOver(file.path) /\ file.kind = "text"
     IN IF read /\ file.large
        THEN passedBy' = passedBy \cup {next} /\ UNCHANGED <<matches, held>>
        ELSE IF read
        THEN \E now \in {file} \cup file.later :
               /\ matches' = matches \cup {<<next, m[1], m[2]>> : m \in scanBytes(now)}
               /\ held' = [held EXCEPT ![next] = {now}]
               /\ UNCHANGED passedBy
        ELSE UNCHANGED <<matches, passedBy, held>>
  /\ next' = next + 1
  /\ UNCHANGED <<tree, ask, verdict>>

Conclude ==
  /\ verdict = "walking" /\ next \notin DOMAIN tree
  /\ verdict' = IF matches = {} /\ passedBy = {} THEN "clean" ELSE "found"
  /\ UNCHANGED <<tree, ask, next, matches, passedBy, held>>

Next == ScanEntry \/ Conclude

Spec == Init /\ [][Next]_vars

-----------------------------------------------------------------------------
(* Properties *)

\* A piece of text lies within its file; the letters that only look like others
\* have no other case.
Holds(file) ==
  /\ file.letters \in Nat /\ file.lines \in Seq(ToSet(file.lines))
  /\ \A p \in Pieces(file) :
       /\ p.word \in DOMAIN Letters /\ p.upper \in BOOLEAN /\ (p.word \in foldEscapes => ~p.upper)
       /\ p.start \in Nat /\ p.start + Letters[p.word] <= file.letters
Assumed ==
  /\ Window \in Nat \ {0}
  /\ \A t \in Trees :
       /\ t \in Seq(ToSet(t))
       /\ \A i \in DOMAIN t :
            /\ IsText(t[i].path)
            /\ \A file \in {t[i]} \cup t[i].later : Holds(file)

TypeOK ==
  /\ tree \in Trees /\ ask \in Asked /\ next \in 1..Len(tree) + 1
  /\ held \in [DOMAIN tree -> SUBSET UNION {{tree[i]} \cup tree[i].later : i \in DOMAIN tree}]
  /\ matches \subseteq (DOMAIN tree) \X Nat \X secretRules /\ passedBy \subseteq DOMAIN tree
  /\ verdict \in {"walking", "clean", "found"}

\* A tree is called clean only when every text a rule knows, in every file that
\* was to be read, is excused by a marker, a pattern or the file's own path:
\* leaving rules out for want of their words, window by window, loses none.
CleanIsClean ==
  verdict = "clean" =>
    \A i \in DOMAIN tree :
      /\ \A now \in held[i] : \A l \in DOMAIN now.lines, r \in secretRules :
           MatchesLine(r, now.lines[l]) =>
             lineIsAnnotated(now, l) \/ (now.lines[l].allowed /\ ask.allow)
      /\ held[i] = {} => tree[i].kind # "text" \/ PassedOver(tree[i].path)

\* Source maps are searched where they ship, unless the project says otherwise;
\* a directory that is called like an environment file is not gone into.
MapsAreSearched ==
  (verdict # "walking" /\ ask.maps /\ ask.own = <<>>) =>
    \A i \in DOMAIN tree :
      (Ext(tree[i].path) = ".map" /\ tree[i].kind = "text"
       /\ \A d \in Above(tree[i].path) :
            /\ baseName(d) \notin skippedDirs \cup {<<"storybook-static">>}
            /\ ~Starts(baseName(d), ".env")) =>
        held[i] # {} \/ i \in passedBy

\* The comparisons a pattern is reduced to say what the pattern says.
ShortcutsAgree ==
  LET lines == DefaultPatterns \o ask.own
  IN \A l \in DOMAIN lines : \A rule \in compile(lines[l]), i \in DOMAIN tree :
       \A path \in {tree[i].path} \cup Above(tree[i].path) :
         matchGlob(rule, path) <=> MatchGlobs(rule.glob, path)

\* Where the walk is: what it has read it has searched, and what it has passed
\* over in silence is nothing it should have read.
IInv ==
  /\ \A i \in DOMAIN tree :
       /\ i >= next => held[i] = {}
       /\ (i < next /\ tree[i].kind = "text" /\ ~PassedOver(tree[i].path)) => held[i] # {} \/ i \in passedBy
       /\ \A now \in held[i] :
            /\ now \in {tree[i]} \cup tree[i].later
            /\ \A m \in scanBytes(now) : <<i, m[1], m[2]>> \in matches
  /\ verdict # "walking" => next = Len(tree) + 1
  /\ verdict = "clean" => matches = {} /\ passedBy = {}
=============================================================================
