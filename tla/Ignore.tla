-------------------------------- MODULE Ignore --------------------------------
(***************************************************************************)
(* .pokkumignore (adapters/ignoreutils/matcher.go): which paths of a tree   *)
(* are left out of the secret scan, the project fingerprint and the SBOM.   *)
(*                                                                         *)
(* A path and a pattern are sequences of tokens: "/", a word of a name, and *)
(* in a pattern "*", which stands for any words of one name, "**" for any   *)
(* names, and a leading "#", "!" or "\".                                    *)
(***************************************************************************)
EXTENDS Naturals, Sequences, FiniteSets, SequencesExt

Rule(glob, kind, lit, negate, dirOnly) ==
  [glob |-> glob, kind |-> kind, lit |-> lit, negate |-> negate, dirOnly |-> dirOnly]
IsText(s) == s \in Seq(ToSet(s)) /\ s # <<>>
Without(s, first) == SubSeq(s, 1 + first, Len(s))
Starts(s, token) == s # <<>> /\ s[1] = token
Ends(s, token) == s # <<>> /\ Last(s) = token

globMeta(s) == \E i \in DOMAIN s : s[i] \in {"*", "**"}

\* Mutant: an anchored pattern is compared with names anywhere.
classify_anywhere(anchored, core) ==
  LET leading == Starts(core, "*")
      front == IF leading THEN Tail(core) ELSE core
      trailing == Ends(front, "*")
      lit == IF trailing THEN Front(front) ELSE front
  IN IF globMeta(lit) \/ lit = <<>> THEN <<"glob", <<>>>>
     ELSE <<CASE leading /\ trailing -> "contains" [] leading /\ ~trailing -> "suffix"
              [] ~leading /\ trailing -> "prefix" [] OTHER -> "base", lit>>

\* A pattern without a glob, or with a star at either end of a name, is
\* compared as it is; the others are matched as globs.
classify(anchored, core) ==
  LET leading == Starts(core, "*")
      front == IF leading THEN Tail(core) ELSE core
      trailing == Ends(front, "*")
      lit == IF trailing THEN Front(front) ELSE front
  IN IF anchored THEN IF globMeta(core) THEN <<"glob", <<>>>> ELSE <<"path", core>>
     ELSE IF globMeta(lit) \/ lit = <<>> THEN <<"glob", <<>>>>
     ELSE <<CASE leading /\ trailing -> "contains" [] leading /\ ~trailing -> "suffix"
              [] ~leading /\ trailing -> "prefix" [] OTHER -> "base", lit>>

\* The rule of one line, or none; a slash anywhere but at the end anchors it.
compile(line) ==
  LET escaped == Len(line) > 1 /\ line[1] = "\\" /\ line[2] \in {"#", "!"}
      negate == ~escaped /\ Starts(line, "!")
      body == IF escaped \/ negate THEN Tail(line) ELSE line
      dirOnly == Ends(body, "/")
      name == IF dirOnly THEN Front(body) ELSE body
      anchored == Contains(name, "/")
      core == IF Starts(name, "/") THEN Tail(name) ELSE name
      kind == classify(anchored, core)
  IN IF Starts(line, "#") \/ core = <<>> THEN {}
     ELSE {Rule(IF anchored THEN core ELSE <<"**", "/">> \o core, kind[1], kind[2], negate, dirOnly)}

\* The rules in the order of their lines.
New(patterns) == [i \in DOMAIN patterns |-> compile(patterns[i])]

DefaultPatterns ==
  << <<"node_modules", "/", ".cache">>, <<".git", "/">>, <<"*", ".map">>, <<".env", "*">>,
     <<"storybook-static", "/">> >>

baseName(candidate) ==
  LET slashes == {i \in DOMAIN candidate : candidate[i] = "/"}
      last == IF slashes = {} THEN 0 ELSE CHOOSE i \in slashes : \A j \in slashes : j <= i
  IN Without(candidate, last)

\* What the glob library answers: matched[i, j] for what is left of the pattern
\* from i on and of the candidate from j on.
MatchGlobs(glob, candidate) ==
  LET n == Len(glob)  m == Len(candidate)
      matched[i \in 1..n + 2, j \in 1..m + 1] ==
        CASE i > n                          -> j > m
          [] i <= n /\ glob[i] = "**"       ->
               i = n \/ matched[i + 2, j]
               \/ \E k \in j..m : candidate[k] = "/" /\ matched[i + 2, k + 1]
          [] i <= n /\ glob[i] = "*"        ->
               matched[i + 1, j] \/ (j <= m /\ candidate[j] # "/" /\ matched[i, j + 1])
          [] i <= n /\ glob[i] \notin {"*", "**"} ->
               j <= m /\ candidate[j] = glob[i] /\ matched[i + 1, j + 1]
  IN matched[1, 1]

matchGlob(rule, candidate) ==
  CASE rule.kind = "path"     -> candidate = rule.lit
    [] rule.kind = "base"     -> baseName(candidate) = rule.lit
    [] rule.kind = "prefix"   -> IsPrefix(rule.lit, baseName(candidate))
    [] rule.kind = "suffix"   -> IsSuffix(rule.lit, baseName(candidate))
    [] rule.kind = "contains" ->
         \E i \in DOMAIN baseName(candidate) : IsPrefix(rule.lit, Without(baseName(candidate), i - 1))
    [] rule.kind = "glob"     -> MatchGlobs(rule.glob, candidate)

\* The last rule that matches decides; some are for directories only.
matchRules(rules, candidate, isDir) ==
  LET hits == {i \in DOMAIN rules :
                 \E rule \in rules[i] : (isDir \/ ~rule.dirOnly) /\ matchGlob(rule, candidate)}
      last == CHOOSE i \in hits : \A j \in hits : j <= i
  IN hits # {} /\ \A rule \in rules[last] : ~rule.negate

\* A path is ignored when a directory above it is, whatever is said of itself.
Match(rules, path, isDir) ==
  \/ \E i \in DOMAIN path : path[i] = "/" /\ matchRules(rules, SubSeq(path, 1, i - 1), TRUE)
  \/ matchRules(rules, path, isDir)

MatchExact(rules, path, isDir) == matchRules(rules, path, isDir)
=============================================================================
