---------------------------- MODULE MCOperatorSide ----------------------------
(***************************************************************************)
(* The commands around a build, and the server a static image runs, one at *)
(* a time: part says which.  They share nothing but files and clusters     *)
(* that each of them models on its own side, so their product would show   *)
(* no behaviour that one of them does not.                                 *)
(***************************************************************************)
EXTENDS OperatorSide, Naturals, FiniteSets, Sequences, TLC

CONSTANTS c1, c2, u1, u2, o1, o2, s1, s2, w1, w2, web

VARIABLE part

devVars == <<loop, ctxDone, generation, told, channel, srcTime, topTime, lastMod,
             reading, image, buildFailed, ended, late, unseen>>
clusterVars == <<sync, target, build, sent, werr, stdin, wire, extractor, got, hup, pod, app,
                 result, restarts, reset>>
staticVars == <<server, ready, request, at, held, whole, cachedDirs, dirCount, extra>>
upgradeVars == <<release, step, fetched, tmp, targetExisted, binary, backup, applied, starts,
                 overlapped>>
k8sVars == <<code, op, resolved, cached, doc, cluster, saved, applies, stale, derived, ran,
             excused>>
deployVars == <<deployed, secrets, rows, deploying, cfg, env, ref, toClear>>
trustVars == <<tag, sig, att, now, writes, job, phase, pulls, memo, seen, done, moved>>
attestVars == <<tree, expected, where, toList, tasks, next, aborted, firstErr, worker, taken,
                records, was, changes>>
startupVars == <<program, given, flags, command, turn, chosen, warned>>
vars == <<part, devVars, clusterVars, staticVars, upgradeVars, k8sVars, deployVars, trustVars,
          attestVars, startupVars>>

-----------------------------------------------------------------------------
(* pokkum dev --cluster: a pod that is not running yet, one that is going    *)
(* away, and the one to use                                                   *)

TwoFiles == <<"client/app.js", "server/index.js">>
ThreePods ==
  {[name |-> 1, phase |-> "Pending", deleted |-> FALSE, containers |-> {"app"}],
   [name |-> 2, phase |-> "Running", deleted |-> TRUE, containers |-> {"app"}],
   [name |-> 3, phase |-> "Running", deleted |-> FALSE, containers |-> {"app", "proxy"}]}
OfTheLast == {<<3, "app">>}

-----------------------------------------------------------------------------
(* pokkum-static: two clients, two directories and one cached handle *)

FileA == <<"/a", "">>
Ask(p, accepts, cond, range) == [path |-> p, accepts |-> accepts, cond |-> cond, range |-> range]

TwoRoots ==
  <<[p \in {"/a", "/b", "/c"} |->
       CASE p = "/a" -> "file" [] p = "/b" -> "htmlAndDirectory" [] OTHER -> "nothing"],
    [p \in {"/a", "/b", "/c"} |-> IF p = "/a" THEN "index" ELSE "nothing"]>>
TwoSidecars == [f \in {FileA} |-> {"br", "gzip"}]
OneIsGone == {<<FileA, "gzip">>}
DirectoryOf == [p \in {"/a", "/b", "/c"} |-> IF p = "/b" THEN "d2" ELSE "d1"]
SixRequests ==
  {Ask("/a", {}, "none", <<>>), Ask("/a", {"br", "gzip"}, "none", <<0, 0>>),
   Ask("/a", {"br", "gzip"}, "ifRange", <<1, 1>>), Ask("/a", {}, "ifNoneMatch", <<>>),
   Ask("/b", {}, "none", <<0, 2>>), Ask("/c", {}, "none", <<>>)}

-----------------------------------------------------------------------------
(* pokkum resolve, apply and rollback: a workload of one project            *)

OfWeb == [w \in {"w1"} |-> web]
NothingBeside == [w \in {"w1"} |-> NoImage]

-----------------------------------------------------------------------------
(* pokkum deploy: two commands, two images, and a few of the blocks that    *)
(* can be configured                                                         *)

Block(platform, method, endpointEnv, update, credentials) ==
  [target |-> platform, method |-> method, endpoint |-> IF endpointEnv THEN "" ELSE "url",
   endpointEnv |-> endpointEnv, application |-> TRUE, updateImage |-> update,
   userEnv |-> credentials, passwordEnv |-> credentials, timeout |-> ""]

Blocks ==
  {Block("dokploy", "", FALSE, "on", TRUE), Block("dokploy", "api", TRUE, "on", FALSE),
   Block("dokploy", "", FALSE, "", FALSE), Block("swiftwave", "", FALSE, "", FALSE)}

-----------------------------------------------------------------------------
(* Signatures: the one that should be there, one of another image beside   *)
(* another key's, one of a fork, one that has no type beside a keyless     *)
(* one, one of a newer log, and one without its annotation; and what the   *)
(* commands that read them are asked                                       *)

Layer(repo, d, signer, id, log) ==
  [typed |-> TRUE, repo |-> repo, digest |-> d, signer |-> signer, cert |-> [id |-> id, log |-> log]]

ByKey(repo, d, key) == Layer(repo, d, key, "none", "none")

Signatures ==
  { {ByKey("up", 1, "A")}, {ByKey("up", 2, "A"), ByKey("up", 1, "B")}, {ByKey("fork", 1, "A")},
    {Layer("up", 1, "cert", "ours", "old"), [ByKey("up", 1, "A") EXCEPT !.typed = FALSE]},
    {Layer("up", 1, "cert", "theirs", "new")}, {Layer("up", 1, "none", "ours", "old")} }

Statement(signers, d, source) ==
  [enveloped |-> TRUE, signers |-> signers, subject |-> d, source |-> source]

Inquiry(kind, mode, id, keys) ==
  [kind |-> kind, up |-> "up", mode |-> mode, preset |-> "distroless", id |-> id, keys |-> keys,
   file |-> FALSE, refresh |-> TRUE, hermetic |-> FALSE, expect |-> "", allow |-> FALSE, rebuilt |-> 0]

Inquiries ==
  { Inquiry("base", "auto", "none", <<"">>), Inquiry("base", "auto", "theirs", <<"">>),
    Inquiry("base", "auto", "none", <<"A">>), Inquiry("base", "static-key", "none", <<"A">>),
    [Inquiry("base", "auto", "none", <<"B">>) EXCEPT !.preset = "custom"],
    [Inquiry("base", "keyless", "none", <<"">>) EXCEPT !.preset = "custom"],
    [Inquiry("base", "auto", "ours", <<"">>) EXCEPT !.file = TRUE],
    Inquiry("cache", "auto", "none", <<"", "A">>), Inquiry("cache", "auto", "ours", <<"B", "A">>),
    Inquiry("cache", "none", "none", <<"A", "">>), Inquiry("cache", "auto", "partial", <<"A", "">>),
    Inquiry("verify", "auto", "ours", <<"", "">>), Inquiry("verify", "auto", "none", <<"", "unusable">>),
    [Inquiry("verify", "auto", "none", <<"A", "B">>) EXCEPT !.expect = "repo"],
    [Inquiry("verify", "auto", "none", <<"", "">>) EXCEPT !.expect = "repo", !.allow = TRUE, !.rebuilt = 1],
    [Inquiry("verify", "auto", "partial", <<"unusable", "A">>) EXCEPT !.hermetic = TRUE] }

Span(from, till) == [from |-> from, till |-> till]
Authority(from, till, certs) == [from |-> from, till |-> till, certs |-> certs]

Statements ==
  {Statement({"A", "B"}, 1, "repo"), Statement({"A"}, 2, ""), Statement({"B"}, 1, "repo"),
   [Statement({"A"}, 1, "repo") EXCEPT !.enveloped = FALSE]}
OneFromRepo == <<"repo", "">>
Embedded ==
  [embedded |-> [cas |-> {Authority(0, 9, 4), Authority(0, 1, 9)},
                 logs |-> {Span(0, 1), Span(1, 9)}]]
KnownLogs == [embedded |-> {"old"}, tuf |-> {"old", "new"}, file |-> {"own"}]
Presets ==
  [distroless |-> [mode |-> "keyless", id |-> "ours"],
   custom |-> [mode |-> "static-key", id |-> "none"]]

-----------------------------------------------------------------------------
(* Startup attestation: two workers and three paths of two roots; as it was  *)
(* built, or with a link and a root that is gone                              *)

Holds(c) == [kind |-> "file", of |-> c]
Absent == [kind |-> "none", of |-> "none"]
ThreeFiles == {"server/a", "server/b", "client/x"}
AsBuilt == [f \in ThreeFiles |-> IF f = "server/b" THEN Absent ELSE Holds("1")]
Linked == [f \in ThreeFiles |->
             CASE f = "server/a" -> Holds("1")
               [] f = "server/b" -> [kind |-> "link", of |-> "server/a"]
               [] f = "client/x" -> Absent]

Built == {AsBuilt, Linked}
RootOfFile == [f \in ThreeFiles |-> IF f = "client/x" THEN "client" ELSE "server"]
ServerAndClient == <<"server", "client">>
FourDigests ==
  {NoDigest, Malformed, {<<"server/a", "1">>, <<"client/x", "1">>}, {<<"server/a", "1">>}}

-----------------------------------------------------------------------------
(* The configuration of a container: up to two variables and a flag          *)

Raw(form, val) == [form |-> form, val |-> val]
Text ==
  [level |-> {Raw("good", "debug"), Raw("junk", "loud")},
   port |-> {Raw("good", 9000), Raw("out", 0), Raw("junk", 1)},
   probe |-> {Raw("good", 9000), Raw("good", 3000), Raw("blank", 0)},
   timeout |-> {Raw("good", 5), Raw("out", 0), Raw("junk", 1)},
   require |-> {Raw("good", {"port"}), Raw("good", {"level", "ready"}), Raw("blank", {})},
   dev |-> {Raw("good", TRUE), Raw("good", FALSE), Raw("junk", FALSE)},
   digest |-> {Raw("good", "tree"), Raw("junk", "short")},
   ready |-> {Raw("good", "/ready"), Raw("junk", "//host"), Raw("blank", " ")},
   roots |-> {Raw("good", "other"), Raw("out", "relative"), Raw("blank", "none")},
   fallback |-> {Raw("good", "index"), Raw("blank", " ")}]
Lists == [require |-> Raw("empty", {}), roots |-> Raw("empty", ""), fallback |-> Raw("empty", "")]
One(s, values) == [x \in {s} |-> values]
Pairs == UNION {{One(s, v) @@ One(t, w) : v \in Text[s], w \in Text[t]} : s, t \in DOMAIN Text}

UpToTwoVariables == Pairs \cup {<<>>}
UpToTwoFlags ==
  {<<>>, One("version", Raw("good", TRUE)),
   One("version", Raw("good", TRUE)) @@ One("port", Raw("junk", 1))}
  \cup UNION {{One(s, v) : v \in Text[s]} : s \in DOMAIN Text}
  \cup {One(s, Lists[s]) : s \in DOMAIN Lists}

-----------------------------------------------------------------------------
Init ==
  /\ part \in {"dev", "cluster", "server", "upgrade", "k8s", "deploy", "trust", "attest", "startup"}
  /\ Dev!Init /\ Sync!Init /\ Server!Init /\ Up!Init /\ K8s!Init /\ Ship!Init /\ Evidence!Init
  /\ IF part = "attest" THEN TRUE ELSE tree = AsBuilt /\ expected = NoDigest
  /\ Start!Init
  /\ IF part = "startup" THEN TRUE
     ELSE given = <<>> /\ flags = <<>> /\ command = "given" /\ program = "pokkum-init"
  /\ Boot!Init
  /\ part # "trust" => now = 2

\* Only the variables of one part change.
Only(p) ==
  /\ part = p /\ UNCHANGED part
  /\ IF p = "dev" THEN TRUE ELSE UNCHANGED devVars
  /\ IF p = "cluster" THEN TRUE ELSE UNCHANGED clusterVars
  /\ IF p = "server" THEN TRUE ELSE UNCHANGED staticVars
  /\ IF p = "upgrade" THEN TRUE ELSE UNCHANGED upgradeVars
  /\ IF p = "k8s" THEN TRUE ELSE UNCHANGED k8sVars
  /\ IF p = "deploy" THEN TRUE ELSE UNCHANGED deployVars
  /\ IF p = "trust" THEN TRUE ELSE UNCHANGED trustVars
  /\ IF p = "attest" THEN TRUE ELSE UNCHANGED attestVars
  /\ IF p = "startup" THEN TRUE ELSE UNCHANGED startupVars

Next ==
  \/ Only("trust") /\ Evidence!Next
  \/ Only("deploy") /\ Ship!Next
  \/ Only("dev") /\ Dev!Next
  \/ Only("cluster") /\ Sync!Next
  \/ Only("server") /\ Server!Next
  \/ Only("upgrade") /\ Up!Next
  \/ Only("k8s") /\ K8s!Next
  \/ Only("attest") /\ Start!Next
  \/ Only("startup") /\ Boot!Next

Spec == Init /\ [][Next]_vars

\* Clients, commands and operators are alike.
Symmetry == Permutations({c1, c2}) \cup Permutations({u1, u2}) \cup Permutations({o1, o2})
            \cup Permutations({w1, w2})

=============================================================================
