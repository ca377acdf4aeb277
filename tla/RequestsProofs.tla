--------------------------- MODULE RequestsProofs ---------------------------
(***************************************************************************)
(* That a request is the one that was asked for and can be built, whatever  *)
(* is said on the command line, in the environment and in the file.         *)
(***************************************************************************)
EXTENDS Requests, Integers, FiniteSetTheorems, TLAPS

\* The settings there are.
LEMMA SettingsAre ==
  Settings = {"repo", "tags", "platforms", "base", "strategy", "runtime", "sbom", "output",
              "sourcemap", "stub", "cve", "verify", "ready", "tracing"}
  BY DEF Settings, Chain

\* The order of the layers, the command line first.
LEMMA RanksAre ==
  /\ Rank("flag") = 1 /\ Rank("env") = 2
  /\ Rank("profile") = 3 /\ Rank("config") = 4
  <1>1. /\ Layers[1] = "flag" /\ Layers[2] = "env"
        /\ Layers[3] = "profile" /\ Layers[4] = "config"
    BY DEF Layers
  <1>2. QED
    BY <1>1 DEF Rank

\* Every setting is looked for in the same order.
LEMMA ChainIs ==
  ASSUME NEW s \in Settings
  PROVE  /\ DOMAIN Chain[s] \subseteq 1 .. 4
         /\ \A i \in DOMAIN Chain[s] :
              /\ Chain[s][i] \in {"flag", "env", "profile", "config"}
              /\ Chain[s][i] = "profile" => s \in {"output", "sourcemap", "stub"}
         /\ \A i, j \in DOMAIN Chain[s] :
              i < j => Rank(Chain[s][i]) < Rank(Chain[s][j])
  <1>1. DOMAIN Chain[s] \subseteq 1 .. 4
    BY SettingsAre DEF Chain
  <1>2. \A i \in DOMAIN Chain[s] :
          /\ Chain[s][i] \in {"flag", "env", "profile", "config"}
          /\ Chain[s][i] = "profile" => s \in {"output", "sourcemap", "stub"}
    BY SettingsAre DEF Chain
  <1>3. \A i, j \in DOMAIN Chain[s] :
          i < j => Rank(Chain[s][i]) < Rank(Chain[s][j])
    BY SettingsAre, RanksAre DEF Chain
  <1>4. QED
    BY <1>1, <1>2, <1>3

\* No setting has more than four places: one of them is the first.
LEMMA FirstPlace ==
  ASSUME NEW T, T \subseteq 1 .. 4, T # {}
  PROVE  \E x \in T : \A y \in T : x <= y
  <1>1. \A y \in T : y \in {1, 2, 3, 4}
    OBVIOUS
  <1>2. CASE 1 \in T
    BY <1>1, <1>2
  <1>3. CASE 1 \notin T /\ 2 \in T
    BY <1>1, <1>3
  <1>4. CASE 1 \notin T /\ 2 \notin T /\ 3 \in T
    BY <1>1, <1>4
  <1>5. CASE 1 \notin T /\ 2 \notin T /\ 3 \notin T
    <2>1. T = {4}
      BY <1>1, <1>5
    <2>2. QED
      BY <2>1
  <1>6. QED
    BY <1>2, <1>3, <1>4, <1>5

\* What only a profile sets, or sets for itself, is looked for in one.
LEMMA ProfileIs ==
  ASSUME NEW s \in {"output", "sourcemap", "stub"}
  PROVE  \E i \in DOMAIN Chain[s] : Chain[s][i] = "profile"
  <1>1. /\ Chain["output"][2] = "profile" /\ 2 \in DOMAIN Chain["output"]
        /\ Chain["sourcemap"][3] = "profile" /\ 3 \in DOMAIN Chain["sourcemap"]
        /\ Chain["stub"][3] = "profile" /\ 3 \in DOMAIN Chain["stub"]
    BY DEF Chain
  <1>2. QED
    BY <1>1

\* A setting has the value of the first place that gives one.
LEMMA ResolvedIs ==
  ASSUME NEW s \in Settings, NEW i \in DOMAIN Chain[s],
         NEW t \in From(Heard, Chain[s][i], s),
         \A j \in DOMAIN Chain[s] :
           j < i => From(Heard, Chain[s][j], s) = {},
         \A u \in From(Heard, Chain[s][i], s) : u[3] = t[3]
  PROVE  Resolved(s) = t[3]
  <1> DEFINE places == {k \in DOMAIN Chain[s] : From(Heard, Chain[s][k], s) # {}}
             first == First(places)
  <1>1. DOMAIN Chain[s] \subseteq 1 .. 4
    BY ChainIs
  <1>2. places \subseteq 1 .. 4 /\ i \in places
    BY <1>1
  <1>3. first \in places /\ \A k \in places : first <= k
    <2> HIDE DEF places
    <2>1. \E x \in places : \A y \in places : x <= y
      BY <1>2, FirstPlace
    <2>2. QED
      BY <2>1 DEF First
  <1>4. first = i
    <2>1. first \in Nat /\ i \in Nat /\ first <= i
      <3> HIDE DEF places, first
      <3>1. first \in 1 .. 4 /\ i \in 1 .. 4
        BY <1>2, <1>3
      <3>2. QED
        BY <1>2, <1>3, <3>1
    <2>2. ~(first < i)
      BY <1>3
    <2>3. QED
      BY <2>1, <2>2
  <1>5. Resolved(s) = IF places = {} THEN FlagDefault[s]
                             ELSE (CHOOSE u \in From(Heard, Chain[s][first], s) : TRUE)[3]
    BY Zenon DEF Resolved
  <1> HIDE DEF places, first
  <1>6. QED
    BY <1>2, <1>4, <1>5

\* Its value is a default, or one that is heard for it.
LEMMA ResolvedFrom ==
  ASSUME NEW s \in Settings
  PROVE  \/ /\ Resolved(s) = FlagDefault[s]
            /\ \A i \in DOMAIN Chain[s] : From(Heard, Chain[s][i], s) = {}
         \/ \E t \in Heard : t[2] = s /\ Resolved(s) = t[3]
  <1> DEFINE places == {k \in DOMAIN Chain[s] : From(Heard, Chain[s][k], s) # {}}
             first == First(places)
             chosen == CHOOSE u \in From(Heard, Chain[s][first], s) : TRUE
  <1>1. DOMAIN Chain[s] \subseteq 1 .. 4
    BY ChainIs
  <1>2. Resolved(s) = IF places = {} THEN FlagDefault[s] ELSE chosen[3]
    BY Zenon DEF Resolved
  <1>3. CASE places = {}
    BY <1>2, <1>3
  <1>4. CASE places # {}
    <2>1. first \in places
      <3>1. places \subseteq 1 .. 4
        BY <1>1
      <3> HIDE DEF places
      <3>2. \E x \in places : \A y \in places : x <= y
        BY <1>4, <3>1, FirstPlace
      <3>3. QED
        BY <3>2 DEF First
    <2>2. From(Heard, Chain[s][first], s) # {}
      BY <2>1
    <2>3. chosen \in From(Heard, Chain[s][first], s)
      <3> HIDE DEF first
      <3>1. QED
        BY <2>2
    <2>4. chosen \in Heard /\ chosen[2] = s
      BY <2>3 DEF From
    <2> HIDE DEF places, chosen
    <2>5. QED
      BY <1>2, <1>4, <2>4
  <1>5. QED
    BY <1>3, <1>4

\* What is short for a setting, and for which.
LEMMA ShortIs ==
  ASSUME Spoken
  PROVE  \A t : t \in Shorthands <=>
           \/ t = <<"flag", "base", "chainguard">> /\ On("hardened")
           \/ t = <<"flag", "strategy", "static">> /\ On("static")
           \/ t = <<"flag", "verify", "none">> /\ On("no-cache-verify")
           \/ \E o \in {"local", "tarball", "oci-layout"} : t = <<"flag", "output", o>> /\ On(o)
  <1>1. \A u \in said : (u[1] = "flag" /\ u[2] \in Switches) => u = <<"flag", u[2], "on">>
    <2> SUFFICES ASSUME NEW u \in said, u[1] = "flag", u[2] \in Switches
                 PROVE  u = <<"flag", u[2], "on">>
      OBVIOUS
    <2>1. Sayable(u)
      BY DEF Spoken
    <2>2. u[2] \notin Settings
      BY SettingsAre DEF Switches
    <2>3. PICK flag \in Switches : u = <<"flag", flag, "on">>
      BY <2>1, <2>2 DEF Sayable
    <2>4. QED
      BY <2>3
  <1>2. \A flag \in {"hardened", "static", "no-cache-verify", "local", "tarball", "oci-layout"} :
          On(flag) <=> \E u \in said : u[1] = "flag" /\ u[2] = flag
    <2> SUFFICES ASSUME NEW flag \in {"hardened", "static", "no-cache-verify", "local", "tarball", "oci-layout"}
                 PROVE  On(flag) <=> \E u \in said : u[1] = "flag" /\ u[2] = flag
      OBVIOUS
    <2>1. flag \in Switches
      BY DEF Switches
    <2>2. QED
      BY <1>1, <2>1 DEF On
  <1>3. ASSUME NEW t
        PROVE  t \in Shorthands <=> \E u \in said : u[1] = "flag" /\ t \in Shorthand(u[2])
    BY DEF Shorthands
  <1>4. \A flag, t : t \in Shorthand(flag) <=>
           \/ flag = "hardened" /\ t = <<"flag", "base", "chainguard">>
           \/ flag = "static" /\ t = <<"flag", "strategy", "static">>
           \/ flag = "no-cache-verify" /\ t = <<"flag", "verify", "none">>
           \/ flag \in {"local", "tarball", "oci-layout"} /\ t = <<"flag", "output", flag>>
    BY DEF Shorthand
  <1>5. ASSUME NEW t
        PROVE  t \in Shorthands <=>
                 \E u \in said :
                   /\ u[1] = "flag"
                   /\ \/ u[2] = "hardened" /\ t = <<"flag", "base", "chainguard">>
                      \/ u[2] = "static" /\ t = <<"flag", "strategy", "static">>
                      \/ u[2] = "no-cache-verify" /\ t = <<"flag", "verify", "none">>
                      \/ u[2] \in {"local", "tarball", "oci-layout"} /\ t = <<"flag", "output", u[2]>>
    BY <1>3, <1>4
  <1>6. QED
    BY <1>2, <1>5

\* The value of a setting, the switches that are short for one counted in.
ValueOf(s) ==
  CASE s = "base" -> Base
    [] s = "strategy" -> Strategy
    [] s = "output" -> Output
    [] s = "verify" -> cacheVerify
    [] OTHER -> Resolved(s)

\* Of the flags that name an output the one that is on is the output.
LEMMA OneOutput ==
  ASSUME ~Refused, NEW o \in {"local", "tarball", "oci-layout"}, On(o)
  PROVE  Output = o
  <1> DEFINE three == {"local", "tarball", "oci-layout"}
             on == {x \in three : On(x)}
  <1>1. ~(Cardinality(on) > 1)
    BY DEF Refused
  <1>3. IsFiniteSet(on)
    <2>1. IsFiniteSet({}) /\ IsFiniteSet({"local"}) /\ IsFiniteSet({"local", "tarball"}) /\ IsFiniteSet(three)
      <3>1. IsFiniteSet({"local"})
        BY FS_Singleton
      <3>2. IsFiniteSet({"local"} \cup {"tarball"})
        BY <3>1, FS_AddElement
      <3>3. IsFiniteSet(({"local"} \cup {"tarball"}) \cup {"oci-layout"})
        BY <3>2, FS_AddElement
      <3>4. ({"local"} \cup {"tarball"}) \cup {"oci-layout"} = three /\ {"local"} \cup {"tarball"} = {"local", "tarball"}
        OBVIOUS
      <3>5. QED
        BY <3>1, <3>2, <3>3, <3>4, FS_EmptySet
    <2>2. on \subseteq three
      OBVIOUS
    <2>3. QED
      BY <2>1, <2>2, FS_Subset
  <1>4. ASSUME NEW x \in three, On(x), x # o PROVE FALSE
    <2>1. Cardinality({x}) = 1 /\ IsFiniteSet({x})
      BY FS_Singleton
    <2>2. Cardinality({x} \cup {o}) = 2 /\ IsFiniteSet({x} \cup {o})
      <3>1. o \notin {x}
        BY <1>4
      <3>2. Cardinality({x} \cup {o}) = Cardinality({x}) + 1 /\ IsFiniteSet({x} \cup {o})
        BY <2>1, <3>1, FS_AddElement
      <3>3. QED
        BY <2>1, <3>2
    <2>3. {x} \cup {o} \subseteq on
      BY <1>4
    <2>4. Cardinality({x} \cup {o}) <= Cardinality(on)
      BY <1>3, <2>3, FS_Subset
    <2>5. Cardinality(on) \in Nat
      BY <1>3, FS_CardinalityType
    <2>6. QED
      BY <1>1, <2>2, <2>4, <2>5
  <1>5. QED
    BY <1>4 DEF Output

\* What counts for a setting that no switch is short for is what a place says,
\* and nothing said in a place before it.
LEMMA ForceIs ==
  ASSUME Spoken, NEW t \in InForce, t \notin Shorthands
  PROVE  /\ t \in said /\ t[2] \in Settings /\ t[3] # Unset
         /\ \A u \in Shorthands : u[2] # t[2]
         /\ t[1] \in {"flag", "env"}
              \/ (file[1] = "ok" /\ t[1] = "config")
              \/ (file[1] = "ok" /\ t[1] = "profile" /\ ActiveProfile # "")
         /\ \A u \in said : u[2] = t[2] =>
              /\ u[1] = "flag" => t[1] = "flag"
              /\ u[1] = "env" => t[1] \in {"flag", "env"}
              /\ (u[1] = "profile" /\ file[1] = "ok" /\ ActiveProfile # "") => t[1] # "config"
  <1> DEFINE valid == IF file[1] # "ok" THEN {"flag", "env"}
                      ELSE IF ActiveProfile = "" THEN {"flag", "env", "config"}
                      ELSE {"flag", "env", "profile", "config"}
             long == {u \in said : u[2] \in Settings /\ From(Shorthands, u[1], u[2]) = {}}
  <1>1. Counted = {u \in Shorthands \cup long : u[1] \in valid}
    BY Zenon DEF Counted
  <1>2. t \in Counted /\ \A u \in Counted : u[2] = t[2] => Rank(t[1]) <= Rank(u[1])
    BY DEF InForce
  <1>3. t \in long /\ t[1] \in valid
    BY <1>1, <1>2
  <1>4. /\ t \in said /\ t[2] \in Settings /\ From(Shorthands, t[1], t[2]) = {}
    BY <1>3
  <1>5. {"flag", "env"} \subseteq valid /\ valid \subseteq {"flag", "env", "profile", "config"}
    OBVIOUS
  <1>6. \A u \in Shorthands : u[1] = "flag"
    BY ShortIs
  <1> HIDE DEF long
  <1>7. ASSUME NEW u \in Shorthands, u[2] = t[2] PROVE FALSE
    <2>1. t[1] # "flag"
      BY <1>4, <1>6, <1>7 DEF From
    <2>2. u \in Counted
      BY <1>1, <1>5, <1>6
    <2>3. Rank(t[1]) <= 1
      BY <1>2, <1>6, <1>7, <2>2, RanksAre
    <2>4. t[1] \in {"env", "profile", "config"}
      BY <1>3, <1>5, <2>1
    <2>5. QED
      BY <2>3, <2>4, RanksAre
  <1>8. ASSUME NEW u \in said, u[2] = t[2], u[1] \in valid
        PROVE  Rank(t[1]) <= Rank(u[1])
    <2>1. From(Shorthands, u[1], u[2]) = {}
      BY <1>7, <1>8 DEF From
    <2>2. u \in long
      BY <1>4, <1>8, <2>1 DEF long
    <2>3. QED
      BY <1>1, <1>2, <1>8, <2>2
  <1>9. t[3] # Unset
    <2>1. Sayable(t)
      BY <1>4 DEF Spoken
    <2>2. t[2] \notin Switches
      BY <1>4, SettingsAre DEF Switches
    <2>3. QED
      BY <2>1, <2>2 DEF Sayable
  <1>10. ASSUME NEW u \in said, u[2] = t[2]
         PROVE  /\ u[1] = "flag" => t[1] = "flag"
                /\ u[1] = "env" => t[1] \in {"flag", "env"}
                /\ (u[1] = "profile" /\ file[1] = "ok" /\ ActiveProfile # "") => t[1] # "config"
    <2>1. t[1] \in {"flag", "env", "profile", "config"}
      BY <1>3, <1>5
    <2>2. CASE u[1] = "flag"
      <3>1. Rank(t[1]) <= 1
        BY <1>5, <1>8, <1>10, <2>2, RanksAre
      <3>2. QED
        BY <2>1, <2>2, <3>1, RanksAre
    <2>3. CASE u[1] = "env"
      <3>1. Rank(t[1]) <= 2
        BY <1>5, <1>8, <1>10, <2>3, RanksAre
      <3>2. QED
        BY <2>1, <2>3, <3>1, RanksAre
    <2>4. CASE u[1] = "profile" /\ file[1] = "ok" /\ ActiveProfile # ""
      <3>1. Rank(t[1]) <= 3
        BY <1>8, <1>10, <2>4, RanksAre
      <3>2. t[1] # "config"
        BY <3>1, RanksAre
      <3>3. QED
        BY <2>4, <3>2
    <2>5. QED
      BY <2>2, <2>3, <2>4
  <1>11. \/ t[1] \in {"flag", "env"}
         \/ file[1] = "ok" /\ t[1] = "config"
         \/ file[1] = "ok" /\ t[1] = "profile" /\ ActiveProfile # ""
    BY <1>3
  <1>12. QED
    BY <1>4, <1>7, <1>9, <1>10, <1>11

\* What is heard of a setting in each place: of the file, what counts there.
LEMMA HeardIs ==
  ASSUME Spoken, read = Loaded, NEW s, NEW u \in Heard, u[2] = s
  PROVE  \/ u \in said /\ u[1] \in {"flag", "env"}
         \/ u \in said /\ u[1] = "config" /\ file[1] = "ok"
              /\ ActiveProfile = "" 
         \/ /\ u \in said /\ u[1] = "config" /\ file[1] = "ok" /\ ActiveProfile # ""
            /\ s \in {"output", "sourcemap"} \/ \A v \in said : v[2] = s => v[1] # "profile"
         \/ /\ u[1] = "config" /\ file[1] = "ok" /\ ActiveProfile # "" /\ s \notin {"output", "sourcemap"}
            /\ \E v \in said : v[1] = "profile" /\ v[2] = s /\ v[3] = u[3]
         \/ /\ u \in said /\ u[1] = "profile" /\ file[1] = "ok" /\ ActiveProfile # ""
            /\ s \in {"output", "sourcemap", "stub"}
  <1> DEFINE own == {t \in said : t[1] = "config"}
             profile == {t \in said : t[1] = "profile"}
             over == {<<"config", t[2], t[3]>> : t \in {v \in profile : v[2] \notin {"output", "sourcemap"}}}
  <1>1. CASE u \notin read
    BY <1>1 DEF Heard
  <1>2. CASE u \in read
    <2>1. file[1] = "ok" /\ u \in (IF ActiveProfile = "" THEN own ELSE ApplyProfile(own, profile))
      BY <1>2 DEF Loaded
    <2>2. CASE ActiveProfile = ""
      BY <2>1, <2>2
    <2>3. CASE ActiveProfile # ""
      <3>1. \/ u \in own /\ From(over, "config", u[2]) = {}
            \/ u \in over
            \/ u \in profile /\ u[2] \in {"output", "sourcemap", "stub"}
        BY <2>1, <2>3 DEF ApplyProfile
      <3>2. CASE u \in own /\ From(over, "config", u[2]) = {}
        <4>1. ASSUME NEW v \in said, v[2] = s, v[1] = "profile", s \notin {"output", "sourcemap"} PROVE FALSE
          <5>1. <<"config", v[2], v[3]>> \in over
            BY <4>1
          <5>2. <<"config", v[2], v[3]>> \in From(over, "config", u[2])
            BY <4>1, <5>1 DEF From
          <5>3. QED
            BY <3>2, <5>2
        <4>2. QED
          BY <2>1, <2>3, <3>2, <4>1
      <3>3. CASE u \in over
        <4>1. PICK v \in profile : v[2] \notin {"output", "sourcemap"} /\ u = <<"config", v[2], v[3]>>
          BY <3>3
        <4>2. QED
          BY <2>1, <2>3, <4>1
      <3>4. CASE u \in profile /\ u[2] \in {"output", "sourcemap", "stub"}
        BY <2>1, <2>3, <3>4
      <3>5. QED
        BY <3>1, <3>2, <3>3, <3>4
    <2>4. QED
      BY <2>2, <2>3
  <1>3. QED
    BY <1>1, <1>2

\* What is said in the file and counts is heard: a profile's as the file's.
LEMMA FileIsHeard ==
  ASSUME Spoken, read = Loaded, file[1] = "ok", NEW t \in said
  PROVE  /\ (t[1] = "config" /\ ActiveProfile = "") => t \in Heard
         /\ (/\ t[1] = "config" /\ ActiveProfile # ""
             /\ t[2] \in {"output", "sourcemap"} \/ \A v \in said : v[2] = t[2] => v[1] # "profile")
              => t \in Heard
         /\ (t[1] = "profile" /\ ActiveProfile # "") =>
              /\ t[2] \in {"output", "sourcemap", "stub"} => t \in Heard
              /\ t[2] \notin {"output", "sourcemap"} => <<"config", t[2], t[3]>> \in Heard
  <1> DEFINE own == {u \in said : u[1] = "config"}
             profile == {u \in said : u[1] = "profile"}
             over == {<<"config", u[2], u[3]>> : u \in {v \in profile : v[2] \notin {"output", "sourcemap"}}}
  <1>1. CASE ActiveProfile = ""
    BY <1>1 DEF Loaded, Heard
  <1>2. CASE ActiveProfile # ""
    <2>1. ApplyProfile(own, profile) \subseteq Heard
      BY <1>2 DEF Loaded, Heard
    <2>2. /\ {u \in own : From(over, "config", u[2]) = {}} \subseteq ApplyProfile(own, profile)
          /\ over \subseteq ApplyProfile(own, profile)
          /\ {u \in profile : u[2] \in {"output", "sourcemap", "stub"}} \subseteq ApplyProfile(own, profile)
      BY DEF ApplyProfile
    <2>3. ASSUME t[1] = "config",
                 t[2] \in {"output", "sourcemap"} \/ \A v \in said : v[2] = t[2] => v[1] # "profile"
          PROVE  t \in Heard
      <3>1. From(over, "config", t[2]) = {}
        <4> SUFFICES ASSUME NEW x \in over, x[2] = t[2] PROVE FALSE
          BY DEF From
        <4>1. PICK v \in profile : v[2] \notin {"output", "sourcemap"} /\ x = <<"config", v[2], v[3]>>
          OBVIOUS
        <4>2. QED
          BY <2>3, <4>1
      <3>2. t \in own
        BY <2>3
      <3> HIDE DEF own, over
      <3>3. QED
        BY <2>1, <2>2, <3>1, <3>2
    <2>4. ASSUME t[1] = "profile", t[2] \in {"output", "sourcemap", "stub"} PROVE t \in Heard
      BY <2>1, <2>2, <2>4
    <2>5. ASSUME t[1] = "profile", t[2] \notin {"output", "sourcemap"}
          PROVE  <<"config", t[2], t[3]>> \in Heard
      <3>1. <<"config", t[2], t[3]>> \in over
        BY <2>5
      <3> HIDE DEF over, own, profile
      <3>2. QED
        BY <2>1, <2>2, <3>1
    <2>6. QED
      BY <1>2, <2>3, <2>4, <2>5
  <1>3. QED
    BY <1>1, <1>2

\* What is in force for a setting is what the setting resolves to.
LEMMA SaidIsResolved ==
  ASSUME Spoken, read = Loaded, NEW t \in InForce, t \notin Shorthands
  PROVE  Resolved(t[2]) = t[3]
  <1> DEFINE s == t[2]
             Chosen(i, u) == /\ i \in DOMAIN Chain[s] /\ u \in From(Heard, Chain[s][i], s)
                             /\ u[3] = t[3]
  <1>1. /\ t \in said /\ s \in Settings
        /\ \A u \in said : u[2] = s =>
             /\ u[1] = "flag" => t[1] = "flag"
             /\ u[1] = "env" => t[1] \in {"flag", "env"}
             /\ (u[1] = "profile" /\ file[1] = "ok" /\ ActiveProfile # "") => t[1] # "config"
    BY ForceIs
  <1>2. PICK p \in DOMAIN Chain[s] :
          t[1] = Chain[s][p] \/ (t[1] = "profile" /\ Chain[s][p] = "config")
    <2>1. Sayable(t)
      BY <1>1 DEF Spoken
    <2>2. s \notin Switches
      BY <1>1, SettingsAre DEF Switches
    <2>3. QED
      BY <2>1, <2>2 DEF Sayable
  <1>3. /\ DOMAIN Chain[s] \subseteq 1 .. 4
        /\ \A i \in DOMAIN Chain[s] :
              /\ Chain[s][i] \in {"flag", "env", "profile", "config"}
              /\ Chain[s][i] = "profile" => s \in {"output", "sourcemap", "stub"}
        /\ \A i, j \in DOMAIN Chain[s] :
              i < j => Rank(Chain[s][i]) < Rank(Chain[s][j])
    BY <1>1, ChainIs
  <1>4. \A u, v \in said : u[1] = v[1] /\ u[2] = v[2] => u = v
    BY DEF Spoken, OneEach
  <1>5. \A u \in Heard : u[2] = s =>
         \/ u \in said /\ u[1] \in {"flag", "env"}
         \/ u \in said /\ u[1] = "config" /\ file[1] = "ok"
              /\ ActiveProfile = "" 
         \/ /\ u \in said /\ u[1] = "config" /\ file[1] = "ok" /\ ActiveProfile # ""
            /\ s \in {"output", "sourcemap"} \/ \A v \in said : v[2] = s => v[1] # "profile"
         \/ /\ u[1] = "config" /\ file[1] = "ok" /\ ActiveProfile # "" /\ s \notin {"output", "sourcemap"}
            /\ \E v \in said : v[1] = "profile" /\ v[2] = s /\ v[3] = u[3]
         \/ /\ u \in said /\ u[1] = "profile" /\ file[1] = "ok" /\ ActiveProfile # ""
            /\ s \in {"output", "sourcemap", "stub"}
    BY HeardIs
  <1>6. \/ t[1] \in {"flag", "env"}
        \/ file[1] = "ok" /\ t[1] = "config"
        \/ file[1] = "ok" /\ t[1] = "profile" /\ ActiveProfile # ""
    BY ForceIs
  <1> HIDE DEF s
  <1>7. ASSUME NEW i \in DOMAIN Chain[s], NEW w \in Heard, w[1] = Chain[s][i], w[2] = s, w[3] = t[3],
               \A u \in Heard : u[2] = s => Rank(w[1]) <= Rank(u[1]),
               \A u \in Heard : u[2] = s /\ u[1] = w[1] => u[3] = t[3]
        PROVE  Resolved(s) = t[3]
    <2>1. w \in From(Heard, Chain[s][i], s)
      BY <1>7 DEF From
    <2>2. \A u \in From(Heard, Chain[s][i], s) : u[3] = w[3]
      BY <1>7 DEF From
    <2>3. ASSUME NEW j \in DOMAIN Chain[s], j < i, NEW u \in From(Heard, Chain[s][j], s)
          PROVE  FALSE
      <3>1. u \in Heard /\ u[2] = s /\ u[1] = Chain[s][j]
        BY <2>3 DEF From
      <3>2. Rank(Chain[s][j]) < Rank(Chain[s][i])
        BY <1>3, <2>3
      <3>3. Rank(Chain[s][i]) <= Rank(Chain[s][j])
        BY <1>7, <3>1
      <3>4. Rank(Chain[s][j]) \in Nat /\ Rank(Chain[s][i]) \in Nat
        BY <1>3, RanksAre
      <3>5. QED
        BY <3>2, <3>3, <3>4
    <2>4. Resolved(s) = w[3]
      BY <1>1, <2>1, <2>2, <2>3, ResolvedIs
    <2>5. QED
      BY <1>7, <2>4
  <1>8. CASE t[1] \in {"flag", "env"}
    <2>1. t \in Heard /\ t[1] = Chain[s][p] /\ t[2] = s
      BY <1>1, <1>2, <1>8 DEF Heard, s
    <2>2. \A u \in Heard : u[2] = s /\ u[1] \in {"flag", "env"} => u \in said
      BY <1>5
    <2>3. ASSUME NEW u \in Heard, u[2] = s PROVE Rank(t[1]) <= Rank(u[1])
      <3>1. u[1] \in {"flag", "env", "config", "profile"}
        BY <1>5, <2>3
      <3>2. u[1] = "flag" => t[1] = "flag"
        BY <1>1, <2>2, <2>3
      <3>3. QED
        BY <1>8, <3>1, <3>2, RanksAre
    <2>4. \A u \in Heard : u[2] = s /\ u[1] = t[1] => u[3] = t[3]
      BY <1>1, <1>4, <1>8, <2>1, <2>2
    <2>5. QED
      BY <1>7, <2>1, <2>3, <2>4
  <1>9. CASE file[1] = "ok" /\ t[1] = "config"
    <2>1. t[1] = Chain[s][p] /\ t[2] = s
      BY <1>2, <1>9 DEF s
    <2>2. \A v \in said : v[2] = s => v[1] \notin {"flag", "env"} /\ (ActiveProfile # "" => v[1] # "profile")
      BY <1>1, <1>9
    <2>3. t \in Heard
      BY <1>1, <1>9, <2>1, <2>2, FileIsHeard
    <2>4. \A u \in Heard : u[2] = s => u \in said /\ u[1] = "config"
      BY <1>5, <2>2
    <2>5. \A u \in Heard : u[2] = s => Rank(t[1]) <= Rank(u[1])
      BY <1>9, <2>4, RanksAre
    <2>6. \A u \in Heard : u[2] = s => u[3] = t[3]
      BY <1>1, <1>4, <1>9, <2>1, <2>4
    <2>7. QED
      BY <1>7, <2>1, <2>3, <2>5, <2>6
  <1>10. CASE file[1] = "ok" /\ t[1] = "profile" /\ ActiveProfile # ""
    <2>1. \A v \in said : v[2] = s => v[1] \notin {"flag", "env"}
      BY <1>1, <1>10
    <2>2. \A v \in said : v[1] = "profile" /\ v[2] = s => v[3] = t[3]
      BY <1>1, <1>4, <1>10 DEF s
    <2>3. CASE s \in {"output", "sourcemap", "stub"}
      <3>1. t \in Heard /\ t[2] = s
        BY <1>1, <1>10, <2>3, FileIsHeard DEF s
      <3>2. PICK i \in DOMAIN Chain[s] : Chain[s][i] = "profile"
        BY <2>3, ProfileIs
      <3>3. \A u \in Heard : u[2] = s => u[1] \in {"profile", "config"} /\ (u[1] = "profile" => u \in said)
        BY <1>5, <2>1
      <3>4. ASSUME NEW u \in Heard, u[2] = s PROVE Rank(t[1]) <= Rank(u[1])
        <4>1. u[1] = "profile" \/ u[1] = "config"
          BY <3>3, <3>4
        <4>2. Rank(t[1]) = 3
          BY <1>10, RanksAre
        <4>3. QED
          BY <4>1, <4>2, RanksAre
      <3>5. \A u \in Heard : u[2] = s /\ u[1] = t[1] => u[3] = t[3]
        BY <1>10, <2>2, <3>3
      <3>6. QED
        BY <1>7, <1>10, <3>1, <3>2, <3>4, <3>5
    <2>4. CASE s \notin {"output", "sourcemap", "stub"}
      <3>1. <<"config", s, t[3]>> \in Heard
        BY <1>1, <1>10, <2>4, FileIsHeard DEF s
      <3>2. PICK w \in Heard : w[1] = "config" /\ w[2] = s /\ w[3] = t[3]
        BY <3>1
      <3>3. w[1] = Chain[s][p]
        BY <1>2, <1>3, <1>10, <2>4, <3>2
      <3>4. \A u \in Heard : u[2] = s =>
              u[1] = "config" /\ \E v \in said : v[1] = "profile" /\ v[2] = s /\ v[3] = u[3]
        <4>1. \E v \in said : v[2] = s /\ v[1] = "profile"
          BY <1>1, <1>10 DEF s
        <4>2. QED
          BY <1>5, <1>10, <2>1, <2>4, <4>1
      <3>5. \A u \in Heard : u[2] = s => Rank(w[1]) <= Rank(u[1])
        BY <3>2, <3>4, RanksAre
      <3>6. \A u \in Heard : u[2] = s /\ u[1] = w[1] => u[3] = t[3]
        BY <2>2, <3>4
      <3>7. QED
        BY <1>7, <3>2, <3>3, <3>5, <3>6 DEF s
    <2>5. QED
      BY <2>3, <2>4
  <1>11. QED
    BY <1>6, <1>8, <1>9, <1>10 DEF s

\* What is in force is the value of its setting.
LEMMA InForceIsValue ==
  ASSUME Spoken, read = Loaded, ~Refused, NEW t \in InForce
  PROVE  t[2] \in Settings /\ ValueOf(t[2]) = t[3]
  <1>1. CASE t \in Shorthands
    <2>1. \/ t = <<"flag", "base", "chainguard">> /\ On("hardened")
          \/ t = <<"flag", "strategy", "static">> /\ On("static")
          \/ t = <<"flag", "verify", "none">> /\ On("no-cache-verify")
          \/ \E o \in {"local", "tarball", "oci-layout"} : t = <<"flag", "output", o>> /\ On(o)
      BY <1>1, ShortIs
    <2>2. CASE t = <<"flag", "base", "chainguard">> /\ On("hardened")
      BY <2>2, SettingsAre DEF ValueOf, Base
    <2>3. CASE t = <<"flag", "strategy", "static">> /\ On("static")
      BY <2>3, SettingsAre DEF ValueOf, Strategy
    <2>4. CASE t = <<"flag", "verify", "none">> /\ On("no-cache-verify")
      BY <2>4, SettingsAre DEF ValueOf, cacheVerify
    <2>5. ASSUME NEW o \in {"local", "tarball", "oci-layout"}, t = <<"flag", "output", o>>, On(o)
          PROVE  t[2] \in Settings /\ ValueOf(t[2]) = t[3]
      <3>1. Output = o
        BY <2>5, OneOutput
      <3>2. QED
        BY <2>5, <3>1, SettingsAre DEF ValueOf
    <2>6. QED
      BY <2>1, <2>2, <2>3, <2>4, <2>5
  <1>2. CASE t \notin Shorthands
    <2>1. t[2] \in Settings /\ \A u \in Shorthands : u[2] # t[2]
      BY <1>2, ForceIs
    <2>2. Resolved(t[2]) = t[3]
      BY <1>2, SaidIsResolved
    <2>3. /\ t[2] = "base" => ~On("hardened")
          /\ t[2] = "strategy" => ~On("static")
          /\ t[2] = "verify" => ~On("no-cache-verify")
          /\ t[2] = "output" => \A o \in {"local", "tarball", "oci-layout"} : ~On(o)
      <3>1. /\ On("hardened") => <<"flag", "base", "chainguard">> \in Shorthands
            /\ On("static") => <<"flag", "strategy", "static">> \in Shorthands
            /\ On("no-cache-verify") => <<"flag", "verify", "none">> \in Shorthands
            /\ \A o \in {"local", "tarball", "oci-layout"} :
                 On(o) => <<"flag", "output", o>> \in Shorthands
        BY ShortIs
      <3>2. QED
        BY <2>1, <3>1
    <2>4. QED
      BY <2>1, <2>2, <2>3 DEF ValueOf, Base, Strategy, Output, cacheVerify
  <1>3. QED
    BY <1>1, <1>2

\* The fields of a request once it has its defaults.
LEMMA FieldsAre ==
  ASSUME NEW route, NEW r, r = Normal(Wish(route)), Unset \notin {"custom", "chainguard", "ref", "StaticBaseRef"}
  PROVE  /\ r.strategy = Strategy /\ r.output = Output
         /\ r.path = On(Output)
         /\ r.ready = resolveReadyPath(route) /\ r.cve = failOnCVE
         /\ r.telemetry = telemetryEnabled
         /\ r.runtime = Resolved("runtime") /\ r.sbom = Resolved("sbom")
         /\ r.stub = Resolved("stub") /\ r.sourcemap = Resolved("sourcemap")
         /\ r.tracing = Resolved("tracing")
         /\ r.repo = (IF Resolved("repo") = Unset /\ Output # "push" THEN "pokkum.local"
                            ELSE Resolved("repo"))
         /\ r.tags = (IF Resolved("tags") = Unset THEN "latest" ELSE Resolved("tags"))
         /\ r.platforms = (IF Resolved("platforms") = Unset THEN "all"
                                 ELSE Resolved("platforms"))
         /\ r.verify = (IF cacheVerify = Unset THEN "auto" ELSE cacheVerify)
         /\ r.require = On("require-signed") /\ r.key = On("signing-key")
         /\ r.sign = ~On("no-sign")
         /\ Base = "ref" => r.base = "custom" /\ r.ref = "ref"
         /\ Base \notin {"ref", Unset} =>
              r.base = Base /\ r.ref = DefaultRef(Base)
         /\ (Base = Unset /\ Strategy = "static") =>
              r.base = "chainguard" /\ r.ref = "StaticBaseRef"
         /\ (Base = Unset /\ Strategy # "static") =>
              LET base == IF Resolved("runtime") = "node" THEN "distroless-node" ELSE "distroless"
              IN r.base = base /\ r.ref = DefaultRef(base)
  <1> DEFINE w == Wish(route)
             base == IF w.base # Unset THEN w.base
                     ELSE IF w.ref # Unset THEN "custom"
                     ELSE IF w.runtime = "node" THEN "distroless-node" ELSE "distroless"
  <1>1. /\ w.base = BaseImage.base /\ w.ref = BaseImage.ref /\ w.runtime = Resolved("runtime")
    BY DEF Wish
  <1>2. /\ r.strategy = Strategy /\ r.output = Output
         /\ r.path = On(Output)
         /\ r.ready = resolveReadyPath(route) /\ r.cve = failOnCVE
         /\ r.runtime = Resolved("runtime") /\ r.sbom = Resolved("sbom")
         /\ r.stub = Resolved("stub") /\ r.sourcemap = Resolved("sourcemap")
         /\ r.tracing = Resolved("tracing")
    BY DEF Normal, Wish
  <1>3. /\ r.require = On("require-signed") /\ r.key = On("signing-key")
        /\ r.sign = ~On("no-sign") /\ r.telemetry = telemetryEnabled
    BY DEF Normal, Wish
  <1>4. /\ r.repo = (IF Resolved("repo") = Unset /\ Output # "push" THEN "pokkum.local"
                            ELSE Resolved("repo"))
         /\ r.tags = (IF Resolved("tags") = Unset THEN "latest" ELSE Resolved("tags"))
         /\ r.platforms = (IF Resolved("platforms") = Unset THEN "all"
                                 ELSE Resolved("platforms"))
         /\ r.verify = (IF cacheVerify = Unset THEN "auto" ELSE cacheVerify)
    BY DEF Normal, Wish
  <1>5. r.base = base
    BY DEF Normal, Wish
  <1>6. r.ref = IF w.ref # Unset THEN w.ref ELSE DefaultRef(base)
    BY DEF Normal, Wish
  <1> HIDE DEF w
  <1>7. CASE Base = "ref"
    <2>1. w.base = "custom" /\ w.ref = "ref"
      BY <1>1, <1>7 DEF BaseImage
    <2>2. r.base = "custom" /\ r.ref = "ref"
      BY <1>5, <1>6, <2>1
    <2>3. QED
      BY <1>2, <1>3, <1>4, <1>7, <2>2
  <1>8. CASE Base \notin {"ref", Unset}
    <2>1. BaseImage = [base |-> Base, ref |-> Unset]
      BY <1>8 DEF BaseImage
    <2>2. w.base = Base /\ w.ref = Unset
      BY <1>1, <2>1
    <2>3. r.base = Base /\ r.ref = DefaultRef(Base)
      BY <1>5, <1>6, <1>8, <2>2
    <2>4. QED
      BY <1>2, <1>3, <1>4, <1>8, <2>3
  <1>9. CASE Base = Unset /\ Strategy = "static"
    <2>1. w.base = "chainguard" /\ w.ref = "StaticBaseRef"
      BY <1>1, <1>9 DEF BaseImage
    <2>2. r.base = "chainguard" /\ r.ref = "StaticBaseRef"
      BY <1>5, <1>6, <2>1
    <2>3. QED
      BY <1>2, <1>3, <1>4, <1>9, <2>2
  <1>10. CASE Base = Unset /\ Strategy # "static"
    <2>1. BaseImage = [base |-> Base, ref |-> Unset]
      BY <1>10 DEF BaseImage
    <2>2. w.base = Unset /\ w.ref = Unset
      BY <1>1, <1>10, <2>1
    <2>3. QED
      BY <1>1, <1>2, <1>3, <1>4, <1>5, <1>6, <1>10, <2>2
  <1>11. QED
    BY <1>7, <1>8, <1>9, <1>10

\* Unset is none of the values the code names.
LEMMA UnsetIs ==
  ASSUME Assumed
  PROVE  Unset \notin {"custom", "chainguard", "ref", "StaticBaseRef", "distroless", "distroless-node", "r", "v1",
                       "all", "local", "layered", "static", "exe", "bun", "node", "spdx", "none", "push",
                       "tarball", "oci-layout", "on", "off", "high", "true", "keyless", "/ready", "critical",
                       "latest", "auto", "pokkum.local", "/route"}
  <1>1. \A s \in Settings : Unset \notin Legal[s]
    BY DEF Assumed
  <1>2. Unset \notin Defaults /\ Unset # "StaticBaseRef"
    BY DEF Assumed
  <1>3. /\ Unset \notin Legal["repo"] /\ Unset \notin Legal["tags"]
        /\ Unset \notin Legal["platforms"] /\ Unset \notin Legal["base"]
        /\ Unset \notin Legal["strategy"] /\ Unset \notin Legal["runtime"]
        /\ Unset \notin Legal["sbom"] /\ Unset \notin Legal["output"]
        /\ Unset \notin Legal["stub"] /\ Unset \notin Legal["cve"]
        /\ Unset \notin Legal["verify"] /\ Unset \notin Legal["ready"]
    BY <1>1, SettingsAre
  <1>4. QED
    BY <1>2, <1>3 DEF Legal, Defaults

\* What is heard for a setting was said for it.
LEMMA HeardIsSaid ==
  ASSUME Spoken, read = Loaded, NEW u \in Heard
  PROVE  \E v \in said : v[2] = u[2] /\ v[3] = u[3]
  BY HeardIs

\* A request that is not refused has a legal value of every setting, or none.
LEMMA ValuesAre ==
  ASSUME Assumed, Spoken, read = Loaded, ~Refused, NEW s \in Settings
  PROVE  Resolved(s) \in Legal[s] \cup {Unset}
  <1>1. CASE s \notin {"stub", "sourcemap"}
    BY <1>1 DEF Refused
  <1>2. CASE s \in {"stub", "sourcemap"}
    <2>1. FlagDefault[s] = "off"
      BY <1>2 DEF FlagDefault
    <2>2. \A u \in Heard : u[2] = s => u[3] \in {"on", "off"}
      <3> SUFFICES ASSUME NEW u \in Heard, u[2] = s PROVE u[3] \in {"on", "off"}
        OBVIOUS
      <3>1. PICK v \in said : v[2] = s /\ v[3] = u[3]
        BY HeardIsSaid
      <3>2. Sayable(v)
        BY DEF Spoken
      <3>3. s \notin Switches
        BY <1>2 DEF Switches
      <3>4. QED
        BY <1>2, <3>1, <3>2, <3>3 DEF Sayable
    <2>3. Resolved(s) \in {"on", "off"}
      BY <2>1, <2>2, ResolvedFrom
    <2>4. Legal[s] = {"on", "off"}
      BY <1>2 DEF Legal
    <2>5. QED
      BY <2>3, <2>4
  <1>3. QED
    BY <1>1, <1>2

\* The values of a request's settings before its defaults.
LEMMA SettledAre ==
  ASSUME Assumed, Spoken, read = Loaded, ~Refused
  PROVE  /\ Base \in {"distroless", "chainguard", "distroless-node", "custom", "ref", Unset}
         /\ Strategy \in {"layered", "static", "exe", Unset}
         /\ Output \in {"push", "local", "tarball", "oci-layout", Unset}
         /\ cacheVerify \in {"none", "keyless", Unset}
         /\ Resolved("repo") \in {"r", Unset} /\ Resolved("tags") \in {"v1", Unset}
         /\ Resolved("platforms") \in {"all", "local", Unset}
         /\ Resolved("runtime") \in {"bun", "node", Unset}
         /\ Resolved("sbom") \in {"spdx", "none", Unset}
         /\ Resolved("stub") \in {"on", "off", Unset}
         /\ Resolved("sourcemap") \in {"on", "off", Unset}
         /\ Resolved("cve") \in {"high", "true", Unset}
         /\ Resolved("ready") \in {"off", "/ready", Unset}
         /\ Resolved("tracing") \in {"on", "off", Unset}
  <1>1. /\ Resolved("repo") \in {"r", Unset} /\ Resolved("tags") \in {"v1", Unset}
        /\ Resolved("platforms") \in {"all", "local", Unset}
        /\ Resolved("runtime") \in {"bun", "node", Unset}
        /\ Resolved("sbom") \in {"spdx", "none", Unset}
    BY ValuesAre, SettingsAre DEF Legal
  <1>2. /\ Resolved("stub") \in {"on", "off", Unset}
        /\ Resolved("sourcemap") \in {"on", "off", Unset}
        /\ Resolved("cve") \in {"high", "true", Unset}
        /\ Resolved("ready") \in {"off", "/ready", Unset}
        /\ Resolved("tracing") \in {"on", "off", Unset}
    BY ValuesAre, SettingsAre DEF Legal
  <1>3. Resolved("base") \in {"distroless", "chainguard", "distroless-node", "custom", "ref", Unset}
    BY ValuesAre, SettingsAre DEF Legal
  <1>4. Resolved("strategy") \in {"layered", "static", "exe", Unset}
    BY ValuesAre, SettingsAre DEF Legal
  <1>5. Resolved("output") \in {"push", "local", "tarball", "oci-layout", Unset}
    BY ValuesAre, SettingsAre DEF Legal
  <1>6. Resolved("verify") \in {"none", "keyless", Unset}
    BY ValuesAre, SettingsAre DEF Legal
  <1>7. QED
    BY <1>1, <1>2, <1>3, <1>4, <1>5, <1>6 DEF Base, Strategy, Output, cacheVerify

\* What is in force when a request is accepted is what the request says.
LEMMA AsksHonoured ==
  ASSUME Assumed, Spoken, read = Loaded, ~Refused,
         NEW route, request = Normal(Wish(route)), NEW t \in InForce
  PROVE  Honours(t)
  <1>1. t[2] \in Settings /\ ValueOf(t[2]) = t[3]
    BY InForceIsValue
  <1>2. t[3] # Unset
    <2>1. CASE t \in Shorthands
      BY <2>1, ShortIs, UnsetIs
    <2>2. CASE t \notin Shorthands
      BY <2>2, ForceIs
    <2>3. QED
      BY <2>1, <2>2
  <1>3. CASE t[2] = "base"
    <2>1. Base = t[3]
      BY <1>1, <1>3 DEF ValueOf
    <2>2. CASE t[3] = "ref"
      <3>1. request.base = "custom" /\ request.ref = "ref"
        BY <2>1, <2>2, UnsetIs, FieldsAre
      <3>2. QED
        BY <1>3, <2>2, <3>1 DEF Honours
    <2>3. CASE t[3] # "ref"
      <3>1. request.base = t[3]
        BY <1>2, <2>1, <2>3, UnsetIs, FieldsAre
      <3>2. QED
        BY <1>3, <2>3, <3>1 DEF Honours
    <2>4. QED
      BY <2>2, <2>3
  <1>4. CASE t[2] # "base"
    <2>1. t[3] # "ref"
      BY <1>1, <1>2, <1>4, SettingsAre, SettledAre DEF ValueOf
    <2>2. CASE t[2] = "cve"
      <3>1. Resolved("cve") = t[3]
        BY <1>1, <2>2 DEF ValueOf
      <3>2. request.cve = IF t[3] = "true" THEN "critical" ELSE t[3]
        BY <3>1, UnsetIs, FieldsAre DEF failOnCVE
      <3>3. QED
        BY <2>1, <2>2, <3>2 DEF Honours
    <2>3. CASE t[2] = "ready"
      <3>1. Resolved("ready") = t[3]
        BY <1>1, <2>3 DEF ValueOf
      <3>2. request.ready = IF Strategy = "static" \/ t[3] = "off" THEN "none" ELSE t[3]
        BY <1>2, <3>1, UnsetIs, FieldsAre DEF resolveReadyPath
      <3>3. request.strategy = Strategy
        BY UnsetIs, FieldsAre
      <3>4. QED
        BY <2>1, <2>3, <3>2, <3>3 DEF Honours
    <2>4. CASE t[2] = "tracing"
      <3>1. Resolved("tracing") = t[3]
        BY <1>1, <2>4 DEF ValueOf
      <3>2. request.telemetry = telemetryEnabled
        BY UnsetIs, FieldsAre
      <3>3. (t[3] = "on" /\ ~On("no-telemetry")) => request.telemetry
        BY <3>1, <3>2 DEF telemetryEnabled
      <3>4. QED
        BY <2>1, <2>4, <3>3 DEF Honours
    <2>5. CASE t[2] \notin {"cve", "ready", "tracing"}
      <3>1. request[t[2]] = t[3]
        <4>1. CASE t[2] \in {"strategy", "output", "runtime", "sbom", "stub", "sourcemap"}
          BY <1>1, <4>1, UnsetIs, FieldsAre DEF ValueOf
        <4>2. CASE t[2] \in {"repo", "tags", "platforms"}
          BY <1>1, <1>2, <4>2, UnsetIs, FieldsAre DEF ValueOf
        <4>3. CASE t[2] = "verify"
          BY <1>1, <1>2, <4>3, UnsetIs, FieldsAre DEF ValueOf
        <4>4. QED
          BY <1>1, <1>4, <2>5, <4>1, <4>2, <4>3, SettingsAre
      <3>2. QED
        BY <2>1, <2>5, <3>1 DEF Honours
    <2>6. QED
      BY <2>2, <2>3, <2>4, <2>5
  <1>5. QED
    BY <1>3, <1>4

\* A normalized request has a legal value, a default or none in every setting.
LEMMA RequestTyped ==
  ASSUME Assumed, Spoken, read = Loaded, ~Refused,
         NEW route \in ReadyRoutes, request = Normal(Wish(route)), NEW s \in Settings
  PROVE  request[s] \in Legal[s] \cup Defaults \cup {Unset}
  <1>1. CASE s \in {"runtime", "sbom", "stub", "sourcemap", "tracing"}
    <2>1. request[s] = Resolved(s)
      BY <1>1, UnsetIs, FieldsAre
    <2>2. QED
      BY <2>1, ValuesAre
  <1>2. CASE s \in {"repo", "tags", "platforms"}
    <2>1. request[s] = Resolved(s) \/ request[s] \in {"pokkum.local", "latest"} \/ (s = "platforms" /\ request[s] = "all")
      BY <1>2, UnsetIs, FieldsAre
    <2>2. "all" \in Legal["platforms"] /\ {"pokkum.local", "latest"} \subseteq Defaults
      BY DEF Legal, Defaults
    <2>3. QED
      BY <2>1, <2>2, ValuesAre
  <1>3. CASE s = "verify"
    <2>1. request.verify \in {"none", "keyless", Unset, "auto"}
      BY UnsetIs, FieldsAre, SettledAre
    <2>2. QED
      BY <1>3, <2>1 DEF Legal, Defaults
  <1>4. CASE s = "output"
    <2>1. request.output \in {"push", "local", "tarball", "oci-layout", Unset}
      BY UnsetIs, FieldsAre, SettledAre
    <2>2. QED
      BY <1>4, <2>1 DEF Legal
  <1>5. CASE s = "strategy"
    <2>1. request.strategy \in {"layered", "static", "exe", Unset}
      BY UnsetIs, FieldsAre, SettledAre
    <2>2. QED
      BY <1>5, <2>1 DEF Legal
  <1>6. CASE s = "base"
    <2>1. request.base \in {"distroless", "chainguard", "distroless-node", "custom", "ref"}
      <3>1. CASE Base \notin {"ref", Unset}
        <4>1. request.base = Base
          BY <3>1, UnsetIs, FieldsAre
        <4>2. QED
          BY <3>1, <4>1, SettledAre
      <3>2. CASE Base = "ref"
        BY <3>2, UnsetIs, FieldsAre
      <3>3. CASE Base = Unset
        BY <3>3, UnsetIs, FieldsAre
      <3>4. QED
        BY <3>1, <3>2, <3>3
    <2>2. QED
      BY <1>6, <2>1 DEF Legal
  <1>7. CASE s = "cve"
    <2>1. request.cve \in {"high", "true", "critical", Unset}
      BY UnsetIs, FieldsAre, SettledAre DEF failOnCVE
    <2>2. QED
      BY <1>7, <2>1 DEF Legal, Defaults
  <1>8. CASE s = "ready"
    <2>1. request.ready \in {"none", "off", "/ready", Unset, "/route"}
      BY UnsetIs, FieldsAre, SettledAre DEF resolveReadyPath, ReadyRoutes
    <2>2. QED
      BY <1>8, <2>1 DEF Legal, Defaults
  <1>9. QED
    BY <1>1, <1>2, <1>3, <1>4, <1>5, <1>6, <1>7, <1>8, SettingsAre

\* Giving a request its defaults twice gives them once.
LEMMA NormalIsNormal ==
  ASSUME Assumed, Spoken, read = Loaded, ~Refused,
         NEW route, request = Normal(Wish(route))
  PROVE  Normal(request) = request
  <1> DEFINE w == Wish(route)
             Names == {"base", "ref", "strategy", "output", "path", "ready", "cve", "verify", "verifySignature",
                       "telemetry", "sign", "require", "key", "repo", "tags", "platforms", "runtime", "sbom",
                       "stub", "sourcemap", "tracing"}
             Again(field) == Normal(request)[field] = request[field]
  <1>1. DOMAIN w = Names /\ w = [x \in Names |-> w[x]]
    BY DEF Wish
  <1> HIDE DEF Names
  <1>2. ASSUME NEW r, DOMAIN r = Names, r = [x \in Names |-> r[x]]
        PROVE  /\ DOMAIN Normal(r) = Names
               /\ Normal(r) = [x \in Names |-> Normal(r)[x]]
    <2>1. DOMAIN Normal(r) = Names
      BY <1>2 DEF Normal
    <2>2. Normal(r) = [x \in DOMAIN r |-> Normal(r)[x]]
      BY <1>2, ZenonT(40) DEF Normal
    <2>3. QED
      BY <1>2, <2>1, <2>2
  <1>3. DOMAIN request = Names /\ request = [x \in Names |-> request[x]]
    BY <1>1, <1>2
  <1>4. DOMAIN Normal(request) = Names
        /\ Normal(request) = [x \in Names |-> Normal(request)[x]]
    BY <1>2, <1>3
  <1>5. /\ Again("strategy") /\ Again("output") /\ Again("path") /\ Again("ready") /\ Again("cve")
        /\ Again("telemetry") /\ Again("sign") /\ Again("require") /\ Again("key")
        /\ Again("runtime") /\ Again("sbom") /\ Again("stub") /\ Again("sourcemap") /\ Again("tracing")
    BY <1>3 DEF Normal, Names
  <1>6. request.base # Unset /\ (request.ref # Unset \/ request.base = "custom")
    <2>1. CASE Base \notin {"ref", Unset}
      BY <2>1, UnsetIs, FieldsAre, SettledAre DEF DefaultRef
    <2>2. CASE Base = "ref"
      BY <2>2, UnsetIs, FieldsAre
    <2>3. CASE Base = Unset
      BY <2>3, UnsetIs, FieldsAre DEF DefaultRef
    <2>4. QED
      BY <2>1, <2>2, <2>3
  <1>7. Again("base") /\ Again("ref")
    BY <1>3, <1>6, UnsetIs DEF Normal, DefaultRef, Names
  <1>8. Again("tags") /\ Again("platforms") /\ Again("repo") /\ Again("verify")
    <2>1. /\ request.tags # Unset /\ request.platforms # Unset /\ request.verify # Unset
          /\ request.repo # Unset \/ request.output = "push"
      BY UnsetIs, FieldsAre
    <2>2. QED
      BY <1>3, <2>1 DEF Normal, Names
  <1>9. Again("verifySignature")
    <2>1. request.verifySignature = (w.verifySignature \/ (IF w.verify = Unset THEN "auto" ELSE w.verify) # "none")
          /\ request.verify = (IF w.verify = Unset THEN "auto" ELSE w.verify)
      BY <1>1 DEF Normal, Names
    <2>2. request.verify # Unset
      BY UnsetIs, FieldsAre
    <2>3. Normal(request).verifySignature = (request.verifySignature \/ request.verify # "none")
      BY <1>3, <2>2 DEF Normal, Names
    <2>4. QED
      BY <2>1, <2>3
  <1>10. \A x \in Names : Normal(request)[x] = request[x]
    BY <1>5, <1>7, <1>8, <1>9 DEF Names
  <1>11. QED
    BY <1>3, <1>4, <1>10

\* A request that is valid has a base that starts what the strategy builds.
LEMMA ImagesStart ==
  ASSUME Assumed, Spoken, read = Loaded, ~Refused,
         NEW route, request = Normal(Wish(route)), Valid(request)
  PROVE  /\ request.strategy = "layered" /\ request.runtime = "node" =>
              request.ref \in {"distroless-node", "ref"}
         /\ request.strategy # "static" => request.ref # "StaticBaseRef"
         /\ request.ref \in {request.base, "ref", "StaticBaseRef"}
         /\ request.ref = "ref" => request.base = "custom"
         /\ request.ref = "StaticBaseRef" => request.base = "chainguard"
         /\ Normal(request) = request
  <1>1. request.ref # Unset /\ (request.runtime = "node" => request.base \in {"distroless-node", "custom"})
    BY DEF Valid, validateRuntime
  <1>2. request.strategy = Strategy
    BY UnsetIs, FieldsAre
  <1>3. CASE Base \notin {"ref", Unset}
    <2>1. request.base = Base /\ request.ref = DefaultRef(Base)
      BY <1>3, UnsetIs, FieldsAre
    <2>2. request.ref = request.base /\ request.base \in {"distroless", "chainguard", "distroless-node"}
      BY <1>1, <1>3, <2>1, SettledAre DEF DefaultRef
    <2>3. QED
      BY <1>1, <2>2, NormalIsNormal
  <1>4. CASE Base = "ref"
    <2>1. request.base = "custom" /\ request.ref = "ref"
      BY <1>4, UnsetIs, FieldsAre
    <2>2. QED
      BY <2>1, NormalIsNormal
  <1>5. CASE Base = Unset /\ Strategy = "static"
    <2>1. request.base = "chainguard" /\ request.ref = "StaticBaseRef"
      BY <1>5, UnsetIs, FieldsAre
    <2>2. request.runtime # "node"
      BY <1>1, <2>1
    <2>3. QED
      BY <1>2, <1>5, <2>1, <2>2, NormalIsNormal
  <1>6. CASE Base = Unset /\ Strategy # "static"
    <2>1. request.base \in {"distroless-node", "distroless"} /\ request.ref = DefaultRef(request.base)
      BY <1>6, UnsetIs, FieldsAre
    <2>2. request.ref = request.base
      BY <2>1 DEF DefaultRef
    <2>3. QED
      BY <1>1, <2>1, <2>2, NormalIsNormal
  <1>7. QED
    BY <1>3, <1>4, <1>5, <1>6

\* What a setting resolves to where all that is said of it agrees, or nothing is.
LEMMA ResolvedTo ==
  ASSUME Spoken, read = Loaded, NEW s \in Settings
  PROVE  /\ (\A v \in said : v[2] # s) => Resolved(s) = FlagDefault[s]
         /\ \A x : (/\ \A v \in said : v[2] = s => v[3] = x
                    /\ \E i \in DOMAIN Chain[s], u \in Heard : u[1] = Chain[s][i] /\ u[2] = s)
                     => Resolved(s) = x
         /\ \A x : (\A v \in said : v[2] = s => v[3] = x) =>
              Resolved(s) = FlagDefault[s] \/ Resolved(s) = x
  <1>1. \A u \in Heard : \E v \in said : v[2] = u[2] /\ v[3] = u[3]
    BY HeardIsSaid
  <1>2. (\A v \in said : v[2] # s) => Resolved(s) = FlagDefault[s]
    BY <1>1, ResolvedFrom
  <1>3. ASSUME NEW x, \A v \in said : v[2] = s => v[3] = x,
               \E i \in DOMAIN Chain[s], u \in Heard : u[1] = Chain[s][i] /\ u[2] = s
        PROVE  Resolved(s) = x
    <2>1. \E i \in DOMAIN Chain[s] : From(Heard, Chain[s][i], s) # {}
      BY <1>3 DEF From
    <2>2. PICK t \in Heard : t[2] = s /\ Resolved(s) = t[3]
      BY <2>1, ResolvedFrom
    <2>3. QED
      BY <1>1, <1>3, <2>2
  <1>4. ASSUME NEW x, \A v \in said : v[2] = s => v[3] = x
        PROVE  Resolved(s) = FlagDefault[s] \/ Resolved(s) = x
    BY <1>1, <1>4, ResolvedFrom
  <1>5. QED
    BY <1>2, <1>3, <1>4

\* A request whose settings are all legal, and of whose switches --local at most
\* is on, is made.
LEMMA LegalIsMade ==
  ASSUME Assumed, Spoken, read = Loaded,
         \A v \in said : v[2] \in Settings => v[3] \in Legal[v[2]],
         \A flag \in Switches \ {"local"} : ~On(flag),
         \A v \in said : v[1] = "flag" => v[2] \notin Settings
  PROVE  ~Refused
  <1>1. ASSUME NEW s \in Settings PROVE Resolved(s) \in Legal[s] \cup {Unset}
    <2>1. FlagDefault[s] \in Legal[s] \cup {Unset}
      BY SettingsAre DEF FlagDefault, Legal
    <2>2. QED
      BY <2>1, HeardIsSaid, ResolvedFrom
  <1>2. ~(Cardinality({o \in {"local", "tarball", "oci-layout"} : On(o)}) > 1)
    <2> DEFINE on == {o \in {"local", "tarball", "oci-layout"} : On(o)}
    <2>1. on \subseteq {"local"}
      BY DEF Switches
    <2>2. IsFiniteSet({"local"}) /\ Cardinality({"local"}) = 1
      BY FS_Singleton
    <2>3. Cardinality(on) <= 1 /\ IsFiniteSet(on)
      BY <2>1, <2>2, FS_Subset
    <2>4. Cardinality(on) \in Nat
      BY <2>3, FS_CardinalityType
    <2>5. QED
      BY <2>3, <2>4
  <1>3. ~On("static")
    BY DEF Switches
  <1>4. From(said, "flag", "stub") = {}
    BY SettingsAre DEF From
  <1>5. QED
    BY <1>1, <1>2, <1>3, <1>4 DEF Refused

\* With at most --local among the switches the settings are what is resolved.
LEMMA PlainSettings ==
  ASSUME \A flag \in Switches \ {"local"} : ~On(flag)
  PROVE  /\ Base = Resolved("base") /\ Strategy = Resolved("strategy")
         /\ Output = (IF On("local") THEN "local" ELSE Resolved("output"))
         /\ telemetryEnabled <=> Resolved("tracing") = "on"
         /\ ~On("require-signed")
  <1>1. /\ ~On("hardened") /\ ~On("static") /\ ~On("tarball") /\ ~On("oci-layout")
        /\ ~On("telemetry") /\ ~On("no-telemetry") /\ ~On("require-signed")
    BY DEF Switches
  <1>2. QED
    BY <1>1 DEF Base, Strategy, Output, telemetryEnabled

\* The flags' defaults that matter when nothing is said.
LEMMA DefaultsAre ==
  /\ FlagDefault["strategy"] = "layered" /\ FlagDefault["runtime"] = "bun"
  /\ FlagDefault["output"] = "push" /\ FlagDefault["stub"] = "off"
  /\ FlagDefault["tracing"] = Unset /\ FlagDefault["base"] = Unset
  /\ FlagDefault["repo"] = Unset
  BY SettingsAre DEF FlagDefault

\* What `config validate` takes is a value the build takes.
LEMMA LegalFiles ==
  ASSUME NEW s \in Settings, NEW x \in FileLegal[s]
  PROVE  x \in Legal[s]
  BY SettingsAre DEF FileLegal, Legal

\* What the environment and --local say beside the file is legal.
LEMMA BesideTheFile ==
  ASSUME Spoken, ConfigValid(FileSettings),
         said \ FileSettings \subseteq {<<"env", "repo", "r">>, <<"flag", "local", "on">>}
  PROVE  /\ \A v \in said : v[2] \in Settings => v[3] \in Legal[v[2]]
         /\ \A flag \in Switches \ {"local"} : ~On(flag)
         /\ \A v \in said : v[1] = "flag" => v[2] \notin Settings
  <1>1. "r" \in Legal["repo"] /\ "local" \notin Settings
    BY SettingsAre DEF Legal
  <1>2. ASSUME NEW v \in said, v[2] \in Settings PROVE v[3] \in Legal[v[2]]
    <2>1. CASE v \in FileSettings
      <3>1. v[1] \in {"config", "profile"}
        BY <2>1 DEF FileSettings
      <3>2. v[3] \in FileLegal[v[2]]
        BY <2>1, <3>1 DEF ConfigValid
      <3>3. QED
        BY <1>2, <3>2, LegalFiles
    <2>2. CASE v \notin FileSettings
      <3>1. v = <<"env", "repo", "r">> \/ v = <<"flag", "local", "on">>
        BY <2>2
      <3>2. QED
        BY <1>1, <1>2, <3>1
    <2>3. QED
      BY <2>1, <2>2
  <1>3. \A v \in said : v[1] = "flag" => v = <<"flag", "local", "on">>
    BY DEF FileSettings
  <1>4. ASSUME NEW flag \in Switches \ {"local"} PROVE ~On(flag)
    <2>1. <<"flag", flag, "on">> # <<"flag", "local", "on">>
      BY <1>4
    <2>2. <<"flag", flag, "on">> \notin said
      BY <1>3, <2>1
    <2>3. QED
      BY <2>2 DEF On
  <1>5. QED
    BY <1>1, <1>2, <1>3, <1>4

\* A file of one valid setting makes a valid request.
LEMMA OneSettingBuilds ==
  ASSUME Assumed, Spoken, read = Loaded, NEW t \in said, FileSettings = {t},
         said \ FileSettings = {<<"env", "repo", "r">>}, ConfigValid(FileSettings),
         t[3] \notin {"custom", "tarball", "oci-layout"}, NEW route
  PROVE  ~Refused /\ Valid(Normal(Wish(route)))
  <1> DEFINE r == Normal(Wish(route))
             env == <<"env", "repo", "r">>
  <1>1. /\ \A v \in said : v[2] \in Settings => v[3] \in Legal[v[2]]
        /\ \A flag \in Switches \ {"local"} : ~On(flag)
        /\ \A v \in said : v[1] = "flag" => v[2] \notin Settings
    BY BesideTheFile
  <1>2. ~Refused
    BY <1>1, LegalIsMade
  <1>3. said = {t, env} /\ t[1] \in {"config", "profile"}
    <2>1. t[1] \in {"config", "profile"}
      BY DEF FileSettings
    <2>2. QED
      BY <2>1
  <1>4. ~On("local")
    BY <1>3 DEF On
  <1>5. /\ Base = Resolved("base") /\ Strategy = Resolved("strategy")
        /\ Output = Resolved("output")
        /\ telemetryEnabled <=> Resolved("tracing") = "on"
        /\ ~On("require-signed")
    BY <1>1, <1>4, PlainSettings
  <1>6. ASSUME NEW s \in Settings, s # "repo"
        PROVE  Resolved(s) = FlagDefault[s] \/ (t[2] = s /\ Resolved(s) = t[3])
    <2>1. \A v \in said : v[2] = s => v = t
      BY <1>3, <1>6
    <2>2. CASE t[2] = s
      BY <2>1, <2>2, ResolvedTo
    <2>3. CASE t[2] # s
      BY <2>1, <2>3, ResolvedTo
    <2>4. QED
      BY <2>2, <2>3
  <1>7. Resolved("repo") = "r"
    <2>1. "repo" \in Settings /\ Legal["repo"] = {"r"}
      BY SettingsAre DEF Legal
    <2>2. env \in Heard /\ env[1] = "env" /\ env[2] = "repo"
      BY <1>3 DEF Heard
    <2>3. Chain["repo"][1] = "env" /\ 1 \in DOMAIN Chain["repo"]
      BY DEF Chain
    <2>4. \A v \in said : v[2] = "repo" => v[3] = "r"
      BY <1>1, <2>1
    <2>5. QED
      BY <2>1, <2>2, <2>3, <2>4, ResolvedTo
  <1>8. /\ Resolved("output") = "push" \/ (t[2] = "output" /\ Resolved("output") = t[3])
        /\ Resolved("base") = Unset \/ (t[2] = "base" /\ Resolved("base") = t[3])
        /\ Resolved("strategy") = "layered" \/ (t[2] = "strategy" /\ Resolved("strategy") = t[3])
        /\ Resolved("runtime") = "bun" \/ (t[2] = "runtime" /\ Resolved("runtime") = t[3])
        /\ Resolved("stub") = "off" \/ (t[2] = "stub" /\ Resolved("stub") = t[3])
        /\ Resolved("tracing") = Unset \/ (t[2] = "tracing" /\ Resolved("tracing") = t[3])
    BY <1>6, SettingsAre, DefaultsAre
  <1>9. /\ r.strategy = Strategy /\ r.output = Output /\ r.telemetry = telemetryEnabled
        /\ r.runtime = Resolved("runtime") /\ r.stub = Resolved("stub")
        /\ r.repo = "r" /\ r.require = On("require-signed")
    BY <1>7, UnsetIs, FieldsAre
  <1>10. r.ref # Unset /\ ((Base = Unset /\ Strategy # "static" /\ r.runtime = "node") => r.base = "distroless-node")
    <2>1. CASE Base \notin {"ref", Unset}
      <3>1. r.ref = DefaultRef(Base) /\ Base # "custom"
        BY <1>5, <1>8, <2>1, UnsetIs, FieldsAre
      <3>2. QED
        BY <2>1, <3>1 DEF DefaultRef
    <2>2. CASE Base = "ref"
      BY <2>2, UnsetIs, FieldsAre
    <2>3. CASE Base = Unset /\ Strategy = "static"
      BY <2>3, UnsetIs, FieldsAre
    <2>4. CASE Base = Unset /\ Strategy # "static"
      <3> DEFINE base == IF Resolved("runtime") = "node" THEN "distroless-node" ELSE "distroless"
      <3>1. r.base = base /\ r.ref = DefaultRef(base)
        BY <2>4, UnsetIs, FieldsAre
      <3>2. QED
        BY <1>9, <3>1, UnsetIs DEF DefaultRef
    <2>5. QED
      BY <2>1, <2>2, <2>3, <2>4
  <1> HIDE DEF r
  <1>11. r.runtime = "node" => r.strategy = "layered" /\ r.stub = "off" /\ ~r.telemetry /\ r.base = "distroless-node"
    <2> SUFFICES ASSUME r.runtime = "node"
                 PROVE  r.strategy = "layered" /\ r.stub = "off" /\ ~r.telemetry /\ r.base = "distroless-node"
      OBVIOUS
    <2>1. t[2] = "runtime"
      BY <1>8, <1>9
    <2>2. /\ Strategy = "layered" /\ Base = Unset /\ r.stub = "off"
          /\ Resolved("tracing") = Unset
      BY <1>5, <1>8, <1>9, <2>1
    <2>3. ~r.telemetry
      BY <1>5, <1>9, <2>2, UnsetIs
    <2>4. QED
      BY <1>9, <1>10, <2>2, <2>3
  <1>12. r.stub = "on" => r.strategy = "layered"
    BY <1>5, <1>8, <1>9
  <1>13. r.output \notin {"tarball", "oci-layout"}
    BY <1>5, <1>8, <1>9
  <1>14. ~r.require
    BY <1>5, <1>9
  <1>15. Valid(r)
    BY <1>9, <1>10, <1>11, <1>12, <1>13, <1>14, UnsetIs DEF Valid, validateRuntime
  <1>16. QED
    BY <1>2, <1>15 DEF r

\* What init writes: one value for each setting, of which a profile has four.
LEMMA GeneratedAre ==
  ASSUME Assumed, NEW a \in Answers
  PROVE  LET written == GenerateDefault(a)
             node == a.runtime = "node" /\ a.strategy = "layered"
             base == IF node THEN "distroless-node" ELSE a.base
         IN /\ {<<"config", "strategy", a.strategy>>, <<"config", "base", base>>,
                <<"config", "platforms", "all">>, <<"config", "sbom", "spdx">>} \subseteq written
            /\ \A t \in written :
                 \/ t \in {<<"config", "strategy", a.strategy>>, <<"config", "base", base>>,
                           <<"config", "platforms", "all">>, <<"config", "sbom", "spdx">>}
                 \/ t = <<"config", "runtime", a.runtime>> /\ a.runtime # Unset /\ (a.runtime = "node" => node)
                 \/ t = <<"config", "cve", a.cve>> /\ a.cve # Unset
                 \/ t \in {<<"profile", "output", "local">>, <<"profile", "platforms", "local">>,
                           <<"profile", "sourcemap", "on">>, <<"profile", "sbom", "none">>} /\ a.local
            /\ a.local => <<"profile", "output", "local">> \in written
  <1> DEFINE node == a.runtime = "node" /\ a.strategy = "layered"
             base == IF node /\ a.base \notin {"distroless-node", "custom"} THEN "distroless-node" ELSE a.base
             always == {<<"config", "strategy", a.strategy>>, <<"config", "base", base>>,
                        <<"config", "platforms", "all">>, <<"config", "sbom", "spdx">>}
             one == IF a.runtime = Unset \/ (a.runtime = "node" /\ ~node) THEN {}
                    ELSE {<<"config", "runtime", a.runtime>>}
             two == IF a.cve = Unset THEN {} ELSE {<<"config", "cve", a.cve>>}
             four == IF ~a.local THEN {}
                     ELSE {<<"profile", "output", "local">>, <<"profile", "platforms", "local">>,
                           <<"profile", "sourcemap", "on">>, <<"profile", "sbom", "none">>}
  <1>1. GenerateDefault(a) = always \cup one \cup two \cup four
    BY Zenon DEF GenerateDefault
  <1>2. base = IF node THEN "distroless-node" ELSE a.base
    BY DEF Assumed
  <1>3. a.local \in BOOLEAN
    BY DEF Assumed
  <1>4. \A t \in one : t = <<"config", "runtime", a.runtime>> /\ a.runtime # Unset /\ (a.runtime = "node" => node)
    OBVIOUS
  <1>5. \A t \in two : t = <<"config", "cve", a.cve>> /\ a.cve # Unset
    OBVIOUS
  <1>6. /\ \A t \in four : t \in {<<"profile", "output", "local">>, <<"profile", "platforms", "local">>,
                                  <<"profile", "sourcemap", "on">>, <<"profile", "sbom", "none">>} /\ a.local
        /\ a.local => <<"profile", "output", "local">> \in four
    BY <1>3
  <1> HIDE DEF one, two, four, base
  <1>7. QED
    BY <1>1, <1>2, <1>4, <1>5, <1>6

\* What init writes can be said in a file, once for each setting; it has a
\* profile if a local one was asked for.
LEMMA GeneratedIsSpoken ==
  ASSUME Assumed, NEW a \in Answers
  PROVE  /\ OneEach(GenerateDefault(a))
         /\ \A t \in GenerateDefault(a) : Sayable(t) /\ t[1] \in {"config", "profile"}
         /\ (\E t \in GenerateDefault(a) : t[1] = "profile") <=> a.local
         /\ \E t \in GenerateDefault(a) : t[1] = "config"
  <1> DEFINE written == GenerateDefault(a)
             node == a.runtime = "node" /\ a.strategy = "layered"
             base == IF node THEN "distroless-node" ELSE a.base
             config == {<<"config", "strategy", a.strategy>>, <<"config", "base", base>>,
                        <<"config", "platforms", "all">>, <<"config", "sbom", "spdx">>}
             profile == {<<"profile", "output", "local">>, <<"profile", "platforms", "local">>,
                         <<"profile", "sourcemap", "on">>, <<"profile", "sbom", "none">>}
  <1>1. /\ config \subseteq written
        /\ \A t \in written :
             \/ t \in config
             \/ t = <<"config", "runtime", a.runtime>> /\ a.runtime # Unset
             \/ t = <<"config", "cve", a.cve>> /\ a.cve # Unset
             \/ t \in profile /\ a.local
        /\ a.local => <<"profile", "output", "local">> \in written
    BY GeneratedAre
  <1>2. /\ a.strategy # Unset /\ base # Unset
    BY UnsetIs DEF Assumed
  <1> HIDE DEF written, base
  <1>3. \A t \in written : t[1] \in {"config", "profile"}
    BY <1>1
  <1>4. OneEach(written)
    <2>1. \A t, u \in written : (t[1] = u[1] /\ t[2] = u[2]) => t = u
      BY <1>1
    <2>2. QED
      BY <2>1 DEF OneEach
  <1>5. /\ \A s \in {"strategy", "base", "platforms", "sbom", "runtime", "cve"} :
             \E i \in DOMAIN Chain[s] : Chain[s][i] = "config"
        /\ \A s \in {"output", "sourcemap"} : \E i \in DOMAIN Chain[s] : Chain[s][i] = "profile"
    <2>1. /\ Chain["strategy"][2] = "config" /\ 2 \in DOMAIN Chain["strategy"]
          /\ Chain["base"][2] = "config" /\ 2 \in DOMAIN Chain["base"]
          /\ Chain["platforms"][2] = "config" /\ 2 \in DOMAIN Chain["platforms"]
          /\ Chain["sbom"][2] = "config" /\ 2 \in DOMAIN Chain["sbom"]
          /\ Chain["runtime"][2] = "config" /\ 2 \in DOMAIN Chain["runtime"]
          /\ Chain["cve"][3] = "config" /\ 3 \in DOMAIN Chain["cve"]
      BY DEF Chain
    <2>2. QED
      BY <2>1, ProfileIs
  <1>6. ASSUME NEW t \in written PROVE Sayable(t)
    <2>1. ASSUME NEW from, NEW s, NEW x, t = <<from, s, x>>, s \in Settings, x # Unset,
                 s \notin {"stub", "sourcemap"} \/ x = "on",
                 \E i \in DOMAIN Chain[s] :
                   from = Chain[s][i] \/ (from = "profile" /\ Chain[s][i] = "config")
          PROVE  Sayable(t)
      <3>1. t[1] = from /\ t[2] = s /\ t[3] = x
        BY <2>1
      <3>2. QED
        BY <2>1, <3>1 DEF Sayable
    <2>2. CASE t \in config
      BY <1>2, <1>5, <2>1, <2>2, SettingsAre, UnsetIs
    <2>3. CASE t = <<"config", "runtime", a.runtime>> /\ a.runtime # Unset
      BY <1>5, <2>1, <2>3, SettingsAre
    <2>4. CASE t = <<"config", "cve", a.cve>> /\ a.cve # Unset
      BY <1>5, <2>1, <2>4, SettingsAre
    <2>5. CASE t \in profile
      BY <1>5, <2>1, <2>5, SettingsAre, UnsetIs
    <2>6. QED
      BY <1>1, <2>2, <2>3, <2>4, <2>5
  <1>7. (\E t \in written : t[1] = "profile") <=> a.local
    BY <1>1
  <1>8. \E t \in written : t[1] = "config"
    BY <1>1
  <1>9. QED
    BY <1>3, <1>4, <1>6, <1>7, <1>8 DEF written

\* The file init writes makes a valid request with the command it suggests.
LEMMA PlacesAre ==
  /\ Chain["base"][2] = "config" /\ 2 \in DOMAIN Chain["base"]
  /\ Chain["strategy"][2] = "config" /\ 2 \in DOMAIN Chain["strategy"]
  /\ Chain["repo"][1] = "env" /\ 1 \in DOMAIN Chain["repo"]
  <1>1. /\ Chain["base"] = <<"flag", "config">> /\ Chain["strategy"] = <<"flag", "config">>
        /\ Chain["repo"] = <<"env", "config">>
    BY DEF Chain
  <1>2. QED
    BY <1>1

\* What is said when init has written the file and its command is run.
SaidAfterInit(strategy, base, runtime, cve, t) ==
  \/ t \in {<<"config", "strategy", strategy>>, <<"config", "base", base>>,
            <<"config", "platforms", "all">>, <<"config", "sbom", "spdx">>}
  \/ t \in {<<"profile", "output", "local">>, <<"profile", "platforms", "local">>,
            <<"profile", "sourcemap", "on">>, <<"profile", "sbom", "none">>}
  \/ t = <<"config", "runtime", runtime>> /\ (runtime = "node" => strategy = "layered")
  \/ t = <<"config", "cve", cve>> \/ t \in {<<"env", "repo", "r">>, <<"flag", "local", "on">>}

\* What is said after init, setting by setting.
LEMMA WrittenSays ==
  ASSUME NEW strategy, NEW base, NEW runtime, NEW cve, NEW t,
         SaidAfterInit(strategy, base, runtime, cve, t)
  PROVE  /\ t[2] = "base" => t[3] = base /\ t[1] = "config"
         /\ t[2] = "strategy" => t[3] = strategy /\ t[1] = "config"
         /\ t[2] = "runtime" => t[3] = runtime /\ (runtime = "node" => strategy = "layered")
         /\ t[2] = "output" => t[3] = "local"
         /\ t[2] = "repo" => t = <<"env", "repo", "r">> /\ t[3] = "r"
         /\ t[2] # "stub" /\ t[2] # "tracing"
  <1>1. CASE t \in {<<"config", "strategy", strategy>>, <<"config", "base", base>>,
                   <<"config", "platforms", "all">>, <<"config", "sbom", "spdx">>}
    BY <1>1
  <1>2. CASE t \in {<<"profile", "output", "local">>, <<"profile", "platforms", "local">>,
                   <<"profile", "sourcemap", "on">>, <<"profile", "sbom", "none">>}
    BY <1>2
  <1>3. CASE t = <<"config", "runtime", runtime>> /\ (runtime = "node" => strategy = "layered")
    BY <1>3
  <1>4. CASE t = <<"config", "cve", cve>> \/ t \in {<<"env", "repo", "r">>, <<"flag", "local", "on">>}
    BY <1>4
  <1>5. QED
    BY <1>1, <1>2, <1>3, <1>4 DEF SaidAfterInit

\* What init wrote is neither refused nor invalid when the command it suggests
\* runs.
LEMMA WrittenBuilds ==
  ASSUME Assumed, Spoken, read = Loaded, NEW a \in Answers,
         ConfigValid(GenerateDefault(a)), FileSettings = GenerateDefault(a),
         file[1] = "ok",
         On("local") \/ \E t \in said : t[2] = "repo",
         said \ FileSettings \subseteq {<<"env", "repo", "r">>, <<"flag", "local", "on">>},
         NEW route
  PROVE  ~Refused /\ Valid(Normal(Wish(route)))
  <1> DEFINE r == Normal(Wish(route))
             written == GenerateDefault(a)
             node == a.runtime = "node" /\ a.strategy = "layered"
             base == IF node THEN "distroless-node" ELSE a.base
             config == {<<"config", "strategy", a.strategy>>, <<"config", "base", base>>,
                        <<"config", "platforms", "all">>, <<"config", "sbom", "spdx">>}
             profile == {<<"profile", "output", "local">>, <<"profile", "platforms", "local">>,
                         <<"profile", "sourcemap", "on">>, <<"profile", "sbom", "none">>}
  <1>1. /\ \A v \in said : v[2] \in Settings => v[3] \in Legal[v[2]]
        /\ \A flag \in Switches \ {"local"} : ~On(flag)
        /\ \A v \in said : v[1] = "flag" => v[2] \notin Settings
    BY BesideTheFile
  <1>2. ~Refused
    BY <1>1, LegalIsMade
  <1>3. /\ Base = Resolved("base") /\ Strategy = Resolved("strategy")
        /\ Output = (IF On("local") THEN "local" ELSE Resolved("output"))
        /\ telemetryEnabled <=> Resolved("tracing") = "on"
        /\ ~On("require-signed")
    BY <1>1, PlainSettings
  <1>4. /\ config \subseteq written
        /\ \A t \in written :
             \/ t \in config
             \/ t = <<"config", "runtime", a.runtime>> /\ (a.runtime = "node" => a.strategy = "layered")
             \/ t = <<"config", "cve", a.cve>>
             \/ t \in profile
    <2>1. \A t \in written :
             \/ t \in config
             \/ t = <<"config", "runtime", a.runtime>> /\ (a.runtime = "node" => node)
             \/ t = <<"config", "cve", a.cve>>
             \/ t \in profile
      BY GeneratedAre
    <2>2. config \subseteq written
      BY GeneratedAre
    <2>3. QED
      BY <2>1, <2>2
  <1>5. written \subseteq said
    BY DEF FileSettings
  <1>6. base \in {"distroless", "chainguard", "distroless-node"} /\ a.strategy \in {"layered", "static"}
    BY DEF Assumed
  <1> HIDE DEF written, base, node
  <1>7. \A t \in said : \/ t \in config
                        \/ t = <<"config", "runtime", a.runtime>> /\ (a.runtime = "node" => a.strategy = "layered")
                        \/ t = <<"config", "cve", a.cve>>
                        \/ t \in profile
                        \/ t \in {<<"env", "repo", "r">>, <<"flag", "local", "on">>}
    BY <1>4 DEF written, FileSettings
  <1>8. /\ \A t \in said : t[2] = "base" => t[3] = base /\ t[1] = "config"
        /\ \A t \in said : t[2] = "strategy" => t[3] = a.strategy /\ t[1] = "config"
        /\ \A t \in said : t[2] = "runtime" => t[3] = a.runtime /\ (a.runtime = "node" => a.strategy = "layered")
        /\ \A t \in said : t[2] = "output" => t[3] = "local"
        /\ \A t \in said : t[2] = "repo" => t = <<"env", "repo", "r">> /\ t[3] = "r"
        /\ \A t \in said : t[2] # "stub" /\ t[2] # "tracing"
    <2> SUFFICES ASSUME NEW t \in said
                 PROVE  /\ t[2] = "base" => t[3] = base /\ t[1] = "config"
                        /\ t[2] = "strategy" => t[3] = a.strategy /\ t[1] = "config"
                        /\ t[2] = "runtime" => t[3] = a.runtime /\ (a.runtime = "node" => a.strategy = "layered")
                        /\ t[2] = "output" => t[3] = "local"
                        /\ t[2] = "repo" => t = <<"env", "repo", "r">> /\ t[3] = "r"
                        /\ t[2] # "stub" /\ t[2] # "tracing"
      OBVIOUS
    <2>1. SaidAfterInit(a.strategy, base, a.runtime, a.cve, t)
      BY <1>7 DEF SaidAfterInit
    <2> HIDE DEF config, profile, r
    <2>2. t[2] = "base" => t[3] = base /\ t[1] = "config"
      BY <2>1, WrittenSays
    <2>3. t[2] = "strategy" => t[3] = a.strategy /\ t[1] = "config"
      BY <2>1, WrittenSays
    <2>4. t[2] = "runtime" => t[3] = a.runtime /\ (a.runtime = "node" => a.strategy = "layered")
      BY <2>1, WrittenSays
    <2>5. t[2] = "output" => t[3] = "local"
      BY <2>1, WrittenSays
    <2>6. t[2] = "repo" => t = <<"env", "repo", "r">> /\ t[3] = "r"
      BY <2>1, WrittenSays
    <2>7. t[2] # "stub" /\ t[2] # "tracing"
      BY <2>1, WrittenSays
    <2>8. QED
      BY <2>2, <2>3, <2>4, <2>5, <2>6, <2>7
  <1>9. /\ <<"config", "base", base>> \in said /\ <<"config", "strategy", a.strategy>> \in said
    BY <1>4, <1>5
  <1>10. file[1] = "ok"
    OBVIOUS
  <1>11. /\ <<"config", "base", base>> \in Heard /\ <<"config", "strategy", a.strategy>> \in Heard
    BY <1>8, <1>9, <1>10, FileIsHeard
  <1>12. /\ Chain["base"][2] = "config" /\ 2 \in DOMAIN Chain["base"]
         /\ Chain["strategy"][2] = "config" /\ 2 \in DOMAIN Chain["strategy"]
         /\ Chain["repo"][1] = "env" /\ 1 \in DOMAIN Chain["repo"]
    BY PlacesAre
  <1>13. Resolved("base") = base
    <2>1. "base" \in Settings
      BY SettingsAre
    <2>2. \E i \in DOMAIN Chain["base"], u \in Heard : u[1] = Chain["base"][i] /\ u[2] = "base"
      BY <1>11, <1>12
    <2>3. \A v \in said : v[2] = "base" => v[3] = base
      BY <1>8
    <2>4. QED
      BY <2>1, <2>2, <2>3, ResolvedTo
  <1>14. Resolved("strategy") = a.strategy
    <2>1. "strategy" \in Settings
      BY SettingsAre
    <2>2. \E i \in DOMAIN Chain["strategy"], u \in Heard :
            u[1] = Chain["strategy"][i] /\ u[2] = "strategy"
      BY <1>11, <1>12
    <2>3. \A v \in said : v[2] = "strategy" => v[3] = a.strategy
      BY <1>8
    <2>4. QED
      BY <2>1, <2>2, <2>3, ResolvedTo
  <1>15. Resolved("runtime") = "node" => node
    <2>1. "runtime" \in Settings /\ FlagDefault["runtime"] = "bun"
      BY SettingsAre, DefaultsAre
    <2>2. SUFFICES ASSUME Resolved("runtime") = "node" PROVE node
      OBVIOUS
    <2>3. PICK u \in Heard : u[2] = "runtime" /\ u[3] = "node"
      BY <2>1, <2>2, ResolvedFrom
    <2>4. PICK v \in said : v[2] = "runtime" /\ v[3] = "node"
      BY <2>3, HeardIsSaid
    <2>5. QED
      BY <1>8, <2>4 DEF node
  <1>16. /\ Resolved("output") \in {"push", "local"} /\ Resolved("stub") = "off"
         /\ Resolved("tracing") = Unset
    <2>1. {"output", "stub", "tracing"} \subseteq Settings
      BY SettingsAre
    <2>2. Resolved("output") = "push" \/ Resolved("output") = "local"
      <3>1. \A v \in said : v[2] = "output" => v[3] = "local"
        BY <1>8
      <3>2. Resolved("output") = FlagDefault["output"] \/ Resolved("output") = "local"
        BY <2>1, <3>1, ResolvedTo
      <3>3. QED
        BY <3>2, DefaultsAre
    <2>3. \A v \in said : v[2] # "stub"
      BY <1>8
    <2>4. Resolved("stub") = "off"
      BY <2>1, <2>3, DefaultsAre, ResolvedTo
    <2>5. \A v \in said : v[2] # "tracing"
      BY <1>8
    <2>6. Resolved("tracing") = Unset
      BY <2>1, <2>5, DefaultsAre, ResolvedTo
    <2>7. QED
      BY <2>2, <2>4, <2>6
  <1>17. Output # "push" \/ Resolved("repo") = "r"
    <2>1. CASE On("local")
      BY <1>3, <2>1
    <2>2. CASE ~On("local")
      <3>1. <<"env", "repo", "r">> \in said
        BY <1>8, <2>2
      <3>2. <<"env", "repo", "r">> \in Heard
        BY <3>1 DEF Heard
      <3>3. \E i \in DOMAIN Chain["repo"], u \in Heard : u[1] = Chain["repo"][i] /\ u[2] = "repo"
        BY <1>12, <3>2
      <3>4. \A v \in said : v[2] = "repo" => v[3] = "r"
        BY <1>8
      <3>5. "repo" \in Settings
        BY SettingsAre
      <3>6. QED
        BY <3>3, <3>4, <3>5, ResolvedTo
    <2>3. QED
      BY <2>1, <2>2
  <1>18. /\ r.strategy = a.strategy /\ r.output \in {"push", "local"} /\ ~r.telemetry
         /\ r.runtime = Resolved("runtime") /\ r.stub = "off" /\ ~r.require
    <2>1. /\ r.strategy = Strategy /\ r.output = Output /\ r.telemetry = telemetryEnabled
          /\ r.runtime = Resolved("runtime") /\ r.stub = Resolved("stub")
          /\ r.require = On("require-signed")
      BY UnsetIs, FieldsAre
    <2> HIDE DEF r
    <2>2. r.strategy = a.strategy /\ r.output \in {"push", "local"} /\ r.stub = "off"
      BY <1>3, <1>14, <1>16, <2>1
    <2>3. ~r.telemetry
      BY <1>3, <1>16, <2>1, UnsetIs
    <2>4. QED
      BY <1>3, <2>1, <2>2, <2>3
  <1>19. r.repo # Unset
    <2>1. r.repo = (IF Resolved("repo") = Unset /\ Output # "push" THEN "pokkum.local"
                    ELSE Resolved("repo"))
      BY UnsetIs, FieldsAre
    <2>2. QED
      BY <1>17, <2>1, UnsetIs
  <1>20. r.base = base /\ r.ref = base
    <2>1. Base = base
      BY <1>3, <1>13
    <2>2. r.base = base /\ r.ref = DefaultRef(base)
      BY <1>6, <2>1, UnsetIs, FieldsAre
    <2>3. QED
      BY <1>6, <2>2 DEF DefaultRef
  <1>21. node => base = "distroless-node" /\ a.strategy = "layered"
    BY DEF node, base
  <1> HIDE DEF r
  <1>22. validateRuntime(r)
    BY <1>15, <1>18, <1>20, <1>21 DEF validateRuntime
  <1>23. Valid(r)
    BY <1>6, <1>18, <1>19, <1>20, <1>22, UnsetIs DEF Valid
  <1>24. QED
    BY <1>2, <1>23 DEF r

\* A refusal has a reason, and neither a file of init nor a file with one valid
\* setting is one.
LEMMA FilesBuild ==
  ASSUME Assumed, IInv
  PROVE  ValidFilesBuild
  <1> SUFFICES ASSUME step = "refused"
               PROVE  /\ ~(/\ generated
                           /\ said \ FileSettings \subseteq
                                {<<"env", "repo", "r">>, <<"flag", "local", "on">>})
                      /\ ~(/\ ~generated /\ file[1] = "ok" /\ said \ FileSettings = {<<"env", "repo", "r">>}
                           /\ (\E t \in said : FileSettings = {t}) /\ ConfigValid(FileSettings)
                           /\ asked \in {"", file[2]}
                           /\ \A t \in FileSettings : t[3] \notin {"custom", "tarball", "oci-layout"})
    BY Zenon DEF ValidFilesBuild
  <1>1. \/ ~generated /\ file[1] = "none"
        \/ ~ProfileKnown
        \/ /\ read = Loaded
           /\ Refused \/ \E route \in ReadyRoutes : ~Valid(Normal(Wish(route)))
    BY DEF IInv, RefusedFor
  <1>2. Spoken /\ WrittenIs
    BY DEF IInv
  <1>3. ASSUME generated,
               said \ FileSettings \subseteq {<<"env", "repo", "r">>, <<"flag", "local", "on">>}
        PROVE  FALSE
    <2>1. asked = "" /\ (On("local") \/ \E t \in said : t[2] = "repo")
      BY <1>2, <1>3 DEF WrittenIs, FromInit
    <2>2. PICK a \in Answers :
            /\ ConfigValid(GenerateDefault(a)) /\ FileSettings = GenerateDefault(a)
            /\ file = <<"ok", IF a.local THEN "local" ELSE "">>
      BY <1>2, <1>3 DEF WrittenIs, FromInit
    <2>3. ProfileKnown
      <3>1. ActiveProfile # "" => file = <<"ok", "local">> /\ ActiveProfile = "local"
        BY <2>1 DEF ActiveProfile
      <3>2. file = <<"ok", "local">> => file[1] = "ok" /\ file[2] = "local"
        OBVIOUS
      <3>3. QED
        BY <3>1, <3>2 DEF ProfileKnown
    <2>6. file[1] = "ok"
      BY <2>2
    <2>4. read = Loaded =>
            ~Refused /\ \A route : Valid(Normal(Wish(route)))
      BY <1>2, <1>3, <2>1, <2>2, <2>6, WrittenBuilds
    <2>5. QED
      BY <1>1, <1>3, <2>3, <2>4
  <1>4. ASSUME ~generated, file[1] = "ok", said \ FileSettings = {<<"env", "repo", "r">>},
               NEW t \in said, FileSettings = {t}, ConfigValid(FileSettings),
               asked \in {"", file[2]}, t[3] \notin {"custom", "tarball", "oci-layout"}
        PROVE  FALSE
    <2>1. ProfileKnown
      <3>1. ~On("local")
        <4>1. <<"flag", "local", "on">> \notin FileSettings
          BY DEF FileSettings
        <4>2. <<"flag", "local", "on">> # <<"env", "repo", "r">>
          OBVIOUS
        <4>3. QED
          BY <1>4, <4>1, <4>2 DEF On
      <3>2. QED
        BY <1>4, <3>1 DEF ProfileKnown, ActiveProfile
    <2>2. read = Loaded =>
            ~Refused /\ \A route : Valid(Normal(Wish(route)))
      BY <1>2, <1>4, OneSettingBuilds
    <2>3. QED
      BY <1>1, <1>4, <2>1, <2>2
  <1>5. QED
    BY <1>3, <1>4

\* What depends on what is said, and not on how far the command is.
LEMMA SaidStays ==
  ASSUME said' = said, file' = file, asked' = asked
  PROVE  /\ ProfileKnown' <=> ProfileKnown
         /\ Loaded' = Loaded
         /\ Spoken' <=> Spoken
         /\ FileIs' <=> FileIs
         /\ FromInit' <=> FromInit
         /\ On("local")' <=> On("local")
  <1>1. ActiveProfile' = ActiveProfile
    BY DEF ActiveProfile, On
  <1>2. ProfileKnown' <=> ProfileKnown
    BY <1>1 DEF ProfileKnown
  <1>3. Loaded' = Loaded
    BY <1>1 DEF Loaded
  <1>4. Spoken' <=> Spoken
    BY DEF Spoken
  <1>5. FileIs' <=> FileIs
    BY DEF FileIs
  <1>6. FromInit' <=> FromInit
    BY DEF FromInit, FileSettings
  <1>7. On("local")' <=> On("local")
    BY DEF On
  <1>8. QED
    BY <1>2, <1>3, <1>4, <1>5, <1>6, <1>7

\* What is asked for changes only with what is said and read.
LEMMA WishStays ==
  ASSUME said' = said, read' = read
  PROVE  /\ Refused' <=> Refused
         /\ \A route : Wish(route)' = Wish(route)
  <1>1. Heard' = Heard
    BY DEF Heard
  <1>2. ASSUME NEW s PROVE Resolved(s)' = Resolved(s)
    BY <1>1 DEF Resolved
  <1>3. ASSUME NEW s PROVE On(s)' <=> On(s)
    BY DEF On
  <1>4. Refused' <=> Refused
    BY <1>2, <1>3 DEF Refused
  <1>5. ASSUME NEW route PROVE Wish(route)' = Wish(route)
    BY <1>2, <1>3 DEF Wish, BaseImage, Base, Strategy, Output,
       resolveReadyPath, failOnCVE, cacheVerify, telemetryEnabled
  <1>6. QED
    BY <1>4, <1>5

\* The invariant when the command starts.
LEMMA RequestInit ==
  ASSUME Assumed, Init
  PROVE  IInv
  <1>1. /\ said \in Said /\ OneEach(said) /\ read = {} /\ step = "load" /\ generated = FALSE
        /\ FileIs
    BY DEF Init, FileIs
  <1>2. Spoken
    BY <1>1 DEF Assumed, Spoken
  <1>3. ReadIs /\ RequestIs /\ RefusedFor
    BY <1>1 DEF ReadIs, Steps, RequestIs, RefusedFor
  <1>4. WrittenIs
    BY <1>1 DEF WrittenIs
  <1>5. QED
    BY <1>1, <1>2, <1>3, <1>4 DEF IInv

\* Init writes a file only where there is none.
LEMMA NotGenerated ==
  ASSUME WrittenIs, file[1] = "none"
  PROVE  ~generated
  <1>1. FromInit => file[1] = "ok"
    <2>1. FromInit => \E name : file = <<"ok", name>>
      BY Zenon DEF FromInit
    <2>2. QED
      BY <2>1
  <1>2. QED
    BY <1>1 DEF WrittenIs

\* While nothing more is said, the file stays as it was written or not.
LEMMA WrittenStays ==
  ASSUME WrittenIs, said' = said, file' = file, asked' = asked, generated' = generated,
         step = "written" => step' = "written"
  PROVE  WrittenIs'
  <1>1. (FromInit' <=> FromInit) /\ (On("local")' <=> On("local"))
    BY SaidStays
  <1>2. QED
    BY <1>1 DEF WrittenIs

\* The invariant when init writes a file.
LEMMA WriteDefaultKeeps ==
  ASSUME Assumed, IInv, WriteDefault
  PROVE  IInv'
  <1>1. /\ step = "load" /\ file = <<"none", "">> /\ \A t \in said : t[1] = "env"
        /\ asked' = asked /\ read' = read /\ asked = ""
    BY DEF WriteDefault
  <1>2. PICK a \in Answers :
          IF ConfigValid(GenerateDefault(a))
          THEN /\ said' = {t \in said : t[1] # "config" /\ t[1] # "profile"} \cup GenerateDefault(a)
               /\ file' = <<"ok", IF a.local THEN "local" ELSE "">>
               /\ step' = "written" /\ generated' = TRUE
          ELSE step' = "refused" /\ UNCHANGED <<said, file, generated>>
    BY Zenon DEF WriteDefault
  <1>3. /\ Spoken /\ FileIs /\ ReadIs /\ WrittenIs
    BY DEF IInv
  <1>4. CASE ConfigValid(GenerateDefault(a))
    <2> DEFINE written == GenerateDefault(a)
    <2>1. said' = {t \in said : t[1] # "config" /\ t[1] # "profile"} \cup written
          /\ file' = <<"ok", IF a.local THEN "local" ELSE "">> /\ step' = "written" /\ generated' = TRUE
      BY <1>2, <1>4
    <2>2. /\ OneEach(written)
          /\ \A t \in written : Sayable(t) /\ t[1] \in {"config", "profile"}
          /\ (\E t \in written : t[1] = "profile") <=> a.local
          /\ \E t \in written : t[1] = "config"
      BY GeneratedIsSpoken
    <2> HIDE DEF written
    <2>3. said' = said \cup written
      BY <1>1, <2>1, <2>2
    <2>4. OneEach(said)' /\ \A t \in said' : Sayable(t)
      BY <1>1, <1>3, <2>2, <2>3 DEF Spoken, OneEach
    <2>5. Spoken'
      BY <2>4 DEF Spoken, OneEach
    <2>6. FileSettings' = written
      BY <1>1, <2>2, <2>3 DEF FileSettings
    <2>7. FileIs'
      <3>1. \E t \in said' : t[1] = "config"
        BY <2>2, <2>3
      <3>2. (\E t \in said' : t[1] = "profile") <=> a.local
        BY <1>1, <2>2, <2>3
      <3>3. file' \in {"ok", "typo"} \X {"", "local", "prod"}
        BY <2>1
      <3>4. file'[1] = "ok" /\ file'[2] = IF a.local THEN "local" ELSE ""
        BY <2>1
      <3>5. asked' \in {"", "prod"}
        BY <1>1
      <3>6. (file'[1] = "none") <=> (\A t \in said' : t[1] \notin {"config", "profile"})
        BY <3>1, <3>4
      <3>7. (file'[2] = "") <=> (\A t \in said' : t[1] # "profile")
        BY <3>2, <3>4
      <3>8. QED
        BY <3>3, <3>5, <3>6, <3>7 DEF FileIs
    <2>8. ReadIs' /\ RequestIs' /\ RefusedFor'
      BY <1>1, <1>3, <2>1 DEF ReadIs, Steps, RequestIs, RefusedFor
    <2>9. FromInit'
      BY <1>1, <1>4, <2>1, <2>6 DEF FromInit, written
    <2>10. WrittenIs'
      BY <2>1, <2>9 DEF WrittenIs
    <2>11. QED
      BY <2>5, <2>7, <2>8, <2>10 DEF IInv
  <1>5. CASE ~ConfigValid(GenerateDefault(a))
    <2>1. /\ step' = "refused" /\ said' = said /\ file' = file /\ generated' = generated
      BY <1>2, <1>5
    <2>2. Spoken' /\ FileIs'
      BY <1>1, <1>3, <2>1, SaidStays
    <2>3. WrittenIs'
      BY <1>1, <1>3, <2>1, WrittenStays
    <2>4. file[1] = "none"
      BY <1>1
    <2>5. ~generated' /\ file'[1] = "none"
      BY <1>3, <2>1, <2>4, NotGenerated
    <2>8. read = {} /\ read' = read
      BY <1>1, <1>3 DEF ReadIs
    <2>6. ReadIs' /\ RequestIs' /\ RefusedFor'
      BY <2>1, <2>5, <2>8 DEF ReadIs, Steps, RequestIs, RefusedFor
    <2>7. QED
      BY <2>2, <2>3, <2>6 DEF IInv
  <1>6. QED
    BY <1>4, <1>5

\* The invariant when the suggested command runs.
LEMMA SuggestedKeeps ==
  ASSUME IInv, Suggested
  PROVE  IInv'
  <1> DEFINE local == <<"flag", "local", "on">>
  <1>1. /\ step = "written" /\ step' = "load" /\ file' = file /\ asked' = asked /\ read' = read
        /\ generated' = generated
        /\ said' = said \cup (IF \E t \in said : t[2] = "repo" THEN {} ELSE {local})
    BY DEF Suggested
  <1>2. /\ Spoken /\ FileIs /\ ReadIs /\ WrittenIs
    BY DEF IInv
  <1>3. \A t \in said' : t \in said \/ t = local
    BY <1>1
  <1>4. said \subseteq said'
    BY <1>1
  <1>5. Sayable(local)
    BY DEF Sayable, Switches
  <1>6. ASSUME NEW t \in said, t[1] = "flag", t[2] = "local" PROVE t = local
    <2>1. Sayable(t) /\ "local" \notin Settings
      BY <1>2, SettingsAre DEF Spoken
    <2>2. PICK flag \in Switches : t = <<"flag", flag, "on">>
      BY <1>6, <2>1 DEF Sayable
    <2>3. QED
      BY <1>6, <2>2
  <1>7. local[1] = "flag" /\ local[2] = "local"
    OBVIOUS
  <1> HIDE DEF local
  <1>8. Spoken'
    <2>1. \A t, u \in said' : (t[1] = u[1] /\ t[2] = u[2]) => t = u
      BY <1>2, <1>3, <1>6, <1>7 DEF Spoken, OneEach
    <2>2. \A t \in said' : Sayable(t)
      BY <1>2, <1>3, <1>5 DEF Spoken
    <2>3. QED
      BY <2>1, <2>2 DEF Spoken, OneEach
  <1>9. FileIs'
    <2>1. (\A t \in said' : t[1] \notin {"config", "profile"}) <=> (\A t \in said : t[1] \notin {"config", "profile"})
      BY <1>3, <1>4, <1>7
    <2>2. (\A t \in said' : t[1] # "profile") <=> (\A t \in said : t[1] # "profile")
      BY <1>3, <1>4, <1>7
    <2>3. QED
      BY <1>1, <1>2, <2>1, <2>2 DEF FileIs
  <1>10. ReadIs' /\ RequestIs' /\ RefusedFor'
    BY <1>1, <1>2 DEF ReadIs, Steps, RequestIs, RefusedFor
  <1>11. FileSettings' = FileSettings
    BY <1>3, <1>4, <1>7 DEF FileSettings
  <1>12. FromInit => FromInit'
    BY <1>1, <1>11 DEF FromInit
  <1>13. On("local")' \/ \E t \in said' : t[2] = "repo"
    BY <1>1 DEF On, local
  <1>14. WrittenIs'
    BY <1>1, <1>2, <1>12, <1>13 DEF WrittenIs
  <1>15. QED
    BY <1>8, <1>9, <1>10, <1>14 DEF IInv

\* What no step but init's and the suggested command's changes.
LEMMA OthersKeep ==
  ASSUME IInv, said' = said, file' = file, asked' = asked, generated' = generated,
         step # "written"
  PROVE  /\ Spoken' /\ FileIs' /\ WrittenIs'
         /\ ProfileKnown' <=> ProfileKnown
         /\ Loaded' = Loaded
  BY SaidStays, WrittenStays DEF IInv

\* The invariant when the project file is read.
LEMMA LoadKeeps ==
  ASSUME IInv, Load
  PROVE  IInv'
  <1>1. /\ step = "load" /\ said' = said /\ file' = file /\ asked' = asked /\ generated' = generated
        /\ \/ ~ProfileKnown /\ step' = "refused" /\ read' = read
           \/ ProfileKnown /\ read' = Loaded /\ step' = "build"
    BY DEF Load
  <1>2. /\ Spoken' /\ FileIs' /\ WrittenIs'
        /\ ProfileKnown' <=> ProfileKnown
        /\ Loaded' = Loaded
    BY <1>1, OthersKeep
  <1>5. read = {}
    BY <1>1 DEF IInv, ReadIs
  <1>3. ReadIs' /\ RequestIs' /\ RefusedFor'
    BY <1>1, <1>2, <1>5 DEF ReadIs, Steps, RequestIs, RefusedFor
  <1>4. QED
    BY <1>2, <1>3 DEF IInv

\* The invariant when the request is built, normalized and validated.
LEMMA RequestKeeps ==
  ASSUME IInv, Build \/ Normalize \/ Validate
  PROVE  IInv'
  <1>1. /\ step \in {"build", "normalize", "validate"} /\ step' \in {"refused", "normalize", "validate", "accepted"}
        /\ said' = said /\ file' = file /\ asked' = asked /\ generated' = generated /\ read' = read
    BY DEF Build, Normalize, Validate
  <1>2. /\ Spoken' /\ FileIs' /\ WrittenIs'
        /\ ProfileKnown' <=> ProfileKnown
        /\ Loaded' = Loaded
    BY <1>1, OthersKeep
  <1>3. /\ Refused' <=> Refused
        /\ \A route : Wish(route)' = Wish(route)
    BY <1>1, WishStays
  <1>4. ProfileKnown /\ read = Loaded
    BY <1>1 DEF IInv, ReadIs
  <1>5. ReadIs'
    BY <1>1, <1>2, <1>4 DEF ReadIs, Steps
  <1>6. RequestIs' /\ RefusedFor'
    <2>1. CASE Build
      <3>1. \/ Refused /\ step' = "refused"
            \/ ~Refused /\ step' = "normalize" /\ \E route \in ReadyRoutes : request' = Wish(route)
        BY <2>1 DEF Build
      <3>2. RequestIs'
        BY <1>3, <3>1 DEF RequestIs, ReadyRoutes
      <3>3. RefusedFor'
        BY <1>1, <1>2, <1>3, <1>4, <3>1 DEF RefusedFor
      <3>4. QED
        BY <3>2, <3>3
    <2>2. CASE Normalize
      <3>1. step = "normalize" /\ step' = "validate" /\ request' = Normal(request)
        BY <2>2 DEF Normalize
      <3>2. ~Refused /\ \E route \in ReadyRoutes : request = Wish(route)
        BY <3>1 DEF IInv, RequestIs
      <3>3. RequestIs'
        BY <1>3, <3>1, <3>2 DEF RequestIs, ReadyRoutes
      <3>4. RefusedFor'
        BY <3>1 DEF RefusedFor
      <3>5. QED
        BY <3>3, <3>4
    <2>3. CASE Validate
      <3>1. step = "validate" /\ step' = (IF Valid(request) THEN "accepted" ELSE "refused") /\ request' = request
        BY <2>3 DEF Validate
      <3>2. ~Refused /\ \E route \in ReadyRoutes : request = Normal(Wish(route))
        BY <3>1 DEF IInv, RequestIs
      <3>3. RequestIs'
        BY <1>3, <3>1, <3>2 DEF RequestIs, ReadyRoutes
      <3>4. RefusedFor'
        BY <1>1, <1>2, <1>3, <1>4, <3>1, <3>2 DEF RefusedFor, ReadyRoutes
      <3>5. QED
        BY <3>3, <3>4
    <2>4. QED
      BY <2>1, <2>2, <2>3
  <1>7. QED
    BY <1>2, <1>5, <1>6 DEF IInv

\* The invariant is inductive.
LEMMA RequestStep ==
  ASSUME Assumed, IInv, [Next]_vars
  PROVE  IInv'
  <1>1. CASE Next
    BY <1>1, WriteDefaultKeeps, SuggestedKeeps, LoadKeeps, RequestKeeps DEF Next
  <1>2. CASE UNCHANGED vars
    <2>1. /\ said' = said /\ file' = file /\ asked' = asked /\ read' = read /\ request' = request
          /\ step' = step /\ generated' = generated
      BY <1>2 DEF vars
    <2>2. /\ ProfileKnown' <=> ProfileKnown
          /\ Loaded' = Loaded
          /\ Spoken' <=> Spoken
          /\ FileIs' <=> FileIs
      BY <2>1, SaidStays
    <2>3. /\ Refused' <=> Refused
          /\ \A route : Wish(route)' = Wish(route)
      BY <2>1, WishStays
    <2>4. WrittenIs'
      BY <2>1, WrittenStays DEF IInv
    <2>5. ReadIs'
      BY <2>1, <2>2 DEF IInv, ReadIs, Steps
    <2>6. RequestIs'
      BY <2>1, <2>3 DEF IInv, RequestIs, ReadyRoutes
    <2>7. RefusedFor'
      BY <2>1, <2>2, <2>3 DEF IInv, RefusedFor, ReadyRoutes
    <2>8. QED
      BY <2>2, <2>4, <2>5, <2>6, <2>7 DEF IInv
  <1>3. QED
    BY <1>1, <1>2

\* What is said is a layer, a setting and a value.
LEMMA SaidAreTriples ==
  ASSUME Spoken, NEW t \in said
  PROVE  t = <<t[1], t[2], t[3]>>
  <1>1. Sayable(t)
    BY DEF Spoken
  <1>2. CASE t \in {<<"flag", flag, "on">> : flag \in Switches}
    BY <1>2
  <1>3. CASE t = <<t[1], t[2], t[3]>>
    BY <1>3
  <1>4. QED
    BY <1>1, <1>2, <1>3 DEF Sayable

\* What is read of the file is said in it: as it stands, or a profile's as the file's.
LEMMA ReadIsSaid ==
  ASSUME Spoken, read \in {{}, Loaded}
  PROVE  read \subseteq {<<t[1], t[2], t[3]>> : t \in said} \cup {<<"config", t[2], t[3]>> : t \in said}
  <1> DEFINE own == {t \in said : t[1] = "config"}
             profile == {t \in said : t[1] = "profile"}
             over == {<<"config", t[2], t[3]>> : t \in {v \in profile : v[2] \notin {"output", "sourcemap"}}}
  <1>1. ASSUME NEW u \in Loaded PROVE u \in said \/ \E v \in said : u = <<"config", v[2], v[3]>>
    <2>1. u \in own \/ u \in ApplyProfile(own, profile)
      BY <1>1 DEF Loaded
    <2>2. \A v \in ApplyProfile(own, profile) : v \in own \/ v \in over \/ v \in profile
      BY DEF ApplyProfile
    <2>3. u \in over => \E v \in said : u = <<"config", v[2], v[3]>>
      OBVIOUS
    <2>4. own \subseteq said /\ profile \subseteq said
      OBVIOUS
    <2> HIDE DEF own, profile, over
    <2>5. QED
      BY <2>1, <2>2, <2>3, <2>4
  <1>2. \A u \in read : u \in said \/ \E v \in said : u = <<"config", v[2], v[3]>>
    BY <1>1
  <1>3. \A t \in said : t \in {<<v[1], v[2], v[3]>> : v \in said}
    <2> SUFFICES ASSUME NEW t \in said PROVE \E v \in said : t = <<v[1], v[2], v[3]>>
      OBVIOUS
    <2>1. t = <<t[1], t[2], t[3]>>
      BY SaidAreTriples
    <2>2. QED
      BY <2>1
  <1>4. QED
    BY <1>2, <1>3

\* What the invariant is for.
LEMMA RequestHolds ==
  ASSUME Assumed, IInv
  PROVE  TypeOK /\ AsksAreHonoured /\ AcceptedImagesStart /\ ValidFilesBuild
  <1>1. Spoken /\ ReadIs /\ RequestIs
    BY DEF IInv
  <1>2. ASSUME step \in {"validate", "accepted"}
        PROVE  read = Loaded /\ ~Refused
    BY <1>1, <1>2 DEF ReadIs, RequestIs
  <1>3. ASSUME step \in {"validate", "accepted"}
        PROVE  \E route \in ReadyRoutes : request = Normal(Wish(route))
    BY <1>1, <1>3 DEF RequestIs
  <1>4. TypeOK
    <2>1. step \in Steps
      BY <1>1 DEF ReadIs
    <2>2. read \subseteq {<<t[1], t[2], t[3]>> : t \in said} \cup {<<"config", t[2], t[3]>> : t \in said}
      <3>1. read \in {{}, Loaded}
        BY <1>1 DEF ReadIs
      <3>2. QED
        BY <1>1, <3>1, ReadIsSaid
    <2>3. ASSUME step \in {"validate", "accepted"}, NEW s \in Settings
          PROVE  request[s] \in Legal[s] \cup Defaults \cup {Unset}
      BY <1>1, <1>2, <1>3, <2>3, RequestTyped
    <2>4. QED
      BY <2>1, <2>2, <2>3 DEF TypeOK
  <1>5. AsksAreHonoured
    <2>1. ASSUME step = "accepted", NEW t \in InForce PROVE Honours(t)
      BY <1>1, <1>2, <1>3, <2>1, AsksHonoured
    <2>2. QED
      BY <2>1 DEF AsksAreHonoured
  <1>6. AcceptedImagesStart
    <2> SUFFICES ASSUME step = "accepted"
                 PROVE  /\ request.strategy = "layered" /\ request.runtime = "node" =>
                             request.ref \in {"distroless-node", "ref"}
                        /\ request.strategy # "static" => request.ref # "StaticBaseRef"
                        /\ request.ref \in {request.base, "ref", "StaticBaseRef"}
                        /\ request.ref = "ref" => request.base = "custom"
                        /\ request.ref = "StaticBaseRef" => request.base = "chainguard"
                        /\ Normal(request) = request
      BY DEF AcceptedImagesStart
    <2>1. PICK route \in ReadyRoutes : request = Normal(Wish(route))
      BY <1>3
    <2>2. read = Loaded /\ ~Refused /\ Valid(request)
      BY <1>1, <1>2 DEF RequestIs
    <2> HIDE DEF Normal
    <2>3. QED
      BY <1>1, <2>1, <2>2, ImagesStart
  <1>7. QED
    BY <1>4, <1>5, <1>6, FilesBuild

\* A request that is accepted is the one that was asked for and makes an image
\* that starts, whatever is said in the four layers, and the file that init
\* writes, like a file with one valid setting, can be built
\* (cmd/pokkum/build.go, adapters/config, core/model.go).
THEOREM RequestsAreHonoured ==
  ASSUME Assumed
  PROVE  Spec => [](TypeOK /\ AsksAreHonoured /\ AcceptedImagesStart /\ ValidFilesBuild)
  <1>1. Init => IInv
    BY RequestInit
  <1>2. IInv /\ [Next]_vars => IInv'
    BY RequestStep
  <1>3. IInv => TypeOK /\ AsksAreHonoured /\ AcceptedImagesStart /\ ValidFilesBuild
    BY RequestHolds
  <1>4. QED
    BY <1>1, <1>2, <1>3, PTL DEF Spec
=============================================================================
