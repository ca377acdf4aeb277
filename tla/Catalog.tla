------------------------------- MODULE Catalog --------------------------------
(***************************************************************************)
(* What a project or an image is made of, as the scanner and the SBOM see  *)
(* it: the lockfiles and manifests of a project, and the package databases *)
(* in the layers of an image (adapters/scannerutils/scannerutils.go).      *)
(*                                                                         *)
(* A version is [core |-> sequence of numbers, pre |-> n]: 0 for no suffix, *)
(* and -1 for a segment that is no number.  NoVersion is the empty string.  *)
(***************************************************************************)
EXTENDS Integers, Sequences, FiniteSets, SequencesExt

NoVersion == [core |-> <<>>, pre |-> 0]
Npm == <<"npm">>

Package(name, version, eco, scope) ==
  [name |-> name, version |-> version, eco |-> eco, scope |-> scope]
NamesOf(packages) == {p.name : p \in packages}

-----------------------------------------------------------------------------
(* Lockfiles: sequences of [name, version, hoisted, dev, deps] in the order *)
(* of their sorted keys; what cannot be parsed has NoVersion                 *)

Concrete(entries) == {i \in DOMAIN entries : entries[i].version # NoVersion}
Names(entries) == {entries[i].name : i \in Concrete(entries)}
Copies(entries, name) == {i \in Concrete(entries) : entries[i].name = name}
First(indices) == CHOOSE i \in indices : \A j \in indices : i <= j

\* The copy of a package that counts: the hoisted one, or the first.
FirstCopy(entries, name) == entries[First(Copies(entries, name))]
OneCopy(entries, name) ==
  LET hoisted == {i \in Copies(entries, name) : entries[i].hoisted}
  IN IF hoisted # {} THEN entries[First(hoisted)] ELSE FirstCopy(entries, name)

\* What can be reached from the roots over the copies that count: what every
\* set holds that holds the roots and, with a package, what that one needs.
ReachableFrom(roots, entries) ==
  LET Closed(names) ==
        /\ roots \cap Names(entries) \subseteq names
        /\ \A n \in names : OneCopy(entries, n).deps \cap Names(entries) \subseteq names
  IN {n \in Names(entries) : \A names \in SUBSET Names(entries) : Closed(names) => n \in names}

ParseBunLock(lock) ==
  LET entries == lock.entries
      production == ReachableFrom(lock.roots, entries)
      development == ReachableFrom(lock.devRoots, entries)
      Scope(n) == IF n \in production THEN "production"
                  ELSE IF n \in development THEN "development" ELSE "unknown"
  IN {Package(n, OneCopy(entries, n).version, Npm, Scope(n)) : n \in Names(entries)}

\* npm marks what only development needs; version 1 of the format nests its
\* entries, and is walked depth first: the first copy met is kept.
ParsePackageLock(lock) ==
  LET entries == lock.entries
      Copy(n) == IF lock.format = "npm1" THEN FirstCopy(entries, n) ELSE OneCopy(entries, n)
  IN {Package(n, Copy(n).version, Npm, IF Copy(n).dev THEN "development" ELSE "production")
        : n \in Names(entries)}

\* The pnpm lockfile names every copy and hoists none; its callers keep the first.
ParsePnpmLock(lock) ==
  {Package(n, FirstCopy(lock.entries, n).version, Npm, "unknown") : n \in Names(lock.entries)}

Lock(project, format) == {l \in project.locks : l.format \in format}

\* The first of the lockfiles that names a package says its version; the
\* manifest says it for the packages no lockfile names.
ExtractProjectDependencies(project) ==
  LET bun == UNION {ParseBunLock(l) : l \in Lock(project, {"bun"})}
      npm == UNION {ParsePackageLock(l) : l \in Lock(project, {"npm1", "npm"})}
      pnpm == UNION {ParsePnpmLock(l) : l \in Lock(project, {"pnpm"})}
      Besides(found, more) == found \cup {p \in more : p.name \notin NamesOf(found)}
      locked == Besides(Besides(bun, npm), pnpm)
      manifest == {Package(d.name, d.version, Npm, IF d.dev THEN "development" ELSE "production")
                     : d \in project.declared}
  IN Besides(locked, Besides({p \in manifest : p.scope = "production"}, manifest))

-----------------------------------------------------------------------------
(* Images: sequences of layers [os, deb, apk, vendor, declared], sets of     *)
(* packages but for the distribution, which most layers do not name; declared *)
(* are the manifests' ranges and the entries of a lockfile                    *)

\* A package of which only the configuration is left is not one; every other
\* word for its state says that it is installed.
ParseDPKGStatus(stanzas) == {p \in stanzas : p.version # NoVersion /\ p.state # "removed"}
ParseAPKInstalled(stanzas) == {p \in stanzas : p.version # NoVersion}

MapDistroEcosystem(os, type) ==
  CASE type = "deb" -> IF os[1] = "ubuntu" THEN <<"Ubuntu", os[2]>> ELSE <<"Debian", os[2]>>
    [] type = "apk" -> IF os[1] \in {"wolfi", "chainguard"} THEN <<os[1]>> ELSE <<"Alpine", os[2]>>

Distro(layers) ==
  LET named == SelectSeq(layers, LAMBDA l : l.os # <<>>)
  IN IF named = <<>> THEN <<"", "">> ELSE Last(named).os

\* The databases of all layers are read one after the other, and what a layer
\* replaces still counts; the version of a
\* vendored package is the one of the last layer and stands before a declared one.
ImagePackages(layers) ==
  LET all(field) == UNION {layers[i][field] : i \in DOMAIN layers}
      os == Distro(layers)
      vendored == {p \in all("vendor") :
                     \E i \in DOMAIN layers :
                       /\ p \in layers[i].vendor
                       /\ \A j \in i + 1..Len(layers) : p.name \notin NamesOf(layers[j].vendor)}
  IN {Package(p.name, p.version, MapDistroEcosystem(os, "deb"), "production")
        : p \in ParseDPKGStatus(all("deb"))}
     \cup {Package(p.name, p.version, MapDistroEcosystem(os, "apk"), "production")
               : p \in ParseAPKInstalled(all("apk"))}
     \cup {Package(p.name, p.version, Npm, "production") : p \in vendored}
     \cup {Package(p.name, p.version, Npm, "production")
             : p \in {d \in all("declared") : d.name \notin NamesOf(vendored)}}
=============================================================================
