------------------------------- MODULE BaseLock -------------------------------
(***************************************************************************)
(* The base image resolver and pokkum.lock: commands of one project, at    *)
(* the same time, that resolve a base to the locked digest, or to what its *)
(* tag names now, escrow it in a mirror, verify it, write the lock, and    *)
(* later record in it what a scan of the base found.                       *)
(*                                                                         *)
(* A base is known by its slot in the lock.  Digests are numbers; a scan   *)
(* result is the digest it is of, 0 for none.                              *)
(***************************************************************************)
EXTENDS Integers, FiniteSets

CONSTANTS
  Commands,
  Bases,        \* the slots: a preset, or one per reference of a custom base
  Custom,       \* those of custom bases, which once shared the slot "custom"
  Signed,       \* the digests that verification accepts
  MaxDigest,    \* of a tag, as it moves
  Asked,        \* what a command may be asked: see Requests
  MaxStarts
CONSTANTS NoEntry, Torn

Slots == Bases \cup {"custom"}
Digests == 1 .. MaxDigest

VARIABLES
  tag,      \* [base -> the digest its tag names]
  mirror,   \* [digest -> the digest its tag in the mirror serves, or 0]
  lock,     \* pokkum.lock: [slot -> entry], or Torn while it is being written
  at,       \* [command -> where it is]
  want,     \* [command -> what it was asked: base, update, mirror, offline, verify]
  lf,       \* [command -> the lockfile it loaded, or Torn for none]
  locked,   \* [command -> lockedFound, by its digest, or 0]
  pulled,   \* [command -> pull.digest, or 0]
  mirrorRef,\* [command -> whether it escrowed]
  result,   \* [command -> the digest it returned, or 0]
  starts,
  relocked  \* history: another digest was locked between the resolving of a base and the
            \* reading of the lock that its scan is recorded in

baseVars == <<tag, mirror, lock, at, want, lf, locked, pulled, mirrorRef, result, starts, relocked>>

Entry == [base: Bases, digest: Digests, mirror: BOOLEAN, scan: 0 .. MaxDigest]
EmptyLock == [s \in Slots |-> NoEntry]

\* Offline goes with neither --update nor a mirror to write to, and an update
\* is verified.
Requests == [base: Bases, update: BOOLEAN, mirror: BOOLEAN, offline: BOOLEAN, verify: BOOLEAN]
NoRequest == [base |-> "none", update |-> FALSE, mirror |-> FALSE, offline |-> FALSE, verify |-> FALSE]

\* A project whose lock has a custom base in the slot all of them once shared.
Init ==
  /\ tag = [b \in Bases |-> 1] /\ mirror = [d \in Digests |-> 0]
  /\ lock \in {EmptyLock} \cup
       {[EmptyLock EXCEPT !["custom"] = [base |-> b, digest |-> 1, mirror |-> FALSE, scan |-> 0]]
          : b \in Custom}
  /\ at = [c \in Commands |-> "off"] /\ want = [c \in Commands |-> NoRequest]
  /\ lf = [c \in Commands |-> Torn] /\ locked = [c \in Commands |-> 0]
  /\ pulled = [c \in Commands |-> 0] /\ mirrorRef = [c \in Commands |-> FALSE]
  /\ result = [c \in Commands |-> 0] /\ starts = 0 /\ relocked = FALSE

Goto(c, where) == at' = [at EXCEPT ![c] = where]
Base(c) == want[c].base

-----------------------------------------------------------------------------
(* The registries *)

\* Upstream moves a tag; whoever can write to the mirror puts something else
\* under a tag of it.
Retag(b) ==
  /\ tag[b] < MaxDigest
  /\ tag' = [tag EXCEPT ![b] = @ + 1]
  /\ UNCHANGED <<mirror, lock, at, want, lf, locked, pulled, mirrorRef, result, starts, relocked>>

Substitute(d, e) ==
  /\ mirror[d] # 0 /\ mirror' = [mirror EXCEPT ![d] = e]
  /\ UNCHANGED <<tag, lock, at, want, lf, locked, pulled, mirrorRef, result, starts, relocked>>

-----------------------------------------------------------------------------
(* Resolve *)

\* lookupLockedBase: the base's own slot, else the shared one if it is the same
\* reference that is locked there.
fromLegacy(l, b) ==
  l[b] = NoEntry /\ b \in Custom /\ l["custom"] # NoEntry /\ l["custom"].base = b

lookupLockedBase(l, b) == IF fromLegacy(l, b) THEN l["custom"] ELSE l[b]

\* The entry moves to the base's own slot as it is.
Migrated(l, b) == [l EXCEPT ![b] = l["custom"], !["custom"] = NoEntry]

Start(c, w) ==
  /\ at[c] = "off" /\ starts < MaxStarts
  /\ starts' = starts + 1
  /\ want' = [want EXCEPT ![c] = w]
  /\ Goto(c, "load")
  /\ UNCHANGED <<tag, mirror, lock, lf, locked, pulled, mirrorRef, result, relocked>>

\* The lock is read once.  One that cannot be parsed is as good as none, but
\* for a warning; and offline nothing but a locked base will do.
Load(c) ==
  /\ at[c] = "load"
  /\ LET found == lock # Torn /\ lookupLockedBase(lock, Base(c)) # NoEntry /\ ~want[c].update
     IN /\ lf' = [lf EXCEPT ![c] = lock]
        /\ locked' = [locked EXCEPT ![c] =
             IF found THEN lookupLockedBase(lock, Base(c)).digest ELSE 0]
        /\ Goto(c, IF want[c].offline /\ ~found THEN "failed"
                   ELSE IF ~found THEN "pull"
                   ELSE IF lookupLockedBase(lock, Base(c)).mirror THEN "pullMirror"
                   ELSE "migrate")
  /\ UNCHANGED <<tag, mirror, lock, want, pulled, mirrorRef, result, starts, relocked>>

\* A mirror that answers must serve the locked digest; one that does not is
\* passed over for the locked reference.
PullMirror(c) ==
  /\ at[c] = "pullMirror"
  /\ \/ /\ mirror[locked[c]] # 0
        /\ IF mirror[locked[c]] = locked[c]
           THEN pulled' = [pulled EXCEPT ![c] = locked[c]] /\ Goto(c, "migrate")
           ELSE Goto(c, "failed") /\ UNCHANGED pulled
     \/ Goto(c, "migrate") /\ UNCHANGED pulled
  /\ UNCHANGED <<tag, mirror, lock, want, lf, locked, mirrorRef, result, starts, relocked>>

\* What the mirror served is not fetched again.
Onward(c) == IF pulled[c] # 0 THEN "escrow" ELSE "pull"

\* SaveLockfile truncates the file and writes it.
Truncate(c, then) == lock' = Torn /\ Goto(c, then)

\* A locked entry found in the shared slot is moved at once; a lock that is
\* read-only or cannot be written is only a warning.
Migrate(c) ==
  /\ at[c] = "migrate"
  /\ IF fromLegacy(lf[c], Base(c))
     THEN /\ lf' = [lf EXCEPT ![c] = Migrated(lf[c], Base(c))]
          /\ \/ Truncate(c, "migrating")
             \/ Goto(c, Onward(c)) /\ UNCHANGED lock
     ELSE Goto(c, Onward(c)) /\ UNCHANGED <<lf, lock>>
  /\ UNCHANGED <<tag, mirror, want, locked, pulled, mirrorRef, result, starts, relocked>>

Moved(c) ==
  /\ at[c] = "migrating"
  /\ lock' = lf[c]
  /\ Goto(c, Onward(c))
  /\ UNCHANGED <<tag, mirror, want, lf, locked, pulled, mirrorRef, result, starts, relocked>>

\* pull: the locked digest, or what the tag names now; then the platforms are
\* selected, and any of it may fail.
Pull(c) ==
  /\ at[c] = "pull"
  /\ \/ /\ pulled' = [pulled EXCEPT ![c] = IF locked[c] # 0 THEN locked[c] ELSE tag[Base(c)]]
        /\ Goto(c, "escrow")
     \/ Goto(c, "failed") /\ UNCHANGED pulled
  /\ UNCHANGED <<tag, mirror, lock, want, lf, locked, mirrorRef, result, starts, relocked>>

\* --mirror-registry: the base and its signature are pushed to the mirror.  A
\* lock that was found stays as it is.
Escrow(c) ==
  /\ at[c] = "escrow"
  /\ LET next == IF locked[c] # 0 THEN "verify" ELSE "save" IN
     \/ /\ want[c].mirror
        /\ mirror' = [mirror EXCEPT ![pulled[c]] = pulled[c]]
        /\ mirrorRef' = [mirrorRef EXCEPT ![c] = TRUE] /\ Goto(c, next)
     \/ want[c].mirror /\ Goto(c, "failed") /\ UNCHANGED <<mirror, mirrorRef>>
     \/ /\ ~want[c].mirror
        /\ mirrorRef' = [mirrorRef EXCEPT ![c] = FALSE] /\ Goto(c, next) /\ UNCHANGED mirror
  /\ UNCHANGED <<tag, lock, want, lf, locked, pulled, result, starts, relocked>>

\* Mutant: an entry keeps its scan whatever digest it is updated to.
NewEntry_keepsScan(c) ==
  LET old == IF lf[c] = Torn THEN NoEntry ELSE lookupLockedBase(lf[c], Base(c))
  IN [base |-> Base(c), digest |-> pulled[c],
      mirror |-> mirrorRef[c] \/ (old # NoEntry /\ old.mirror /\ old.digest = pulled[c]),
      scan   |-> IF old # NoEntry THEN old.scan ELSE 0]

\* The entry, which keeps the mirror and the scan of the one it replaces if the
\* digest is the same.
NewEntry(c) ==
  LET old  == IF lf[c] = Torn THEN NoEntry ELSE lookupLockedBase(lf[c], Base(c))
      same == old # NoEntry /\ old.digest = pulled[c]
  IN [base |-> Base(c), digest |-> pulled[c],
      mirror |-> mirrorRef[c] \/ (same /\ old.mirror),
      scan   |-> IF same THEN old.scan ELSE 0]

\* The lock as it was loaded, with the entry in the base's own slot.
NewLock(c) ==
  LET l == IF lf[c] = Torn THEN EmptyLock ELSE lf[c]
  IN [l EXCEPT ![Base(c)] = NewEntry(c),
               !["custom"] = IF fromLegacy(l, Base(c)) THEN NoEntry ELSE @]

Save(c) ==
  /\ at[c] = "save"
  /\ \/ Truncate(c, "saving")
     \/ Goto(c, "verify") /\ UNCHANGED lock
  /\ UNCHANGED <<tag, mirror, want, lf, locked, pulled, mirrorRef, result, starts, relocked>>

Saved(c) ==
  /\ at[c] = "saving"
  /\ lock' = NewLock(c)
  /\ Goto(c, "verify")
  /\ UNCHANGED <<tag, mirror, want, lf, locked, pulled, mirrorRef, result, starts, relocked>>

\* VerifyBaseImage, on what was pulled, the lock being written by then.
Verify(c) ==
  /\ at[c] = "verify"
  /\ IF want[c].verify /\ pulled[c] \notin Signed
     THEN Goto(c, "failed") /\ UNCHANGED result
     ELSE Goto(c, "scan") /\ result' = [result EXCEPT ![c] = pulled[c]]
  /\ UNCHANGED <<tag, mirror, lock, want, lf, locked, pulled, mirrorRef, starts, relocked>>

-----------------------------------------------------------------------------
(* RecordScanResult *)

\* The scan of the base is over: the lock is read again.
LoadAgain(c) ==
  /\ at[c] = "scan"
  /\ \/ Goto(c, "done") /\ UNCHANGED <<lf, relocked>>
     \/ /\ lf' = [lf EXCEPT ![c] = lock]
        /\ IF lock # Torn /\ lookupLockedBase(lock, Base(c)) # NoEntry
           THEN /\ Goto(c, "record")
                /\ relocked' = (relocked \/ lookupLockedBase(lock, Base(c)).digest # result[c])
           ELSE Goto(c, "done") /\ UNCHANGED relocked
  /\ UNCHANGED <<tag, mirror, lock, want, locked, pulled, mirrorRef, result, starts>>

\* The result goes into the slot of the base, and is that of the digest this
\* command resolved.
Recorded(c) ==
  [lf[c] EXCEPT ![Base(c)] = [lookupLockedBase(lf[c], Base(c)) EXCEPT !.scan = result[c]]]

Record(c) ==
  /\ at[c] = "record"
  /\ \/ Truncate(c, "recording")
     \/ Goto(c, "done") /\ UNCHANGED lock
  /\ UNCHANGED <<tag, mirror, want, lf, locked, pulled, mirrorRef, result, starts, relocked>>

RecordedScan(c) ==
  /\ at[c] = "recording"
  /\ lock' = Recorded(c)
  /\ Goto(c, "done")
  /\ UNCHANGED <<tag, mirror, want, lf, locked, pulled, mirrorRef, result, starts, relocked>>

\* The command is over, or is killed, perhaps with the lock cut short.
End(c) ==
  /\ at[c] # "off"
  /\ Goto(c, "off")
  /\ want' = [want EXCEPT ![c] = NoRequest] /\ lf' = [lf EXCEPT ![c] = Torn]
  /\ locked' = [locked EXCEPT ![c] = 0] /\ pulled' = [pulled EXCEPT ![c] = 0]
  /\ mirrorRef' = [mirrorRef EXCEPT ![c] = FALSE] /\ result' = [result EXCEPT ![c] = 0]
  /\ UNCHANGED <<tag, mirror, lock, starts, relocked>>

Next ==
  \/ \E b \in Bases : Retag(b)
  \/ \E d, e \in Digests : Substitute(d, e)
  \/ \E c \in Commands :
       \/ \E w \in Asked : Start(c, w)
       \/ Load(c) \/ PullMirror(c) \/ Migrate(c) \/ Moved(c) \/ Pull(c) \/ Escrow(c)
       \/ Save(c) \/ Saved(c) \/ Verify(c) \/ LoadAgain(c) \/ Record(c) \/ RecordedScan(c) \/ End(c)

Spec == Init /\ [][Next]_baseVars

-----------------------------------------------------------------------------
Locks == [Slots -> Entry \cup {NoEntry}]

\* The lock, and what a command holds of it, is torn or a set of entries, and a
\* command is at one of its steps.
TypeOK ==
  /\ lock \in Locks \cup {Torn} /\ lf \in [Commands -> Locks \cup {Torn}]
  /\ at \in [Commands -> {"off", "load", "pullMirror", "migrate", "migrating", "pull", "escrow",
                          "save", "saving", "verify", "scan", "record", "recording", "done", "failed"}]
  /\ want \in [Commands -> Requests \cup {NoRequest}]
  /\ tag \in [Bases -> Digests] /\ mirror \in [Digests -> 0 .. MaxDigest]
  /\ locked \in [Commands -> 0 .. MaxDigest] /\ pulled \in [Commands -> 0 .. MaxDigest]
  /\ result \in [Commands -> 0 .. MaxDigest] /\ mirrorRef \in [Commands -> BOOLEAN]
  /\ relocked \in BOOLEAN

\* A build whose base is locked gets that digest and no other, though its tag
\* has moved and its mirror may serve something else; and what a build that
\* verifies gets is signed.
LockedBaseIsUsed ==
  \A c \in Commands : result[c] # 0 =>
    /\ locked[c] # 0 => result[c] = locked[c]
    /\ want[c].verify => result[c] \in Signed

ScansAreTrue(l) ==
  l # Torn => \A s \in Slots : l[s] # NoEntry => l[s].scan \in {0, l[s].digest}

\* A scan recorded in the lock is of the digest it is recorded with, whatever
\* updates of one another the commands lose, unless a new digest was locked
\* between the resolving of one and the recording of its scan.
ScansAreOfTheirDigest == ~relocked => ScansAreTrue(lock)

LockIsHonest == LockedBaseIsUsed /\ ScansAreOfTheirDigest

-----------------------------------------------------------------------------
(* The inductive invariant behind it *)

\* What the proofs rest on: there is a digest, what is asked is a request, and
\* an entry and a lock are told from none.
Assumed ==
  /\ MaxDigest \in Nat \ {0} /\ Asked \subseteq Requests /\ Custom \subseteq Bases
  /\ NoEntry \notin Entry /\ Torn \notin Locks

\* What a command knows of the base it resolves, step by step.
Resolving(c) ==
  /\ at[c] # "off" => want[c] \in Requests
  /\ at[c] \in {"off", "load"} => locked[c] = 0 /\ pulled[c] = 0
  /\ at[c] \in {"pullMirror", "migrate", "migrating"} => locked[c] # 0 /\ lf[c] # Torn
  /\ locked[c] # 0 /\ pulled[c] # 0 => pulled[c] = locked[c]
  /\ at[c] \in {"escrow", "save", "saving", "verify", "scan", "record", "recording"} => pulled[c] # 0
  /\ result[c] # 0 => /\ at[c] \in {"scan", "record", "recording", "done"}
                      /\ result[c] = pulled[c]
                      /\ want[c].verify => pulled[c] \in Signed

\* The entry a scan is to be recorded in.
Recording(c) ==
  at[c] \in {"record", "recording"} =>
    /\ lf[c] # Torn /\ lookupLockedBase(lf[c], Base(c)) # NoEntry
    /\ ~relocked => lookupLockedBase(lf[c], Base(c)).digest = result[c]

IInv ==
  /\ \A c \in Commands : Resolving(c) /\ Recording(c)
  /\ ~relocked => ScansAreTrue(lock) /\ \A c \in Commands : ScansAreTrue(lf[c])
=============================================================================
