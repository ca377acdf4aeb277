-------------------------- MODULE BunRuntimeProofs --------------------------
(***************************************************************************)
(* The inductive invariant of BunRuntime and the safety properties that    *)
(* follow from it, for any calls, processes, keys and archives.            *)
(*                                                                         *)
(* A step of one call disturbs the others only through the files, and what *)
(* it puts there is a write that no stat taken so far can show: that is    *)
(* NewWrites, and OthersPart, MemoPart and FilesPart say what it preserves.*)
(* Each action then has a lemma of its own, XKeeps, for what it does to    *)
(* its own call and to the files of the key that call resolves.            *)
(***************************************************************************)
EXTENDS BunRuntime, TLAPS

-----------------------------------------------------------------------------
(* Values *)

\* What is put together has the type it should have.
LEMMA Records ==
  /\ \A c \in Calls, n \in {1, 2} : <<c, n>> \in Writes
  /\ \A w \in Writes : w[1] \in Calls /\ w[2] \in {1, 2}
  /\ \A x \in Contents, w \in Writes :
       /\ [data |-> x, by |-> w] \in Binaries
       /\ [data |-> x, by |-> w] \in Sidecars
  /\ \A w \in Writes : [data |-> Empty, by |-> w] \in Sidecars
  /\ \A x \in Contents, v, w \in Writes : [sha |-> x, bin |-> v, side |-> w] \in Entries
BY DEF Writes, Binaries, Sidecars, Entries

\* One field of one call's stats replaced.
LEMMA StatsWith ==
  ASSUME NEW f \in [Calls -> Stats], NEW c \in Calls, NEW w \in Writes, NEW g,
         g = [f EXCEPT ![c].bin = w] \/ g = [f EXCEPT ![c].side = w]
  PROVE  /\ g \in [Calls -> Stats]
         /\ \A d \in Calls : d # c => g[d] = f[d]
         /\ g = [f EXCEPT ![c].bin = w] => g[c].bin = w /\ g[c].side = f[c].side
         /\ g = [f EXCEPT ![c].side = w] => g[c].side = w /\ g[c].bin = f[c].bin
BY DEF Stats

\* None is not a value of anything that may be absent.
LEMMA NoneIsNone ==
  /\ \A b \in Binaries : b # None
  /\ \A b \in Sidecars : b # None
  /\ \A e \in Entries : e # None
  /\ \A w \in Writes : w # None
  /\ \A x \in Contents : x # None /\ x # Empty
BY ValueAssumption

\* What one write leaves in a file.
LEMMA Written ==
  ASSUME TypeOK, NEW k \in Keys, NEW x, NEW c \in Calls, NEW n \in {1, 2}
  PROVE  /\ x \in Contents /\ bin' = [bin EXCEPT ![k] = [data |-> x, by |-> <<c, n>>]] =>
              /\ bin' \in [Keys -> Binaries \cup {None}]
              /\ bin'[k] # None /\ bin'[k].data = x /\ bin'[k].by = <<c, n>>
              /\ \A j \in Keys : j # k => bin'[j] = bin[j]
         /\ x \in Contents \cup {Empty} /\ side' = [side EXCEPT ![k] = [data |-> x, by |-> <<c, n>>]] =>
              /\ side' \in [Keys -> Sidecars \cup {None}]
              /\ side'[k] # None /\ side'[k].data = x /\ side'[k].by = <<c, n>>
              /\ \A j \in Keys : j # k => side'[j] = side[j]
<1> DEFINE r == [data |-> x, by |-> <<c, n>>]
<1>1. r.data = x /\ r.by = <<c, n>> /\ <<c, n>> \in Writes
  BY Records
<1>2. x \in Contents => r \in Binaries /\ r # None
  BY <1>1, Records, NoneIsNone
<1>3. x \in Contents \cup {Empty} => r \in Sidecars /\ r # None
  <2>1. CASE x \in Contents
    BY <1>1, <2>1, Records, NoneIsNone
  <2>2. CASE x = Empty
    <3>1. r = [data |-> Empty, by |-> <<c, n>>]
      BY <2>2
    <3>2. r \in Sidecars
      BY <1>1, <3>1, Records
    <3> QED BY <3>2, NoneIsNone
  <2> QED BY <2>1, <2>2
<1> HIDE DEF r
<1>4. x \in Contents /\ bin' = [bin EXCEPT ![k] = r] =>
              /\ bin' \in [Keys -> Binaries \cup {None}]
              /\ bin'[k] # None /\ bin'[k].data = x /\ bin'[k].by = <<c, n>>
              /\ \A j \in Keys : j # k => bin'[j] = bin[j]
  BY <1>1, <1>2 DEF TypeOK
<1>5. x \in Contents \cup {Empty} /\ side' = [side EXCEPT ![k] = r] =>
              /\ side' \in [Keys -> Sidecars \cup {None}]
              /\ side'[k] # None /\ side'[k].data = x /\ side'[k].by = <<c, n>>
              /\ \A j \in Keys : j # k => side'[j] = side[j]
  BY <1>1, <1>3 DEF TypeOK
<1> QED BY <1>4, <1>5 DEF r

\* What is taken apart has the type it should have.
LEMMA Fields ==
  /\ \A b \in Binaries : b.data \in Contents /\ b.by \in Writes
  /\ \A b \in Sidecars : b.data \in Contents \cup {Empty} /\ b.by \in Writes
  /\ \A e \in Entries : e.sha \in Contents /\ e.bin \in Writes /\ e.side \in Writes
BY DEF Binaries, Sidecars, Entries

\* A trusted source only vouches for archives, and for whole stubs.
LEMMA GenuineTyped == \A k \in Keys : Genuine(k) \subseteq Contents
BY SourceAssumption DEF Genuine, Contents

\* What there is has the fields it should have.
LEMMA Shapes ==
  ASSUME TypeOK
  PROVE  /\ \A k \in Keys : bin[k] # None => bin[k].data \in Contents /\ bin[k].by \in Writes
         /\ \A k \in Keys : side[k] # None =>
              side[k].data \in Contents \cup {Empty} /\ side[k].by \in Writes
         /\ \A p \in Processes, k \in Keys : memo[p][k] # None =>
              memo[p][k].sha \in Contents /\ memo[p][k].bin \in Writes /\ memo[p][k].side \in Writes
BY Fields DEF TypeOK

-----------------------------------------------------------------------------
(* What one step leaves of the invariant to everybody else *)

Grown == BinMade \subseteq BinMade' /\ SideMade \subseteq SideMade' /\ Succeeded \subseteq Succeeded'

\* A step leaves a file alone, or puts there a write that is new.
NewWrites ==
  /\ \A k \in Keys : bin'[k] = bin[k] \/ (bin'[k] # None /\ bin'[k].by \in Writes \ BinMade)
  /\ \A k \in Keys : side'[k] = side[k] \/ (side'[k] # None /\ side'[k].by \in Writes \ SideMade)

Stays(d) ==
  /\ pc'[d] = pc[d] /\ key'[d] = key[d] /\ seen'[d] = seen[d]
  /\ want'[d] = want[d] /\ out'[d] = out[d]

FilesStay(k) ==
  /\ bin'[k] = bin[k] /\ side'[k] = side[k]
  /\ \A d \in Unfinished : key[d] = k => d \in Unfinished'

Own(c) == Placed(c) /\ DigestInHand(c) /\ ReadsMatchStats(c) /\ StatsArePast(c)

\* Call c moves on to s, and nothing that was made is unmade.
Moved(c, s) ==
  /\ pc' \in [Calls -> Places] /\ pc'[c] = s
  /\ \A d \in Calls : d # c => pc'[d] = pc[d]
  /\ Grown
  /\ \A d \in Unfinished : d # c => d \in Unfinished'
  /\ pc[c] # "copying" \/ s # "rehash" => Unfinished \subseteq Unfinished'

\* What is done at a place is done for good: the places only lead on.
LEMMA Later ==
  ASSUME TypeOK, NEW c \in Calls, NEW s \in Places, pc' = [pc EXCEPT ![c] = s],
         pc[c] \notin Returned,
         pc[c] = "copying" => s \in {"rehash", "failed", "killed"},
         pc[c] = "rehash" => s \in {"truncside", "failed", "killed"},
         pc[c] = "truncside" => s \in {"writeside", "failed", "killed"},
         pc[c] = "writeside" => s \in Returned
  PROVE  Moved(c, s)
<1>1. /\ pc' \in [Calls -> Places] /\ pc'[c] = s
      /\ \A d \in Calls : d # c => pc'[d] = pc[d]
  BY DEF TypeOK
<1>2. BinMade \subseteq BinMade'
  BY <1>1, Records DEF BinMade, Returned, At
<1>3. SideMade \subseteq SideMade'
  BY <1>1, Records DEF SideMade, Returned, At
<1>4. Succeeded \subseteq Succeeded'
  BY <1>1 DEF Succeeded, Returned, At
<1>5. \A d \in Unfinished : d # c => d \in Unfinished'
  BY <1>1 DEF Unfinished
<1>6. pc[c] # "copying" \/ s # "rehash" => Unfinished \subseteq Unfinished'
  BY <1>1 DEF Unfinished, Returned
<1> QED BY <1>1, <1>2, <1>3, <1>4, <1>5, <1>6 DEF Moved, Grown

\* A step that writes nothing but new writes leaves a call that it does not move
\* with its part of the invariant: no stat it holds can be of a new write.
LEMMA OthersPart ==
  ASSUME TypeOK, IInv, NewWrites, Grown, NEW d \in Calls, Stays(d)
  PROVE  Own(d)'
<1>1. Own(d)
  BY DEF IInv, Own
<1>2. key[d] \in Keys \/ pc[d] \in {"start", "killed"}
  BY <1>1 DEF Own, Placed
<1>3. Placed(d)'
  BY <1>1, <1>2 DEF Own, Placed, Stays, NewWrites, Genuine, At
<1>4. DigestInHand(d)'
  BY <1>1 DEF Own, DigestInHand, Stays, Genuine
<1>5. StatsArePast(d)'
  BY <1>1 DEF Own, StatsArePast, Stays, Grown
<1>6. ReadsMatchStats(d)'
  BY <1>1, <1>2, NoneIsNone DEF Own, ReadsMatchStats, StatsArePast, Stays, NewWrites, At
<1> QED BY <1>3, <1>4, <1>5, <1>6 DEF Own

\* Nor can an entry of the memo be: it answers for the same files, or for none.
LEMMA MemoPart ==
  ASSUME IInv, NewWrites, Grown, NEW p \in Processes, NEW k \in Keys, memo'[p][k] = memo[p][k]
  PROVE  /\ MemoIsEarned(p, k)'
         /\ LET m == memo'[p][k]
            IN  m # None /\ bin'[k].by = m.bin /\ side'[k].by = m.side =>
                  Trusted(k)' /\ bin'[k].data = m.sha
<1>1. MemoIsEarned(p, k)
  BY DEF IInv
<1>2. MemoIsEarned(p, k)'
  BY <1>1 DEF MemoIsEarned, NewWrites, Grown, Genuine
<1> DEFINE m == memo[p][k]
<1>3. ASSUME m # None, bin'[k].by = m.bin, side'[k].by = m.side
      PROVE  bin'[k] = bin[k] /\ side'[k] = side[k]
  BY <1>1, <1>3 DEF MemoIsEarned, NewWrites
<1>4. m # None /\ bin[k].by = m.bin /\ side[k].by = m.side => Trusted(k) /\ bin[k].data = m.sha
  BY DEF IInv, MemoIsAWrapper
<1>5. ASSUME m # None, bin'[k].by = m.bin, side'[k].by = m.side
      PROVE  Trusted(k)' /\ bin'[k].data = m.sha
  BY <1>3, <1>4, <1>5 DEF Trusted
<1> QED BY <1>2, <1>5

\* A file that is left alone stays earned, its writer's success being final.
LEMMA FilesPart ==
  ASSUME TypeOK, IInv, Grown, NEW k \in Keys, FilesStay(k),
         \A d \in Calls : pc[d] # "start" => key'[d] = key[d]
  PROVE  BinIsGenuine(k)' /\ SideIsEarned(k)'
<1>1. \A w \in BinMade : w[1] \in Calls /\ pc[w[1]] # "start"
  BY Records DEF BinMade, Returned, At
<1>2. BinIsGenuine(k) /\ SideIsEarned(k)
  BY DEF IInv
<1>3. BinIsGenuine(k)'
  BY <1>1, <1>2 DEF BinIsGenuine, FilesStay, Grown, Genuine
<1>4. SideIsEarned(k)'
  BY <1>2 DEF SideIsEarned, FilesStay, Grown
<1> QED BY <1>3, <1>4

\* The local variables of the other calls, and after Begin the key of c.
OthersStay(c) ==
  /\ \A d \in Calls : d # c =>
       /\ key'[d] = key[d] /\ seen'[d] = seen[d] /\ want'[d] = want[d] /\ out'[d] = out[d]
  /\ pc[c] = "start" \/ key'[c] = key[c]

\* The parts put together, for a step of c that leaves the memo alone and may
\* write the files of the key it resolves ...
LEMMA WriteKeeps ==
  ASSUME TypeOK, IInv, NEW c \in Calls, NEW s, Moved(c, s), OthersStay(c), Own(c)',
         memo' = memo, NewWrites,
         \A k \in Keys : FilesStay(k) \/ (BinIsGenuine(k)' /\ SideIsEarned(k)')
  PROVE  IInv'
<1>1. Grown /\ \A d \in Calls : d # c => Stays(d)
  BY DEF Moved, OthersStay, Stays
<1>2. \A d \in Calls : Own(d)'
  BY <1>1, OthersPart
<1>3. \A d \in Calls : pc[d] # "start" => key'[d] = key[d]
  BY DEF OthersStay
<1>4. \A k \in Keys : BinIsGenuine(k)' /\ SideIsEarned(k)'
  BY <1>1, <1>3, FilesPart
<1>5. \A p \in Processes, k \in Keys : MemoIsEarned(p, k)'
  BY <1>1, MemoPart
<1>6. MemoIsAWrapper'
  BY <1>1, MemoPart DEF MemoIsAWrapper
<1> QED BY <1>2, <1>4, <1>5, <1>6 DEF IInv, Own

\* ... and for one that leaves the files alone as well.
LEMMA QuietKeeps ==
  ASSUME TypeOK, IInv, NEW c \in Calls, NEW s, Moved(c, s), OthersStay(c), Own(c)',
         UNCHANGED <<bin, side, memo>>, pc[c] # "copying" \/ s # "rehash"
  PROVE  IInv'
<1>1. NewWrites
  BY DEF NewWrites
<1>2. \A k \in Keys : FilesStay(k)
  BY DEF Moved, FilesStay
<1> QED BY <1>1, <1>2, WriteKeeps

-----------------------------------------------------------------------------
(* One lemma per action *)

\* A call takes its key before it writes anything.
LEMMA BeginKeeps ==
  ASSUME TypeOK, IInv, NEW c \in Calls, Begin(c)
  PROVE  TypeOK' /\ IInv'
<1>1. Own(c) /\ pc[c] = "start"
  BY DEF Begin, At, IInv, Own
<1>2. Moved(c, "stat")
  BY <1>1, Later DEF Begin, Goto, Places, Returned
<1>3. UNCHANGED <<seen, want, out, read, bin, side, pins, memo, pinned>>
  BY DEF Begin, local, disk
<1>4. /\ key'[c] \in Keys
      /\ \A d \in Calls : d # c => key'[d] = key[d]
  BY <1>2, <1>1 DEF Begin, At, Goto, TypeOK
<1>5. key' \in [Calls -> Keys \cup {None}]
  BY <1>1, <1>4 DEF Begin, At, Goto, TypeOK
<1>6. TypeOK'
  BY <1>2, <1>3, <1>5 DEF TypeOK, Moved
<1>7. Own(c)'
  <2>1. Placed(c)'
    BY <1>1, <1>2, <1>3, <1>4 DEF Begin, At, Goto, Moved, Own, Placed, Genuine
  <2>2. DigestInHand(c)'
    BY <1>2 DEF Moved, DigestInHand
  <2>3. ReadsMatchStats(c)'
    BY <1>2 DEF Moved, ReadsMatchStats, At
  <2>4. StatsArePast(c)'
    BY <1>1, <1>2, <1>3 DEF Moved, Own, StatsArePast, Grown
  <2> QED BY <2>1, <2>2, <2>3, <2>4 DEF Own
<1>8. OthersStay(c)
  BY <1>1, <1>3, <1>4 DEF OthersStay
<1> QED BY <1>1, <1>2, <1>3, <1>6, <1>7, <1>8, QuietKeeps

\* The stat shows a write that has been made.
LEMMA StatBinaryKeeps ==
  ASSUME TypeOK, IInv, NEW c \in Calls, StatBinary(c)
  PROVE  TypeOK' /\ IInv'
<1>1. Own(c) /\ pc[c] = "stat" /\ key[c] \in Keys
  BY DEF StatBinary, At, IInv, Own, Placed
<1>2. PICK s \in {"statside", "compile", "failed", "download"} : pc' = [pc EXCEPT ![c] = s]
  BY <1>1 DEF StatBinary, At, Goto, Missed
<1>3. Moved(c, s)
  BY <1>1, <1>2, Later DEF Places, Returned
<1>4. UNCHANGED <<key, want, out, read, bin, side, pins, memo, pinned>>
  BY DEF StatBinary, local, disk
<1>5. bin[key[c]] # None => bin[key[c]].by \in Writes \cap BinMade /\ bin[key[c]].by # None
  BY <1>1, Shapes, NoneIsNone DEF IInv, BinIsGenuine
<1>6. seen' = IF s = "statside" THEN [seen EXCEPT ![c].bin = bin[key[c]].by] ELSE seen
  BY <1>2, <1>3, <1>1, <1>5 DEF StatBinary, At, Goto, Missed, Moved
<1>7. s = "statside" <=> bin[key[c]] # None
  BY <1>2, <1>3, <1>1, <1>5 DEF StatBinary, At, Goto, Missed, Moved
<1>8. /\ seen' \in [Calls -> Stats] /\ \A d \in Calls : d # c => seen'[d] = seen[d]
      /\ IF s = "statside" THEN seen'[c].bin = bin[key[c]].by /\ seen'[c].side = seen[c].side
         ELSE seen'[c] = seen[c]
  <2>1. seen \in [Calls -> Stats]
    BY DEF TypeOK
  <2>2. CASE s = "statside"
    <3>1. bin[key[c]].by \in Writes /\ seen' = [seen EXCEPT ![c].bin = bin[key[c]].by]
      BY <2>2, <1>6, <1>7, <1>5
    <3> QED BY <2>1, <2>2, <3>1, StatsWith
  <2>3. CASE s # "statside"
    BY <2>1, <2>3, <1>6
  <2> QED BY <2>2, <2>3
<1>9. TypeOK'
  BY <1>3, <1>4, <1>8 DEF TypeOK, Moved
<1>10. Own(c)'
  <2>1. Placed(c)'
    BY <1>1, <1>2, <1>3, <1>4, <1>5, <1>8, <1>7 DEF StatBinary, At, Goto, Missed, Moved, Own,
       Placed, Genuine
  <2>2. DigestInHand(c)'
    BY <1>3 DEF Moved, DigestInHand
  <2>3. ReadsMatchStats(c)'
    BY <1>3 DEF Moved, ReadsMatchStats, At
  <2>4. StatsArePast(c)'
    BY <1>1, <1>3, <1>4, <1>5, <1>8, <1>7 DEF Moved, Own, StatsArePast, Grown
  <2> QED BY <2>1, <2>2, <2>3, <2>4 DEF Own
<1>11. OthersStay(c)
  BY <1>1, <1>4, <1>8, <1>7 DEF OthersStay
<1> QED BY <1>1, <1>2, <1>3, <1>4, <1>9, <1>10, <1>11, QuietKeeps

\* A memo entry, if it answers, has a genuine digest.
LEMMA StatSidecarKeeps ==
  ASSUME TypeOK, IInv, NEW c \in Calls, StatSidecar(c)
  PROVE  TypeOK' /\ IInv'
<1>1. Own(c) /\ pc[c] = "statside" /\ key[c] \in Keys
  BY DEF StatSidecar, At, IInv, Own, Placed
<1>2. PICK s \in {"compile", "failed", "download", "ok", "verify"} : pc' = [pc EXCEPT ![c] = s]
  BY <1>1 DEF StatSidecar, At, Goto, Missed, Remembered
<1>3. Moved(c, s)
  BY <1>1, <1>2, Later DEF Places, Returned
<1>4. UNCHANGED <<key, want, read, bin, side, pins, memo, pinned>>
  BY DEF StatSidecar, local, disk
<1>5. memo[process[c]][key[c]] # None =>
      /\ memo[process[c]][key[c]].sha \in Contents
      /\ key[c] \notin Stubs => memo[process[c]][key[c]].sha \in Genuine(key[c])
  BY <1>1, CallAssumption, Shapes DEF IInv, MemoIsEarned
<1>6. side[key[c]] # None => side[key[c]].by \in Writes \cap SideMade /\ side[key[c]].by # None
  BY <1>1, Shapes, NoneIsNone DEF IInv, SideIsEarned
<1>7. seen' = IF s = "verify" THEN [seen EXCEPT ![c].side = side[key[c]].by] ELSE seen
  BY <1>2, <1>3, <1>1, <1>5, <1>6 DEF StatSidecar, At, Goto, Missed, Remembered, Moved
<1>8. s = "verify" => side[key[c]] # None
  BY <1>2, <1>3, <1>1, <1>5, <1>6 DEF StatSidecar, At, Goto, Missed, Remembered, Moved
<1>9. /\ seen' \in [Calls -> Stats] /\ \A d \in Calls : d # c => seen'[d] = seen[d]
      /\ IF s = "verify" THEN seen'[c].side = side[key[c]].by /\ seen'[c].bin = seen[c].bin
         ELSE seen'[c] = seen[c]
  <2>1. seen \in [Calls -> Stats]
    BY DEF TypeOK
  <2>2. CASE s = "verify"
    <3>1. side[key[c]].by \in Writes /\ seen' = [seen EXCEPT ![c].side = side[key[c]].by]
      BY <2>2, <1>7, <1>8, <1>6
    <3> QED BY <2>1, <2>2, <3>1, StatsWith
  <2>3. CASE s # "verify"
    BY <2>1, <2>3, <1>7
  <2> QED BY <2>2, <2>3
<1>10. /\ IF s = "ok"
          THEN memo[process[c]][key[c]] # None /\ out'[c] = memo[process[c]][key[c]].sha
          ELSE out'[c] = out[c]
      /\ \A d \in Calls : d # c => out'[d] = out[d]
  BY <1>2, <1>3, <1>1, <1>5, <1>6 DEF StatSidecar, At, Goto, Missed, Remembered, TypeOK
<1>11. out' \in [Calls -> Contents \cup {None}]
  BY <1>1, <1>5, <1>6, <1>9, <1>8, <1>10, CallAssumption, Shapes DEF StatSidecar, At, Goto,
     Missed, Remembered, TypeOK
<1>12. TypeOK'
  BY <1>3, <1>4, <1>9, <1>11 DEF TypeOK, Moved
<1>13. Own(c)'
  <2>1. Placed(c)'
    BY <1>1, <1>2, <1>3, <1>4, <1>5, <1>6, <1>9, <1>8, <1>10 DEF StatSidecar, At, Goto, Missed,
       Remembered, Moved, Own, Placed, Genuine
  <2>2. DigestInHand(c)'
    BY <1>1, <1>3, <1>4, <1>5, <1>6, <1>9, <1>8, <1>10 DEF StatSidecar, At, Goto, Missed,
       Remembered, Moved, Own, DigestInHand, Genuine
  <2>3. ReadsMatchStats(c)'
    BY <1>3 DEF Moved, ReadsMatchStats, At
  <2>4. StatsArePast(c)'
    BY <1>1, <1>3, <1>4, <1>5, <1>6, <1>9, <1>8, <1>10 DEF Moved, Own, StatsArePast, Grown
  <2> QED BY <2>1, <2>2, <2>3, <2>4 DEF Own
<1>14. OthersStay(c)
  BY <1>1, <1>4, <1>9, <1>8, <1>10 DEF OthersStay
<1> QED BY <1>1, <1>2, <1>3, <1>4, <1>12, <1>13, <1>14, QuietKeeps

\* What is read is what the sidecar with the stat of the moment holds.
LEMMA ReadSidecarKeeps ==
  ASSUME TypeOK, IInv, NEW c \in Calls, ReadSidecar(c)
  PROVE  TypeOK' /\ IInv'
<1>1. Own(c) /\ pc[c] = "verify" /\ key[c] \in Keys /\ side[key[c]] # None
  BY DEF ReadSidecar, At, IInv, Own, Placed
<1>2. Moved(c, "hash")
  BY <1>1, Later DEF ReadSidecar, Goto, Places, Returned
<1>3. UNCHANGED <<key, seen, out, read, bin, side, pins, memo, pinned>>
  BY DEF ReadSidecar, local, disk
<1>4. /\ want'[c] = side[key[c]].data
      /\ \A d \in Calls : d # c => want'[d] = want[d]
  BY <1>2, <1>1 DEF ReadSidecar, At, Goto, TypeOK
<1>5. want' \in [Calls -> Contents \cup {Empty, None}]
  BY <1>1, <1>4, Shapes DEF ReadSidecar, At, Goto, TypeOK
<1>6. TypeOK'
  BY <1>2, <1>3, <1>5 DEF TypeOK, Moved
<1>7. Own(c)'
  <2>1. Placed(c)'
    BY <1>1, <1>2, <1>3, <1>4 DEF ReadSidecar, At, Goto, Moved, Own, Placed, Genuine
  <2>2. DigestInHand(c)'
    BY <1>2 DEF Moved, DigestInHand
  <2>3. ReadsMatchStats(c)'
    BY <1>1, <1>2, <1>3, <1>4 DEF ReadSidecar, At, Goto, Moved, Own, ReadsMatchStats
  <2>4. StatsArePast(c)'
    BY <1>1, <1>2, <1>3 DEF Moved, Own, StatsArePast, Grown
  <2> QED BY <2>1, <2>2, <2>3, <2>4 DEF Own
<1>8. OthersStay(c)
  BY <1>1, <1>3, <1>4 DEF OthersStay
<1> QED BY <1>1, <1>2, <1>3, <1>6, <1>7, <1>8, QuietKeeps

\* A binary that matches its sidecar is the one the digest in hand is of.
LEMMA HashCachedKeeps ==
  ASSUME TypeOK, IInv, NEW c \in Calls, HashCached(c)
  PROVE  TypeOK' /\ IInv'
<1>1. Own(c) /\ pc[c] = "hash" /\ key[c] \in Keys /\ bin[key[c]] # None
  BY DEF HashCached, At, IInv, Own, Placed
<1>2. PICK s \in {"restat", "compile", "failed", "download"} : pc' = [pc EXCEPT ![c] = s]
  BY <1>1 DEF HashCached, At, Goto, Missed
<1>3. Moved(c, s)
  BY <1>1, <1>2, Later DEF Places, Returned
<1>4. UNCHANGED <<key, seen, want, read, bin, side, pins, memo, pinned>>
  BY DEF HashCached, local, disk
<1>5. /\ bin[key[c]].data \in Contents
      /\ key[c] \notin Stubs => bin[key[c]].data \in Genuine(key[c])
  BY <1>1, Shapes DEF IInv, BinIsGenuine
<1>6. /\ IF s = "restat" THEN bin[key[c]].data = want[c] /\ out'[c] = bin[key[c]].data
         ELSE out'[c] = out[c]
      /\ \A d \in Calls : d # c => out'[d] = out[d]
  BY <1>2, <1>3, <1>1, <1>5 DEF HashCached, At, Goto, Missed, TypeOK
<1>7. out' \in [Calls -> Contents \cup {None}]
  BY <1>1, <1>5, <1>6, Shapes DEF HashCached, At, Goto, Missed, TypeOK
<1>8. TypeOK'
  BY <1>3, <1>4, <1>7 DEF TypeOK, Moved
<1>9. Own(c)'
  <2>1. Placed(c)'
    BY <1>1, <1>2, <1>3, <1>4, <1>5, <1>6 DEF HashCached, At, Goto, Missed, Moved, Own, Placed,
       Genuine
  <2>2. DigestInHand(c)'
    BY <1>1, <1>3, <1>4, <1>5, <1>6 DEF HashCached, At, Goto, Missed, Moved, Own, DigestInHand,
       Genuine
  <2>3. ReadsMatchStats(c)'
    BY <1>1, <1>2, <1>3, <1>4, <1>5, <1>6 DEF HashCached, At, Goto, Missed, Moved, Own,
       ReadsMatchStats
  <2>4. StatsArePast(c)'
    BY <1>1, <1>3, <1>4 DEF Moved, Own, StatsArePast, Grown
  <2> QED BY <2>1, <2>2, <2>3, <2>4 DEF Own
<1>10. OthersStay(c)
  BY <1>1, <1>4, <1>6 DEF OthersStay
<1> QED BY <1>1, <1>2, <1>3, <1>4, <1>8, <1>9, <1>10, QuietKeeps

\* A changed binary ends the call without an entry in the memo.
LEMMA RestatBinaryKeeps ==
  ASSUME TypeOK, IInv, NEW c \in Calls, RestatBinary(c)
  PROVE  TypeOK' /\ IInv'
<1>1. Own(c) /\ pc[c] = "restat" /\ key[c] \in Keys
  BY DEF RestatBinary, At, IInv, Own, Placed
<1>2. PICK s \in {"restatside", "ok"} : pc' = [pc EXCEPT ![c] = s]
  BY <1>1 DEF RestatBinary, At, Goto
<1>3. Moved(c, s)
  BY <1>1, <1>2, Later DEF Places, Returned
<1>4. UNCHANGED <<key, seen, want, out, read, bin, side, pins, memo, pinned>>
  BY DEF RestatBinary, local, disk
<1>5. TypeOK'
  BY <1>3, <1>4 DEF TypeOK, Moved
<1>6. Own(c)'
  <2>1. Placed(c)'
    BY <1>1, <1>2, <1>3, <1>4 DEF RestatBinary, At, Goto, Moved, Own, Placed, Genuine
  <2>2. DigestInHand(c)'
    BY <1>1, <1>3, <1>4 DEF RestatBinary, At, Goto, Moved, Own, DigestInHand, Genuine
  <2>3. ReadsMatchStats(c)'
    BY <1>1, <1>2, <1>3, <1>4 DEF RestatBinary, At, Goto, Moved, Own, ReadsMatchStats
  <2>4. StatsArePast(c)'
    BY <1>1, <1>3, <1>4 DEF Moved, Own, StatsArePast, Grown
  <2> QED BY <2>1, <2>2, <2>3, <2>4 DEF Own
<1>7. OthersStay(c)
  BY <1>1, <1>4 DEF OthersStay
<1> QED BY <1>1, <1>2, <1>3, <1>4, <1>5, <1>6, <1>7, QuietKeeps

\* A compiled-in checksum is genuine by definition.
LEMMA DownloadKeeps ==
  ASSUME TypeOK, IInv, NEW c \in Calls, Download(c)
  PROVE  TypeOK' /\ IInv'
<1>1. Own(c) /\ pc[c] = "download" /\ key[c] \in Keys /\ key[c] \notin Stubs
  BY DEF Download, At, IInv, Own, Placed
<1>2. PICK s \in {"checksum", "manifest"} : pc' = [pc EXCEPT ![c] = s]
  BY <1>1 DEF Download, At, Goto
<1>3. Moved(c, s)
  BY <1>1, <1>2, Later DEF Places, Returned
<1>4. UNCHANGED <<key, seen, read, bin, side, pins, memo, pinned>>
  BY DEF Download, local, disk
<1>5. /\ out'[c] \in Contents
      /\ \A d \in Calls : d # c => out'[d] = out[d]
  BY <1>2, <1>3, <1>1 DEF Download, At, Goto, TypeOK, Contents
<1>6. out' \in [Calls -> Contents \cup {None}]
  BY <1>1, <1>5 DEF Download, At, Goto, TypeOK, Contents
<1>7. /\ want'[c] = Compiled[key[c]]
      /\ \A d \in Calls : d # c => want'[d] = want[d]
  BY <1>2, <1>3, <1>1 DEF Download, At, Goto, TypeOK
<1>8. want' \in [Calls -> Contents \cup {Empty, None}]
  BY <1>1, <1>5, <1>7, SourceAssumption DEF Download, At, Goto, TypeOK, Contents
<1>9. TypeOK'
  BY <1>3, <1>4, <1>6, <1>8 DEF TypeOK, Moved
<1>10. Own(c)'
  <2>1. Placed(c)'
    BY <1>1, <1>2, <1>3, <1>4, <1>5, <1>7 DEF Download, At, Goto, Moved, Own, Placed, Genuine
  <2>2. DigestInHand(c)'
    BY <1>3 DEF Moved, DigestInHand
  <2>3. ReadsMatchStats(c)'
    BY <1>3 DEF Moved, ReadsMatchStats, At
  <2>4. StatsArePast(c)'
    BY <1>1, <1>3, <1>4 DEF Moved, Own, StatsArePast, Grown
  <2> QED BY <2>1, <2>2, <2>3, <2>4 DEF Own
<1>11. OthersStay(c)
  BY <1>1, <1>4, <1>5, <1>7 DEF OthersStay
<1> QED BY <1>1, <1>2, <1>3, <1>4, <1>9, <1>10, <1>11, QuietKeeps

\* So is what a signed manifest lists, for a key without one.
LEMMA ManifestKeeps ==
  ASSUME TypeOK, IInv, NEW c \in Calls, Manifest(c)
  PROVE  TypeOK' /\ IInv'
<1>1. Own(c) /\ pc[c] = "manifest" /\ key[c] \in Keys
  BY DEF Manifest, At, IInv, Own, Placed
<1>2. Moved(c, "readpins")
  BY <1>1, Later DEF Manifest, Goto, Places, Returned
<1>3. UNCHANGED <<key, seen, out, read, bin, side, pins, memo, pinned>>
  BY DEF Manifest, local, disk
<1>4. /\ want'[c] \in Signed[key[c]]
      /\ \A d \in Calls : d # c => want'[d] = want[d]
  BY <1>2, <1>1 DEF Manifest, At, Goto, TypeOK
<1>5. want' \in [Calls -> Contents \cup {Empty, None}]
  BY <1>1, <1>4, SourceAssumption DEF Manifest, At, Goto, TypeOK, Contents
<1>6. TypeOK'
  BY <1>2, <1>3, <1>5 DEF TypeOK, Moved
<1>7. Own(c)'
  <2>1. Placed(c)'
    BY <1>1, <1>2, <1>3, <1>4 DEF Manifest, At, Goto, Moved, Own, Placed, Genuine
  <2>2. DigestInHand(c)'
    BY <1>2 DEF Moved, DigestInHand
  <2>3. ReadsMatchStats(c)'
    BY <1>2 DEF Moved, ReadsMatchStats, At
  <2>4. StatsArePast(c)'
    BY <1>1, <1>2, <1>3 DEF Moved, Own, StatsArePast, Grown
  <2> QED BY <2>1, <2>2, <2>3, <2>4 DEF Own
<1>8. OthersStay(c)
  BY <1>1, <1>3, <1>4 DEF OthersStay
<1> QED BY <1>1, <1>2, <1>3, <1>6, <1>7, <1>8, QuietKeeps

\* The pin store decides about the call and about no file.
LEMMA ReadPinsKeeps ==
  ASSUME TypeOK, IInv, NEW c \in Calls, ReadPins(c)
  PROVE  TypeOK' /\ IInv'
<1>1. Own(c) /\ pc[c] = "readpins" /\ key[c] \in Keys
  BY DEF ReadPins, At, IInv, Own, Placed
<1>2. PICK s \in {"truncpins", "checksum", "failed"} : pc' = [pc EXCEPT ![c] = s]
  BY <1>1 DEF ReadPins, At, Goto
<1>3. Moved(c, s)
  BY <1>1, <1>2, Later DEF Places, Returned
<1>4. UNCHANGED <<key, seen, want, out, bin, side, pins, memo, pinned>>
  BY DEF ReadPins, local, disk
<1>5. read' \in [Calls -> SUBSET (Keys \X Archives)]
  BY <1>1 DEF ReadPins, At, Goto, TypeOK
<1>6. TypeOK'
  BY <1>3, <1>4, <1>5 DEF TypeOK, Moved
<1>7. Own(c)'
  <2>1. Placed(c)'
    BY <1>1, <1>2, <1>3, <1>4 DEF ReadPins, At, Goto, Moved, Own, Placed, Genuine
  <2>2. DigestInHand(c)'
    BY <1>3 DEF Moved, DigestInHand
  <2>3. ReadsMatchStats(c)'
    BY <1>3 DEF Moved, ReadsMatchStats, At
  <2>4. StatsArePast(c)'
    BY <1>1, <1>3, <1>4 DEF Moved, Own, StatsArePast, Grown
  <2> QED BY <2>1, <2>2, <2>3, <2>4 DEF Own
<1>8. OthersStay(c)
  BY <1>1, <1>4 DEF OthersStay
<1> QED BY <1>1, <1>2, <1>3, <1>4, <1>6, <1>7, <1>8, QuietKeeps

\* Nor does its truncation touch the cache ...
LEMMA TruncatePinsKeeps ==
  ASSUME TypeOK, IInv, NEW c \in Calls, TruncatePins(c)
  PROVE  TypeOK' /\ IInv'
<1>1. Own(c) /\ pc[c] = "truncpins" /\ key[c] \in Keys
  BY DEF TruncatePins, At, IInv, Own, Placed
<1>2. PICK s \in {"writepins", "checksum"} : pc' = [pc EXCEPT ![c] = s]
  BY <1>1 DEF TruncatePins, At, Goto
<1>3. Moved(c, s)
  BY <1>1, <1>2, Later DEF Places, Returned
<1>4. UNCHANGED <<key, seen, want, out, read, bin, side, memo, pinned>>
  BY DEF TruncatePins, local, disk
<1>5. pins' \in (SUBSET (Keys \X Archives)) \cup {Bad}
  BY <1>1 DEF TruncatePins, At, Goto, TypeOK
<1>6. TypeOK'
  BY <1>3, <1>4, <1>5 DEF TypeOK, Moved
<1>7. Own(c)'
  <2>1. Placed(c)'
    BY <1>1, <1>2, <1>3, <1>4 DEF TruncatePins, At, Goto, Moved, Own, Placed, Genuine
  <2>2. DigestInHand(c)'
    BY <1>3 DEF Moved, DigestInHand
  <2>3. ReadsMatchStats(c)'
    BY <1>3 DEF Moved, ReadsMatchStats, At
  <2>4. StatsArePast(c)'
    BY <1>1, <1>3, <1>4 DEF Moved, Own, StatsArePast, Grown
  <2> QED BY <2>1, <2>2, <2>3, <2>4 DEF Own
<1>8. OthersStay(c)
  BY <1>1, <1>4 DEF OthersStay
<1> QED BY <1>1, <1>2, <1>3, <1>4, <1>6, <1>7, <1>8, QuietKeeps

\* ... or the write of the new pin.
LEMMA WritePinsKeeps ==
  ASSUME TypeOK, IInv, NEW c \in Calls, WritePins(c)
  PROVE  TypeOK' /\ IInv'
<1>1. Own(c) /\ pc[c] = "writepins" /\ key[c] \in Keys /\ want[c] \in Signed[key[c]]
  BY DEF WritePins, At, IInv, Own, Placed
<1>2. Moved(c, "checksum")
  BY <1>1, Later DEF WritePins, Goto, Places, Returned
<1>3. UNCHANGED <<key, seen, want, out, read, bin, side, memo>>
  BY DEF WritePins, local, disk
<1>4. pins' \in (SUBSET (Keys \X Archives)) \cup {Bad}
  BY <1>1, SourceAssumption DEF WritePins, At, Goto, TypeOK
<1>5. pinned' \subseteq Keys
  BY <1>1 DEF WritePins, At, Goto, TypeOK
<1>6. TypeOK'
  BY <1>2, <1>3, <1>4, <1>5 DEF TypeOK, Moved
<1>7. Own(c)'
  <2>1. Placed(c)'
    BY <1>1, <1>2, <1>3 DEF WritePins, At, Goto, Moved, Own, Placed, Genuine
  <2>2. DigestInHand(c)'
    BY <1>2 DEF Moved, DigestInHand
  <2>3. ReadsMatchStats(c)'
    BY <1>2 DEF Moved, ReadsMatchStats, At
  <2>4. StatsArePast(c)'
    BY <1>1, <1>2, <1>3 DEF Moved, Own, StatsArePast, Grown
  <2> QED BY <2>1, <2>2, <2>3, <2>4 DEF Own
<1>8. OthersStay(c)
  BY <1>1, <1>3 DEF OthersStay
<1> QED BY <1>1, <1>2, <1>3, <1>6, <1>7, <1>8, QuietKeeps

\* An archive that matches its checksum is genuine.
LEMMA ExtractKeeps ==
  ASSUME TypeOK, IInv, NEW c \in Calls, Extract(c)
  PROVE  TypeOK' /\ IInv'
<1>1. Own(c) /\ pc[c] = "checksum" /\ key[c] \in Keys /\ want[c] \in Genuine(key[c])
  BY DEF Extract, At, IInv, Own, Placed
<1>2. PICK s \in {"rehash", "failed"} : pc' = [pc EXCEPT ![c] = s]
  BY <1>1 DEF Extract, At, Goto
<1>3. Moved(c, s)
  BY <1>1, <1>2, Later DEF Places, Returned
<1>4. UNCHANGED <<key, seen, want, out, read, side, pins, memo, pinned>>
  BY DEF Extract, local, disk
<1>5. IF s = "rehash"
      THEN /\ out[c] \in Genuine(key[c]) /\ out[c] \in Contents
           /\ bin' = [bin EXCEPT ![key[c]] = [data |-> out[c], by |-> <<c, 1>>]]
      ELSE bin' = bin
  BY <1>2, <1>3, <1>1, GenuineTyped DEF Extract, At, Goto, TypeOK
<1>6. IF s = "rehash"
      THEN /\ bin' \in [Keys -> Binaries \cup {None}] /\ out[c] \in Genuine(key[c])
           /\ bin'[key[c]] # None /\ bin'[key[c]].data = out[c] /\ bin'[key[c]].by = <<c, 1>>
           /\ \A k \in Keys : k # key[c] => bin'[k] = bin[k]
      ELSE bin' = bin
  BY <1>5, <1>1, Written
<1>7. TypeOK'
  BY <1>3, <1>4, <1>6 DEF TypeOK, Moved
<1>8. Own(c)'
  <2>1. Placed(c)'
    BY <1>1, <1>2, <1>3, <1>4, <1>6 DEF Extract, At, Goto, Moved, Own, Placed, Genuine
  <2>2. DigestInHand(c)'
    BY <1>3 DEF Moved, DigestInHand
  <2>3. ReadsMatchStats(c)'
    BY <1>3 DEF Moved, ReadsMatchStats, At
  <2>4. StatsArePast(c)'
    BY <1>1, <1>3, <1>4 DEF Moved, Own, StatsArePast, Grown
  <2> QED BY <2>1, <2>2, <2>3, <2>4 DEF Own
<1>9. OthersStay(c)
  BY <1>1, <1>4 DEF OthersStay
<1>10. <<c, 1>> \in Writes /\ <<c, 1>>[1] = c /\ <<c, 1>>[2] = 1
  BY Records
<1>11. <<c, 1>> \notin BinMade /\ (s = "rehash" => <<c, 1>> \in BinMade')
  BY <1>1, <1>2, <1>3, <1>10 DEF BinMade, Moved, Returned, At
<1>12. NewWrites
  BY <1>4, <1>6, <1>10, <1>11 DEF NewWrites
<1>13. \A k \in Keys : FilesStay(k) \/ (BinIsGenuine(k)' /\ SideIsEarned(k)')
  <2>1. \A k \in Keys : FilesStay(k) \/ k = key[c]
    BY <1>1, <1>4, <1>3, <1>6 DEF FilesStay, Moved
  <2>2. ASSUME NEW k \in Keys, k = key[c] PROVE BinIsGenuine(k)'
    BY <2>2, <1>1, <1>2, <1>3, <1>4, <1>6, <1>10, <1>11 DEF IInv, BinIsGenuine, Unfinished, Moved,
       Grown, Genuine
  <2>3. ASSUME NEW k \in Keys, k = key[c] PROVE SideIsEarned(k)'
    BY <2>3, <1>1, <1>3, <1>4, <1>6, <1>10, <1>11 DEF IInv, SideIsEarned, Succeeded, Moved, Grown,
       At
  <2> QED BY <2>1, <2>2, <2>3
<1> QED BY <1>7, <1>3, <1>4, <1>8, <1>9, <1>12, <1>13, WriteKeeps

\* A torn stub is there only while its copier is at work.
LEMMA CompileKeeps ==
  ASSUME TypeOK, IInv, NEW c \in Calls, Compile(c)
  PROVE  TypeOK' /\ IInv'
<1>1. Own(c) /\ pc[c] = "compile" /\ key[c] \in Keys /\ key[c] \in Stubs
  BY DEF Compile, At, IInv, Own, Placed
<1>2. PICK s \in {"copying", "rehash"} : pc' = [pc EXCEPT ![c] = s]
  BY <1>1 DEF Compile, At, Goto
<1>3. Moved(c, s)
  BY <1>1, <1>2, Later DEF Places, Returned
<1>4. UNCHANGED <<key, seen, want, out, read, side, pins, memo, pinned>>
  BY DEF Compile, local, disk
<1>5. /\ (IF CrossDevice THEN Torn ELSE Whole) \in Contents
      /\ bin' = [bin EXCEPT ![key[c]] =
                   [data |-> IF CrossDevice THEN Torn ELSE Whole, by |-> <<c, 1>>]]
      /\ s = "copying" <=> CrossDevice
  BY <1>2, <1>3, <1>1, CallAssumption DEF Compile, At, Goto, TypeOK, Contents
<1>6. /\ bin' \in [Keys -> Binaries \cup {None}]
      /\ bin'[key[c]] # None /\ bin'[key[c]].by = <<c, 1>>
      /\ bin'[key[c]].data = (IF CrossDevice THEN Torn ELSE Whole)
      /\ \A k \in Keys : k # key[c] => bin'[k] = bin[k]
  BY <1>5, <1>1, Written
<1>7. TypeOK'
  BY <1>3, <1>4, <1>6 DEF TypeOK, Moved
<1>8. Own(c)'
  <2>1. Placed(c)'
    BY <1>1, <1>2, <1>3, <1>4, <1>6, <1>5 DEF Compile, At, Goto, Moved, Own, Placed, Genuine
  <2>2. DigestInHand(c)'
    BY <1>3 DEF Moved, DigestInHand
  <2>3. ReadsMatchStats(c)'
    BY <1>3 DEF Moved, ReadsMatchStats, At
  <2>4. StatsArePast(c)'
    BY <1>1, <1>3, <1>4 DEF Moved, Own, StatsArePast, Grown
  <2> QED BY <2>1, <2>2, <2>3, <2>4 DEF Own
<1>9. OthersStay(c)
  BY <1>1, <1>4 DEF OthersStay
<1>10. <<c, 1>> \in Writes /\ <<c, 1>>[1] = c /\ <<c, 1>>[2] = 1
  BY Records
<1>11. <<c, 1>> \notin BinMade /\ <<c, 1>> \in BinMade'
  BY <1>1, <1>2, <1>3, <1>10 DEF BinMade, Moved, Returned, At
<1>12. NewWrites
  BY <1>4, <1>6, <1>5, <1>10, <1>11 DEF NewWrites
<1>13. \A k \in Keys : FilesStay(k) \/ (BinIsGenuine(k)' /\ SideIsEarned(k)')
  <2>1. \A k \in Keys : FilesStay(k) \/ k = key[c]
    BY <1>1, <1>4, <1>3, <1>6, <1>5 DEF FilesStay, Moved
  <2>2. ASSUME NEW k \in Keys, k = key[c] PROVE BinIsGenuine(k)'
    BY <2>2, <1>1, <1>2, <1>3, <1>4, <1>6, <1>5, <1>10, <1>11 DEF IInv, BinIsGenuine, Unfinished,
       Moved, Grown, Genuine
  <2>3. ASSUME NEW k \in Keys, k = key[c] PROVE SideIsEarned(k)'
    BY <2>3, <1>1, <1>3, <1>4, <1>6, <1>5, <1>10, <1>11 DEF IInv, SideIsEarned, Succeeded, Moved,
       Grown, At
  <2> QED BY <2>1, <2>2, <2>3
<1> QED BY <1>7, <1>3, <1>4, <1>8, <1>9, <1>12, <1>13, WriteKeeps

\* The copier that finishes leaves a whole stub.
LEMMA CopyKeeps ==
  ASSUME TypeOK, IInv, NEW c \in Calls, Copy(c)
  PROVE  TypeOK' /\ IInv'
<1>1. Own(c) /\ pc[c] = "copying" /\ key[c] \in Keys /\ key[c] \in Stubs
  BY DEF Copy, At, IInv, Own, Placed
<1>2. Moved(c, "rehash")
  BY <1>1, Later DEF Copy, Goto, Places, Returned
<1>3. UNCHANGED <<key, seen, want, out, read, side, pins, memo, pinned>>
  BY DEF Copy, local, disk
<1>4. Whole \in Contents /\ bin' = [bin EXCEPT ![key[c]] = [data |-> Whole, by |-> <<c, 2>>]]
  BY <1>2, <1>1 DEF Copy, At, Goto, TypeOK, Contents
<1>5. /\ bin' \in [Keys -> Binaries \cup {None}]
      /\ bin'[key[c]] # None /\ bin'[key[c]].data = Whole /\ bin'[key[c]].by = <<c, 2>>
      /\ \A k \in Keys : k # key[c] => bin'[k] = bin[k]
  BY <1>4, <1>1, Written
<1>6. TypeOK'
  BY <1>2, <1>3, <1>5 DEF TypeOK, Moved
<1>7. Own(c)'
  <2>1. Placed(c)'
    BY <1>1, <1>2, <1>3, <1>5 DEF Copy, At, Goto, Moved, Own, Placed, Genuine
  <2>2. DigestInHand(c)'
    BY <1>2 DEF Moved, DigestInHand
  <2>3. ReadsMatchStats(c)'
    BY <1>2 DEF Moved, ReadsMatchStats, At
  <2>4. StatsArePast(c)'
    BY <1>1, <1>2, <1>3 DEF Moved, Own, StatsArePast, Grown
  <2> QED BY <2>1, <2>2, <2>3, <2>4 DEF Own
<1>8. OthersStay(c)
  BY <1>1, <1>3 DEF OthersStay
<1>9. <<c, 2>> \in Writes /\ <<c, 2>>[1] = c /\ <<c, 2>>[2] = 2
  BY Records
<1>10. <<c, 2>> \notin BinMade /\ <<c, 2>> \in BinMade'
  BY <1>1, <1>2, <1>9 DEF BinMade, Moved, Returned, At
<1>11. NewWrites
  BY <1>3, <1>5, <1>9, <1>10 DEF NewWrites
<1>12. \A k \in Keys : FilesStay(k) \/ (BinIsGenuine(k)' /\ SideIsEarned(k)')
  <2>1. \A k \in Keys : FilesStay(k) \/ k = key[c]
    BY <1>1, <1>3, <1>2, <1>5 DEF FilesStay, Moved
  <2>2. ASSUME NEW k \in Keys, k = key[c] PROVE BinIsGenuine(k)'
    BY <2>2, <1>1, <1>2, <1>3, <1>5, <1>9, <1>10 DEF IInv, BinIsGenuine, Unfinished, Moved, Grown,
       Genuine
  <2>3. ASSUME NEW k \in Keys, k = key[c] PROVE SideIsEarned(k)'
    BY <2>3, <1>1, <1>2, <1>3, <1>5, <1>9, <1>10 DEF IInv, SideIsEarned, Succeeded, Moved, Grown, At
  <2> QED BY <2>1, <2>2, <2>3
<1> QED BY <1>6, <1>2, <1>3, <1>7, <1>8, <1>11, <1>12, WriteKeeps

\* The digest taken of a release's path is genuine, whoever wrote there last.
LEMMA RehashKeeps ==
  ASSUME TypeOK, IInv, NEW c \in Calls, Rehash(c)
  PROVE  TypeOK' /\ IInv'
<1>1. Own(c) /\ pc[c] = "rehash" /\ key[c] \in Keys /\ bin[key[c]] # None
  BY DEF Rehash, At, IInv, Own, Placed
<1>2. Moved(c, "truncside")
  BY <1>1, Later DEF Rehash, Goto, Places, Returned
<1>3. UNCHANGED <<key, seen, want, read, bin, side, pins, memo, pinned>>
  BY DEF Rehash, local, disk
<1>4. /\ bin[key[c]].data \in Contents
      /\ key[c] \notin Stubs => bin[key[c]].data \in Genuine(key[c])
  BY <1>1, Shapes DEF IInv, BinIsGenuine
<1>5. /\ out'[c] = bin[key[c]].data
      /\ \A d \in Calls : d # c => out'[d] = out[d]
  BY <1>2, <1>1, <1>4 DEF Rehash, At, Goto, TypeOK
<1>6. out' \in [Calls -> Contents \cup {None}]
  BY <1>1, <1>4, <1>5, Shapes DEF Rehash, At, Goto, TypeOK
<1>7. TypeOK'
  BY <1>2, <1>3, <1>6 DEF TypeOK, Moved
<1>8. Own(c)'
  <2>1. Placed(c)'
    BY <1>1, <1>2, <1>3, <1>4, <1>5 DEF Rehash, At, Goto, Moved, Own, Placed, Genuine
  <2>2. DigestInHand(c)'
    BY <1>1, <1>2, <1>3, <1>4, <1>5 DEF Rehash, At, Goto, Moved, Own, DigestInHand, Genuine
  <2>3. ReadsMatchStats(c)'
    BY <1>2 DEF Moved, ReadsMatchStats, At
  <2>4. StatsArePast(c)'
    BY <1>1, <1>2, <1>3 DEF Moved, Own, StatsArePast, Grown
  <2> QED BY <2>1, <2>2, <2>3, <2>4 DEF Own
<1>9. OthersStay(c)
  BY <1>1, <1>3, <1>5 DEF OthersStay
<1> QED BY <1>1, <1>2, <1>3, <1>7, <1>8, <1>9, QuietKeeps

\* An empty sidecar makes nothing trusted.
LEMMA TruncateSidecarKeeps ==
  ASSUME TypeOK, IInv, NEW c \in Calls, TruncateSidecar(c)
  PROVE  TypeOK' /\ IInv'
<1>1. Own(c) /\ pc[c] = "truncside" /\ key[c] \in Keys
  BY DEF TruncateSidecar, At, IInv, Own, Placed
<1>2. Moved(c, "writeside")
  BY <1>1, Later DEF TruncateSidecar, Goto, Places, Returned
<1>3. UNCHANGED <<key, seen, want, out, read, bin, pins, memo, pinned>>
  BY DEF TruncateSidecar, local, disk
<1>4. side' = [side EXCEPT ![key[c]] = [data |-> Empty, by |-> <<c, 1>>]]
  BY <1>2, <1>1 DEF TruncateSidecar, At, Goto, TypeOK, Contents
<1>5. /\ side' \in [Keys -> Sidecars \cup {None}]
      /\ side'[key[c]] # None /\ side'[key[c]].data = Empty /\ side'[key[c]].by = <<c, 1>>
      /\ \A k \in Keys : k # key[c] => side'[k] = side[k]
  BY <1>4, <1>1, Written
<1>6. TypeOK'
  BY <1>2, <1>3, <1>5 DEF TypeOK, Moved
<1>7. Own(c)'
  <2>1. Placed(c)'
    BY <1>1, <1>2, <1>3, <1>5 DEF TruncateSidecar, At, Goto, Moved, Own, Placed, Genuine
  <2>2. DigestInHand(c)'
    BY <1>1, <1>2, <1>3, <1>5 DEF TruncateSidecar, At, Goto, Moved, Own, DigestInHand, Genuine
  <2>3. ReadsMatchStats(c)'
    BY <1>2 DEF Moved, ReadsMatchStats, At
  <2>4. StatsArePast(c)'
    BY <1>1, <1>2, <1>3 DEF Moved, Own, StatsArePast, Grown
  <2> QED BY <2>1, <2>2, <2>3, <2>4 DEF Own
<1>8. OthersStay(c)
  BY <1>1, <1>3 DEF OthersStay
<1>9. <<c, 1>> \in Writes /\ <<c, 1>>[1] = c /\ <<c, 1>>[2] = 1
  BY Records
<1>10. <<c, 1>> \notin SideMade /\ <<c, 1>> \in SideMade'
  BY <1>1, <1>2, <1>9 DEF SideMade, Moved, Returned, At
<1>11. NewWrites
  BY <1>3, <1>5, <1>9, <1>10 DEF NewWrites
<1>12. \A k \in Keys : FilesStay(k) \/ (BinIsGenuine(k)' /\ SideIsEarned(k)')
  <2>1. \A k \in Keys : FilesStay(k) \/ k = key[c]
    BY <1>1, <1>3, <1>2, <1>5 DEF FilesStay, Moved
  <2>2. ASSUME NEW k \in Keys, k = key[c] PROVE BinIsGenuine(k)'
    BY <2>2, <1>1, <1>2, <1>3, <1>5, <1>9, <1>10 DEF IInv, BinIsGenuine, Unfinished, Moved, Grown,
       Genuine
  <2>3. ASSUME NEW k \in Keys, k = key[c] PROVE SideIsEarned(k)'
    BY <2>3, <1>1, <1>2, <1>3, <1>5, <1>9, <1>10 DEF IInv, SideIsEarned, Succeeded, Moved, Grown, At
  <2> QED BY <2>1, <2>2, <2>3
<1> QED BY <1>6, <1>2, <1>3, <1>7, <1>8, <1>11, <1>12, WriteKeeps

\* A digest is recorded by a call that succeeds in the same step.
LEMMA WriteSidecarKeeps ==
  ASSUME TypeOK, IInv, NEW c \in Calls, WriteSidecar(c)
  PROVE  TypeOK' /\ IInv'
<1>1. Own(c) /\ pc[c] = "writeside" /\ key[c] \in Keys
  BY DEF WriteSidecar, At, IInv, Own, Placed
<1>2. Moved(c, "ok")
  BY <1>1, Later DEF WriteSidecar, Goto, Places, Returned
<1>3. UNCHANGED <<key, seen, want, out, read, bin, pins, memo, pinned>>
  BY DEF WriteSidecar, local, disk
<1>4. out[c] \in Contents
  BY <1>1, <1>1 DEF Own, DigestInHand
<1>5. side' = [side EXCEPT ![key[c]] = [data |-> out[c], by |-> <<c, 2>>]]
  BY <1>2, <1>1, <1>4 DEF WriteSidecar, At, Goto, TypeOK, Contents
<1>6. /\ side' \in [Keys -> Sidecars \cup {None}]
      /\ side'[key[c]] # None /\ side'[key[c]].data = out[c] /\ side'[key[c]].by = <<c, 2>>
      /\ \A k \in Keys : k # key[c] => side'[k] = side[k]
  BY <1>5, <1>1, <1>4, Written
<1>7. TypeOK'
  BY <1>2, <1>3, <1>6 DEF TypeOK, Moved
<1>8. Own(c)'
  <2>1. Placed(c)'
    BY <1>1, <1>2, <1>3, <1>4, <1>6 DEF WriteSidecar, At, Goto, Moved, Own, Placed, Genuine
  <2>2. DigestInHand(c)'
    BY <1>1, <1>2, <1>3, <1>4, <1>6 DEF WriteSidecar, At, Goto, Moved, Own, DigestInHand, Genuine
  <2>3. ReadsMatchStats(c)'
    BY <1>2 DEF Moved, ReadsMatchStats, At
  <2>4. StatsArePast(c)'
    BY <1>1, <1>2, <1>3 DEF Moved, Own, StatsArePast, Grown
  <2> QED BY <2>1, <2>2, <2>3, <2>4 DEF Own
<1>9. OthersStay(c)
  BY <1>1, <1>3 DEF OthersStay
<1>10. <<c, 2>> \in Writes /\ <<c, 2>>[1] = c /\ <<c, 2>>[2] = 2
  BY Records
<1>11. <<c, 2>> \notin SideMade /\ <<c, 2>> \in SideMade'
  BY <1>1, <1>2, <1>10 DEF SideMade, Moved, Returned, At
<1>12. NewWrites
  BY <1>3, <1>6, <1>10, <1>11 DEF NewWrites
<1>13. \A k \in Keys : FilesStay(k) \/ (BinIsGenuine(k)' /\ SideIsEarned(k)')
  <2>1. \A k \in Keys : FilesStay(k) \/ k = key[c]
    BY <1>1, <1>3, <1>2, <1>6 DEF FilesStay, Moved
  <2>2. ASSUME NEW k \in Keys, k = key[c] PROVE BinIsGenuine(k)'
    BY <2>2, <1>1, <1>2, <1>3, <1>4, <1>6, <1>10, <1>11 DEF IInv, BinIsGenuine, Unfinished, Moved,
       Grown, Genuine
  <2>3. ASSUME NEW k \in Keys, k = key[c] PROVE SideIsEarned(k)'
    BY <2>3, <1>1, <1>2, <1>3, <1>4, <1>6, <1>10, <1>11 DEF IInv, SideIsEarned, Succeeded, Moved,
       Grown, At
  <2> QED BY <2>1, <2>2, <2>3
<1> QED BY <1>7, <1>2, <1>3, <1>8, <1>9, <1>12, <1>13, WriteKeeps

\* A call that fails leaves an unfinished copy its own.
LEMMA FailKeeps ==
  ASSUME TypeOK, IInv, NEW c \in Calls, Fail(c)
  PROVE  TypeOK' /\ IInv'
<1>1. Own(c) /\ pc[c] \notin Returned
  BY DEF Fail, At, IInv, Own, Returned
<1>2. Moved(c, "failed")
  BY <1>1, Later DEF Fail, Goto, Places, Returned
<1>3. UNCHANGED <<key, seen, want, out, read, bin, side, pins, memo, pinned>>
  BY DEF Fail, local, disk
<1>4. TypeOK'
  BY <1>2, <1>3 DEF TypeOK, Moved
<1>5. Own(c)'
  <2>1. Placed(c)'
    BY <1>1, <1>2, <1>3 DEF Fail, At, Goto, Moved, Own, Placed, Genuine
  <2>2. DigestInHand(c)'
    BY <1>2 DEF Moved, DigestInHand
  <2>3. ReadsMatchStats(c)'
    BY <1>2 DEF Moved, ReadsMatchStats, At
  <2>4. StatsArePast(c)'
    BY <1>1, <1>2, <1>3 DEF Moved, Own, StatsArePast, Grown
  <2> QED BY <2>1, <2>2, <2>3, <2>4 DEF Own
<1>6. OthersStay(c)
  BY <1>1, <1>3 DEF OthersStay
<1> QED BY <1>1, <1>2, <1>3, <1>4, <1>5, <1>6, QuietKeeps

\* The entry stored is of files that have not changed since they were read.
LEMMA RestatSidecarKeeps ==
  ASSUME TypeOK, IInv, NEW c \in Calls, RestatSidecar(c)
  PROVE  TypeOK' /\ IInv'
<1> DEFINE p == process[c]
           e == [sha |-> out[c], bin |-> seen[c].bin, side |-> seen[c].side]
<1>1. Own(c)
  BY DEF IInv, Own
<1>2. pc[c] = "restatside" /\ pc' = [pc EXCEPT ![c] = "ok"]
  BY DEF RestatSidecar, At, Goto
<1>3. /\ pc' \in [Calls -> Places] /\ pc'[c] = "ok"
      /\ \A d \in Calls : d # c => pc'[d] = pc[d]
  BY <1>2 DEF TypeOK, Places, Returned
<1>4. UNCHANGED <<key, seen, want, out, read, bin, side, pins, pinned>>
  BY DEF RestatSidecar, local, disk
<1>5. Grown /\ Unfinished \subseteq Unfinished'
  BY <1>2, Later DEF Moved, Returned, Places
<1>6. /\ key[c] \in Keys /\ p \in Processes
      /\ bin[key[c]] # None /\ side[key[c]] # None
      /\ seen[c].bin # None /\ seen[c].side # None
      /\ out[c] \in Contents /\ (key[c] \notin Stubs => out[c] \in Genuine(key[c]))
  BY <1>1, <1>2, CallAssumption DEF Own, Placed, DigestInHand, At
<1>7. seen[c].bin \in BinMade /\ seen[c].side \in SideMade
  BY <1>1, <1>6 DEF Own, StatsArePast
<1>8. e \in Entries /\ e.sha = out[c] /\ e.bin = seen[c].bin /\ e.side = seen[c].side
  <2>1. seen[c].bin \in Writes /\ seen[c].side \in Writes
    BY <1>7 DEF BinMade, SideMade
  <2> QED BY <1>6, <2>1, Records
<1>9. memo' = IF side[key[c]].by # seen[c].side THEN memo ELSE [memo EXCEPT ![p][key[c]] = e]
  BY DEF RestatSidecar
<1> HIDE DEF e, p
<1>10. /\ memo' \in [Processes -> [Keys -> Entries \cup {None}]]
       /\ \A q \in Processes, k \in Keys :
            \/ memo'[q][k] = memo[q][k]
            \/ /\ q = p /\ k = key[c] /\ memo'[q][k] = e
               /\ side[k].by = seen[c].side
  <2>1. memo \in [Processes -> [Keys -> Entries \cup {None}]]
    BY DEF TypeOK
  <2> QED BY <1>6, <1>8, <1>9, <2>1
<1>11. TypeOK'
  BY <1>3, <1>4, <1>10 DEF TypeOK
<1>12. NewWrites
  BY <1>4 DEF NewWrites
<1>13. Own(c)'
  <2>1. Placed(c)'
    BY <1>3, <1>4, <1>6 DEF Placed, At
  <2>2. DigestInHand(c)'
    BY <1>3, <1>4, <1>6 DEF DigestInHand, Genuine
  <2>3. ReadsMatchStats(c)'
    BY <1>3 DEF ReadsMatchStats, At
  <2>4. StatsArePast(c)'
    BY <1>4, <1>5, <1>7 DEF StatsArePast, Grown
  <2> QED BY <2>1, <2>2, <2>3, <2>4 DEF Own
<1>14. \A d \in Calls : Own(d)'
  <2>1. \A d \in Calls : d # c => Stays(d)
    BY <1>3, <1>4 DEF Stays
  <2> QED BY <1>5, <1>12, <1>13, <2>1, OthersPart
<1>15. \A k \in Keys : BinIsGenuine(k)' /\ SideIsEarned(k)'
  <2>1. \A k \in Keys : FilesStay(k)
    BY <1>4, <1>5 DEF FilesStay
  <2> QED BY <1>4, <1>5, <2>1, FilesPart
<1>16. ASSUME NEW q \in Processes, NEW k \in Keys
       PROVE  /\ MemoIsEarned(q, k)'
              /\ LET m == memo'[q][k]
                 IN  m # None /\ bin'[k].by = m.bin /\ side'[k].by = m.side =>
                       Trusted(k)' /\ bin'[k].data = m.sha
  <2>1. CASE memo'[q][k] = memo[q][k]
    BY <1>5, <1>12, <2>1, MemoPart
  <2>2. CASE k = key[c] /\ memo'[q][k] = e
    <3>1. MemoIsEarned(q, k)'
      BY <1>4, <1>5, <1>6, <1>7, <1>8, <2>2 DEF MemoIsEarned, Grown, Genuine
    <3>2. bin[k].by = seen[c].bin => bin[k].data = out[c]
      BY <1>1, <1>2, <2>2 DEF Own, ReadsMatchStats
    <3>3. side[k].by = seen[c].side => side[k].data = out[c]
      BY <1>1, <1>2, <2>2 DEF Own, ReadsMatchStats
    <3>4. ASSUME bin'[k].by = e.bin, side'[k].by = e.side
          PROVE  Trusted(k)' /\ bin'[k].data = e.sha
      BY <1>4, <1>6, <1>8, <2>2, <3>2, <3>3, <3>4 DEF Trusted
    <3> QED BY <2>2, <3>1, <3>4
  <2> QED BY <1>10, <2>1, <2>2
<1>17. MemoIsAWrapper'
  BY <1>16 DEF MemoIsAWrapper
<1> QED BY <1>11, <1>14, <1>15, <1>16, <1>17 DEF IInv, Own

\* A process that ends takes its memo along and unmakes nothing.
LEMMA KillKeeps ==
  ASSUME TypeOK, IInv, NEW p \in Processes, Kill(p)
  PROVE  TypeOK' /\ IInv'
<1>1. \A d \in Calls : pc'[d] = pc[d] \/ (pc'[d] = "killed" /\ pc[d] \notin Returned)
  BY DEF Kill
<1>2. UNCHANGED <<key, seen, want, out, read, bin, side, pins, pinned>>
  BY DEF Kill, local, disk
<1>3. memo' \in [Processes -> [Keys -> Entries \cup {None}]]
      /\ \A q \in Processes, k \in Keys : memo'[q][k] = memo[q][k] \/ memo'[q][k] = None
  BY DEF Kill, TypeOK
<1>4. pc' \in [Calls -> Places]
  BY DEF Kill, TypeOK, Places, Returned
<1>5. TypeOK'
  BY <1>2, <1>3, <1>4 DEF TypeOK
<1>6. Grown
  <2>1. BinMade \subseteq BinMade'
    BY <1>1, Records DEF BinMade, Returned, At
  <2>2. SideMade \subseteq SideMade'
    BY <1>1, Records DEF SideMade, Returned, At
  <2>3. Succeeded \subseteq Succeeded'
    BY <1>1 DEF Succeeded, Returned, At
  <2> QED BY <2>1, <2>2, <2>3 DEF Grown
<1>7. Unfinished \subseteq Unfinished'
  BY <1>1 DEF Unfinished
<1>8. NewWrites
  BY <1>2 DEF NewWrites
<1>9. ASSUME NEW d \in Calls PROVE Own(d)'
  <2>1. CASE pc'[d] = pc[d]
    BY <1>2, <1>6, <1>8, <2>1, OthersPart DEF Stays
  <2>2. CASE pc'[d] = "killed"
    <3>1. StatsArePast(d)
      BY DEF IInv
    <3>2. StatsArePast(d)'
      BY <1>2, <1>6, <3>1 DEF StatsArePast, Grown
    <3>3. Placed(d)' /\ DigestInHand(d)' /\ ReadsMatchStats(d)'
      BY <2>2 DEF Placed, DigestInHand, ReadsMatchStats, At
    <3> QED BY <3>2, <3>3 DEF Own
  <2> QED BY <1>1, <2>1, <2>2
<1>10. \A k \in Keys : BinIsGenuine(k)' /\ SideIsEarned(k)'
  <2>1. \A k \in Keys : FilesStay(k)
    BY <1>2, <1>7 DEF FilesStay
  <2> QED BY <1>2, <1>6, <2>1, FilesPart
<1>11. ASSUME NEW q \in Processes, NEW k \in Keys
       PROVE  /\ MemoIsEarned(q, k)'
              /\ LET m == memo'[q][k]
                 IN  m # None /\ bin'[k].by = m.bin /\ side'[k].by = m.side =>
                       Trusted(k)' /\ bin'[k].data = m.sha
  <2>1. CASE memo'[q][k] = memo[q][k]
    BY <1>6, <1>8, <2>1, MemoPart
  <2>2. CASE memo'[q][k] = None
    BY <2>2 DEF MemoIsEarned
  <2> QED BY <1>3, <2>1, <2>2
<1>12. MemoIsAWrapper'
  BY <1>11 DEF MemoIsAWrapper
<1> QED BY <1>5, <1>9, <1>10, <1>11, <1>12 DEF IInv, Own

-----------------------------------------------------------------------------(* The theorems *)

\* An empty cache satisfies the invariant ...
LEMMA InitInvariant == Init => TypeOK /\ IInv
<1> SUFFICES ASSUME Init PROVE TypeOK /\ IInv
  OBVIOUS
<1>1. TypeOK
  BY DEF Init, TypeOK, Places, Stats
<1>2. \A c \in Calls : Own(c)
  BY DEF Init, Own, Placed, DigestInHand, ReadsMatchStats, StatsArePast, At
<1>3. \A k \in Keys : BinIsGenuine(k) /\ SideIsEarned(k)
  BY DEF Init, BinIsGenuine, SideIsEarned
<1>4. \A p \in Processes, k \in Keys : memo[p][k] = None
  BY DEF Init
<1>5. (\A p \in Processes, k \in Keys : MemoIsEarned(p, k)) /\ MemoIsAWrapper
  BY <1>4 DEF MemoIsEarned, MemoIsAWrapper
<1> QED BY <1>1, <1>2, <1>3, <1>5 DEF IInv, Own

\* ... and every step preserves it.
LEMMA StepInvariant == TypeOK /\ IInv /\ [Next]_vars => TypeOK' /\ IInv'
<1> SUFFICES ASSUME TypeOK, IInv, [Next]_vars PROVE TypeOK' /\ IInv'
  OBVIOUS
<1>1. ASSUME NEW c \in Calls, Resolve(c) PROVE TypeOK' /\ IInv'
  BY <1>1, BeginKeeps, StatBinaryKeeps, StatSidecarKeeps, ReadSidecarKeeps, HashCachedKeeps,
     RestatBinaryKeeps, RestatSidecarKeeps, DownloadKeeps, ManifestKeeps, ReadPinsKeeps,
     TruncatePinsKeeps, WritePinsKeeps, ExtractKeeps, CompileKeeps, CopyKeeps, RehashKeeps,
     TruncateSidecarKeeps, WriteSidecarKeeps, FailKeeps DEF Resolve
<1>2. ASSUME NEW p \in Processes, Kill(p) PROVE TypeOK' /\ IInv'
  BY <1>2, KillKeeps
<1>3. CASE UNCHANGED vars
  <2>1. UNCHANGED <<pc, key, seen, want, out, read, bin, side, pins, memo, pinned>>
    BY <1>3 DEF vars, local, disk
  <2>2. TypeOK'
    BY <2>1 DEF TypeOK
  <2>3. IInv'
    <3>1. Grown /\ NewWrites /\ Unfinished' = Unfinished
      BY <2>1 DEF Grown, NewWrites, BinMade, SideMade, Succeeded, Unfinished, At
    <3>2. \A d \in Calls : Own(d)'
      BY <2>1, <3>1, OthersPart DEF Stays
    <3>3. \A k \in Keys : BinIsGenuine(k)' /\ SideIsEarned(k)'
      BY <2>1, <3>1, FilesPart DEF FilesStay
    <3>4. \A p \in Processes, k \in Keys : MemoIsEarned(p, k)'
      BY <2>1, <3>1, MemoPart
    <3>5. MemoIsAWrapper'
      BY <2>1 DEF IInv, MemoIsAWrapper, Trusted
    <3> QED BY <3>2, <3>3, <3>4, <3>5 DEF IInv, Own
  <2> QED BY <2>2, <2>3
<1> QED BY <1>1, <1>2, <1>3 DEF Next

\* The inductive invariant of the cache, for any calls, processes and keys.
THEOREM Invariance == Spec => [](TypeOK /\ IInv)
<1>1. Init => TypeOK /\ IInv
  BY InitInvariant
<1>2. TypeOK /\ IInv /\ [Next]_vars => (TypeOK /\ IInv)'
  BY StepInvariant
<1> QED BY <1>1, <1>2, PTL DEF Spec

\* Every variable keeps its type.
THEOREM TypeCorrect == Spec => []TypeOK
BY Invariance, PTL

\* What Resolve returns for a release is verified, and so is what its path holds
\* from then on.
THEOREM OnlyVerifiedIsServed == Spec => []ServedIsVerified
<1>1. TypeOK /\ IInv => ServedIsVerified
  <2> SUFFICES ASSUME IInv, NEW c \in Calls, At(c, "ok"), key[c] \notin Stubs
               PROVE  out[c] \in Genuine(key[c]) /\ bin[key[c]].data \in Genuine(key[c])
    BY DEF ServedIsVerified
  <2>1. key[c] \in Keys /\ bin[key[c]] # None
    BY DEF IInv, Placed, At
  <2>2. out[c] \in Genuine(key[c])
    BY DEF IInv, DigestInHand, At
  <2>3. bin[key[c]].data \in Genuine(key[c])
    BY <2>1 DEF IInv, BinIsGenuine
  <2> QED BY <2>2, <2>3
<1> QED BY <1>1, Invariance, PTL

\* What is on disk is trusted only if it is genuine, with the exception of a stub
\* half copied by one writer and recorded by another.
THEOREM TrustIsAlwaysEarned == Spec => []TrustIsEarned
<1>1. TypeOK /\ IInv => TrustIsEarned
  <2> SUFFICES ASSUME TypeOK, IInv, NEW k \in Keys, Trusted(k), bin[k].data \notin Genuine(k)
               PROVE  k \in Stubs /\ CrossDevice /\ side[k].by[1] # bin[k].by[1]
    BY DEF TrustIsEarned
  <2>1. bin[k].data \in Contents /\ side[k].data # Empty
    BY Shapes, NoneIsNone DEF Trusted
  <2>2. k \in Stubs /\ CrossDevice /\ bin[k].by[1] \in Unfinished
    BY DEF IInv, BinIsGenuine, Trusted
  <2>3. side[k].by[1] \in Succeeded
    BY <2>1 DEF IInv, SideIsEarned, Trusted
  <2>4. Unfinished \cap Succeeded = {}
    BY DEF Unfinished, Succeeded, At
  <2> QED BY <2>2, <2>3, <2>4
<1> QED BY <1>1, Invariance, PTL

\* Where the memo would answer, the full check would give the same answer.
THEOREM TheMemoIsAWrapper == Spec => []MemoIsAWrapper
<1>1. IInv => MemoIsAWrapper
  BY DEF IInv
<1> QED BY <1>1, Invariance, PTL
=============================================================================
