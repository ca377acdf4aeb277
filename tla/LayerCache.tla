------------------------------ MODULE LayerCache ------------------------------
(***************************************************************************)
(* The on-disk cache of compressed layers: one key of it, used by several  *)
(* processes, some of which are killed.  An entry is a blob and, renamed   *)
(* into place after it, a sidecar with the digest, diffID and size of the  *)
(* blob it was written for.                                                *)
(*                                                                         *)
(* The key covers what goes into a layer and not the release of pokkum     *)
(* that compressed it, so an entry that an earlier release left behind can *)
(* hold other bytes: Earlier stands for those, Current for the ones every  *)
(* process here would write.  They differ in size.                         *)
(***************************************************************************)
CONSTANTS Users, Current, Earlier, Junk, Absent

Blobs == {Current, Earlier, Junk}

VARIABLES
  blob,    \* key+".tar.gz"
  meta,    \* key+".json": the blob it describes
  user,    \* [process -> where it is]
  seen,    \* [process -> the blob its os.Stat measured]
  handed,  \* [process -> the digest of the layer it was handed]
  read     \* [process -> what Compressed gave it]

cacheVars == <<blob, meta, user, seen, handed, read>>

Init ==
  /\ blob = Absent /\ meta = Absent
  /\ user = [u \in Users |-> "out"]
  /\ seen = [u \in Users |-> Absent]
  /\ handed = [u \in Users |-> Absent]
  /\ read = [u \in Users |-> "nothing"]

\* What earlier runs, and a disk that lost data, may have left.
Found(b, m) ==
  /\ \A u \in Users : user[u] = "out"
  /\ blob' = b /\ meta' = m
  /\ user' = [u \in Users |-> "get"]
  /\ UNCHANGED <<seen, handed, read>>

Goto(u, s) == user' = [user EXCEPT ![u] = s]

\* Get: stat, open, the magic bytes.
Probe(u) ==
  /\ user[u] = "get"
  /\ seen' = [seen EXCEPT ![u] = blob]
  /\ Goto(u, CASE blob = Absent -> "build" [] blob = Junk -> "remove" [] OTHER -> "match")
  /\ UNCHANGED <<blob, meta, handed, read>>

\* os.Remove of a blob with the wrong magic, by its path.
RemoveBlob(u) ==
  /\ user[u] = "remove"
  /\ blob' = Absent
  /\ Goto(u, "build")
  /\ UNCHANGED <<meta, seen, handed, read>>

\* The sidecar must agree with the size of the blob; otherwise a miss that
\* leaves the blob alone.
readSidecar(u) ==
  /\ user[u] = "match"
  /\ IF meta # Absent /\ meta = seen[u]
     THEN handed' = [handed EXCEPT ![u] = meta] /\ Goto(u, "push")
     ELSE UNCHANGED handed /\ Goto(u, "build")
  /\ UNCHANGED <<blob, meta, seen, read>>

\* Put: the layer is built and copied to a temporary file, then renamed; a
\* cache that cannot be written falls back to the layer in hand.
Put(u) ==
  /\ user[u] = "build"
  /\ \/ /\ blob' = Current
        /\ Goto(u, "sidecar")
     \/ UNCHANGED blob /\ Goto(u, "done")
  /\ UNCHANGED <<meta, seen, handed, read>>

writeSidecar(u) ==
  /\ user[u] = "sidecar"
  /\ \/ /\ meta' = Current
        /\ handed' = [handed EXCEPT ![u] = Current]
        /\ Goto(u, "push")
     \/ Goto(u, "done") /\ UNCHANGED <<meta, handed>>
  /\ UNCHANGED <<blob, seen, read>>

\* cachedFileLayer.Compressed opens the path when the layer is pushed.
Compressed(u) ==
  /\ user[u] = "push"
  /\ read' = [read EXCEPT ![u] = IF blob = Absent THEN "gone"
                                 ELSE IF blob = handed[u] THEN "named" ELSE "other"]
  /\ Goto(u, "done")
  /\ UNCHANGED <<blob, meta, seen, handed>>

\* A process is killed; temporary files have random names and are no entry.
Killed(u) ==
  /\ user[u] \in {"get", "match", "remove", "build", "sidecar", "push"}
  /\ Goto(u, "done")
  /\ UNCHANGED <<blob, meta, seen, handed, read>>

Next ==
  \/ \E b \in Blobs \cup {Absent}, m \in {Current, Earlier, Absent} : Found(b, m)
  \/ \E u \in Users : \/ Probe(u) \/ RemoveBlob(u) \/ readSidecar(u) \/ Put(u)
                      \/ writeSidecar(u) \/ Compressed(u) \/ Killed(u)

Spec == Init /\ [][Next]_cacheVars

-----------------------------------------------------------------------------
TypeOK ==
  /\ blob \in Blobs \cup {Absent} /\ meta \in {Current, Earlier, Absent}
  /\ user \in [Users -> {"out", "get", "remove", "match", "build", "sidecar", "push", "done"}]
  /\ seen \in [Users -> Blobs \cup {Absent}]
  /\ handed \in [Users -> {Current, Earlier, Absent}]
  /\ read \in [Users -> {"nothing", "named", "other", "gone"}]

\* Whatever the cache held and whoever is killed: a layer never gives bytes
\* other than those its digest names, though a blob renamed over a junk one
\* can still be removed by a process that saw the junk.
ServesWhatItNames == \A u \in Users : read[u] # "other"

-----------------------------------------------------------------------------
(* The inductive invariant behind it *)

\* What the proofs rest on: the three contents are told apart, and from none.
Assumed ==
  /\ Current # Earlier /\ Current # Junk /\ Earlier # Junk
  /\ Absent \notin Blobs

\* The cache is as it was found, and nobody has looked, or everybody is past that.
StartedTogether ==
  \/ \A u \in Users : user[u] = "out" /\ seen[u] = Absent /\ handed[u] = Absent
  \/ \A u \in Users : user[u] # "out"

\* A whole entry of an earlier release is taken by everyone, and rewritten by none.
EarlierIsKept ==
  blob = Earlier /\ meta = Earlier =>
    \A u \in Users : user[u] \in {"out", "get", "match", "push", "done"}

\* An earlier blob that was measured is still there if its sidecar is.
EarlierIsThere ==
  \A u \in Users :
    /\ seen[u] = Earlier /\ meta = Earlier => blob = Earlier
    /\ handed[u] = Earlier => blob = Earlier /\ meta = Earlier

\* What a process here wrote, or measured as such, is not replaced by other bytes.
CurrentStays ==
  \A u \in Users :
    handed[u] = Current \/ seen[u] = Current \/ user[u] = "sidecar" => blob \in {Current, Absent}

\* A process is where it is because of what it saw.
Progress ==
  \A u \in Users :
    /\ user[u] = "match" => seen[u] \in {Current, Earlier}
    /\ user[u] = "push" => handed[u] # Absent

IInv ==
  /\ StartedTogether /\ EarlierIsKept /\ EarlierIsThere /\ CurrentStays /\ Progress
  /\ ServesWhatItNames
=============================================================================
