----------------------------- MODULE StaticServer -----------------------------
(***************************************************************************)
(* pokkum-static, the PID 1 of a static image: requests served at the same *)
(* time from the image's roots, through directory handles they share, and  *)
(* the drain that ends it.                                                 *)
(*                                                                         *)
(* A file is <<path, suffix>>, as the path resolved to it.  A              *)
(* representation is <<file, encoding>> and stands for its bytes and for   *)
(* its strong ETag.                                                        *)
(***************************************************************************)
EXTENDS Integers, FiniteSets

CONSTANTS
  Clients,
  Dirs,       \* the directories of the root
  maxHandles, \* maxCachedDirHandles
  Roots,      \* in lookup order: [path -> what is there]
  Paths,
  sidecars,   \* [file -> the encodings the startup index records]
  gone,       \* the <<file, encoding>> that vanished since
  dirOf,      \* [path -> its directory]
  Size,       \* of every representation
  Requests,   \* the requests the clients make
  Fallback    \* the SPA fallback file, or NoPath
CONSTANTS NoPath, NoTag

Encodings == {"br", "gzip"}
There == {"nothing", "file", "html", "index", "directory", "htmlAndDirectory"}

VARIABLES
  server,    \* "up", "told", "draining", "exited"
  ready,     \* what /readyz answers
  request,   \* [client -> its request]
  at,        \* [client -> where its request is]
  held,      \* [client -> the representation whose first bytes it has, or NoTag]
  whole,     \* [client -> what it has are bytes of one representation]
  cachedDirs,\* sr.dirs
  dirCount,
  extra      \* handles opened by a request that has not stored them yet

staticVars == <<server, ready, request, at, held, whole, cachedDirs, dirCount, extra>>
dirVars == <<cachedDirs, dirCount, extra>>

\* What a client may ask for; a range is <<first, last>>, or <<>> for none.
AllRequests == [path: Paths, accepts: SUBSET Encodings, cond: {"none", "ifNoneMatch", "ifRange"},
                range: ((0 .. Size) \X (0 .. Size)) \cup {<<>>}]
NoRequest == [path |-> NoPath, accepts |-> {}, cond |-> "none", range |-> <<>>]

Init ==
  /\ server = "up" /\ ready = TRUE
  /\ request = [c \in Clients |-> NoRequest]
  /\ at = [c \in Clients |-> "idle"]
  /\ held = [c \in Clients |-> NoTag] /\ whole = [c \in Clients |-> TRUE]
  /\ cachedDirs = {} /\ dirCount = 0 /\ extra = 0

-----------------------------------------------------------------------------
(* What a request gets *)

\* tryServe: the file, then <path>.html, then the directory's index.
tryServe(root, p) ==
  CASE root[p] = "file"                        -> <<p, "">>
    [] root[p] \in {"html", "htmlAndDirectory"} -> <<p, ".html">>
    [] root[p] = "index"                       -> <<p, "/index.html">>
    [] OTHER                                   -> NoPath

\* serveHTTP: the first root that serves the path, else the fallback.
Resolved(p) ==
  LET hits == {i \in DOMAIN Roots : tryServe(Roots[i], p) # NoPath}
  IN IF hits # {} THEN tryServe(Roots[CHOOSE i \in hits : \A j \in hits : i <= j], p)
     ELSE Fallback

\* Brotli before gzip, if the index records it and the client takes it; an
\* indexed sidecar that is gone leaves the file itself.
pickEncoding(p, accepts) ==
  LET enc == IF p \notin DOMAIN sidecars THEN "identity"
             ELSE IF "br" \in accepts \cap sidecars[p] THEN "br"
             ELSE IF "gzip" \in accepts \cap sidecars[p] THEN "gzip"
             ELSE "identity"
  IN IF <<p, enc>> \in gone THEN "identity" ELSE enc

\* parseSingleRange: a range that ends past the file is refused as a whole.
parseSingleRange(r) ==
  IF r = <<>> THEN "none"
  ELSE IF r[1] < 0 \/ r[2] >= Size \/ r[1] > r[2] THEN "unsatisfiable"
  ELSE "satisfiable"

\* Mutant: a range is honoured whatever If-Range says.
serveFile_ignoresIfRange(q, tag) ==
  LET rep   == <<Resolved(q.path), pickEncoding(Resolved(q.path), q.accepts)>>
      range == parseSingleRange(q.range)
  IN IF Resolved(q.path) = NoPath THEN [status |-> 404, body |-> NoTag, first |-> 0]
     ELSE IF q.cond = "ifNoneMatch" /\ tag = rep THEN [status |-> 304, body |-> NoTag, first |-> 0]
     ELSE IF range = "unsatisfiable" THEN [status |-> 416, body |-> NoTag, first |-> 0]
     ELSE IF range = "satisfiable" THEN [status |-> 206, body |-> rep, first |-> q.range[1]]
     ELSE [status |-> 200, body |-> rep, first |-> 0]

\* serveFile: If-None-Match before the range, the range only if If-Range holds.
serveFile(q, tag) ==
  LET rep   == <<Resolved(q.path), pickEncoding(Resolved(q.path), q.accepts)>>
      range == parseSingleRange(q.range)
  IN IF Resolved(q.path) = NoPath THEN [status |-> 404, body |-> NoTag, first |-> 0]
     ELSE IF q.cond = "ifNoneMatch" /\ tag = rep THEN [status |-> 304, body |-> NoTag, first |-> 0]
     ELSE IF range = "unsatisfiable" THEN [status |-> 416, body |-> NoTag, first |-> 0]
     ELSE IF range = "satisfiable" /\ (q.cond = "ifRange" => tag = rep)
          THEN [status |-> 206, body |-> rep, first |-> q.range[1]]
     ELSE [status |-> 200, body |-> rep, first |-> 0]

-----------------------------------------------------------------------------
(* A request *)

Goto(c, where) == at' = [at EXCEPT ![c] = where]

\* A client that has the start of a representation may ask for the rest of it,
\* naming what it has; it need not accept the same encodings as before.
Ask(c, q) ==
  /\ server \in {"up", "told"} /\ at[c] = "idle"
  /\ q.range # <<>> /\ q.range[1] > 0 => held[c] # NoTag /\ q.cond = "ifRange"
  /\ request' = [request EXCEPT ![c] = q]
  /\ Goto(c, "open")
  /\ UNCHANGED <<server, ready, held, whole, dirVars>>

\* openAt: through the cached handle of the directory, or from the root.
openAt(c) ==
  /\ at[c] = "open"
  /\ Goto(c, IF Resolved(request[c].path) = NoPath \/ dirOf[request[c].path] \in cachedDirs
             THEN "serve" ELSE "count")
  /\ UNCHANGED <<server, ready, request, held, whole, dirVars>>

\* cacheDir: the bound is read before the handle is opened ...
cacheDir(c) ==
  /\ at[c] = "count"
  /\ IF dirOf[request[c].path] \in cachedDirs \/ dirCount >= maxHandles
     THEN Goto(c, "serve") /\ UNCHANGED extra
     ELSE Goto(c, "store") /\ extra' = extra + 1
  /\ UNCHANGED <<server, ready, request, held, whole, cachedDirs, dirCount>>

\* ... and of two requests that stored one, the second closes its own.
LoadOrStore(c) ==
  /\ at[c] = "store"
  /\ LET d == dirOf[request[c].path] IN
     IF d \in cachedDirs THEN Goto(c, "serve") /\ UNCHANGED cachedDirs
     ELSE Goto(c, "add") /\ cachedDirs' = cachedDirs \cup {d}
  /\ extra' = extra - 1
  /\ UNCHANGED <<server, ready, request, held, whole, dirCount>>

AddCount(c) ==
  /\ at[c] = "add"
  /\ dirCount' = dirCount + 1
  /\ Goto(c, "serve")
  /\ UNCHANGED <<server, ready, request, held, whole, cachedDirs, extra>>

\* The answer, and what the client makes of it: the rest of a representation
\* is put after the start it has.
Serve(c) ==
  /\ at[c] = "serve"
  /\ LET a == serveFile(request[c], held[c]) IN
     /\ held'  = [held EXCEPT ![c] = IF a.status \in {200, 206} THEN a.body ELSE @]
     /\ whole' = [whole EXCEPT ![c] = IF a.status = 206 /\ a.first > 0 THEN a.body = held[c] ELSE @]
  /\ Goto(c, "idle")
  /\ request' = [request EXCEPT ![c] = NoRequest]
  /\ UNCHANGED <<server, ready, dirVars>>

-----------------------------------------------------------------------------
(* main *)

\* SIGTERM, or the content server ended by itself.
Told ==
  /\ server = "up"
  /\ server' = "told"
  /\ UNCHANGED <<ready, request, at, held, whole, dirVars>>

\* shuttingDown.Store(true), and then Shutdown closes the listener.
Unready ==
  /\ server = "told" /\ ready
  /\ ready' = FALSE
  /\ UNCHANGED <<server, request, at, held, whole, dirVars>>

Shutdown ==
  /\ server = "told" /\ ~ready
  /\ server' = "draining"
  /\ UNCHANGED <<ready, request, at, held, whole, dirVars>>

\* Shutdown returns when no request is in flight, or after ten seconds.
Exit ==
  /\ server = "draining"
  /\ server' = "exited"
  /\ at' = [c \in Clients |-> "idle"]
  /\ request' = [c \in Clients |-> NoRequest]
  /\ cachedDirs' = {} /\ dirCount' = 0 /\ extra' = 0
  /\ UNCHANGED <<ready, held, whole>>

Next ==
  \/ \E c \in Clients :
       \/ \E q \in Requests : Ask(c, q)
       \/ openAt(c) \/ cacheDir(c) \/ LoadOrStore(c) \/ AddCount(c) \/ Serve(c)
  \/ Told \/ Unready \/ Shutdown \/ Exit

Spec == Init /\ [][Next]_staticVars

-----------------------------------------------------------------------------
\* Every variable is of its type.
TypeOK ==
  /\ request \in [Clients -> Requests \cup {NoRequest}]
  /\ server \in {"up", "told", "draining", "exited"} /\ ready \in BOOLEAN
  /\ at \in [Clients -> {"idle", "open", "count", "store", "add", "serve"}]
  /\ whole \in [Clients -> BOOLEAN]
  /\ cachedDirs \subseteq Dirs /\ dirCount \in 0..Cardinality(Dirs)
  /\ extra \in Nat

\* The bound on cached directory handles is checked before a handle is opened
\* and counted after it is stored, so requests at the same time can pass it:
\* by at most one each.  And no handle is lost: what is open is cached, or in
\* the hands of a request.
HandlesAreBounded ==
  /\ Cardinality(cachedDirs) < maxHandles + Cardinality(Clients)
  /\ extra = Cardinality({c \in Clients : at[c] = "store"})
  /\ dirCount = Cardinality(cachedDirs) - Cardinality({c \in Clients : at[c] = "add"})

\* The load balancer is told before the listener closes, so no client is sent
\* to a closed port.
DrainsInOrder == server \in {"draining", "exited"} => ~ready

\* A download that is resumed never mixes two representations of a file, though
\* the encodings the client accepts may change in between.
ResumedDownloadIsWhole == \A c \in Clients : whole[c]

-----------------------------------------------------------------------------
(* The inductive invariant behind it *)

\* What the proofs rest on.
Assumed ==
  /\ IsFiniteSet(Clients) /\ IsFiniteSet(Dirs) /\ maxHandles \in Nat \ {0}
  /\ Requests \subseteq AllRequests /\ \A p \in Paths : dirOf[p] \in Dirs
  /\ Size \in Nat /\ NoPath \notin Paths

\* A request that is served is one the clients make, and one that counts, stores
\* or adds a handle is of a path with a directory.
ServedIsAsked == \A c \in Clients : at[c] # "idle" => request[c] \in Requests

\* What asks for the rest of a file names the start of it.
RestNamesTheStart ==
  \A c \in Clients :
    at[c] # "idle" /\ request[c].range # <<>> /\ request[c].range[1] > 0 =>
      request[c].cond = "ifRange"

\* Whoever has passed the bound and not been counted was under it on its own.
PassedTheBound ==
  dirCount + Cardinality({c \in Clients : at[c] \in {"store", "add"}})
    < maxHandles + Cardinality(Clients)

IInv ==
  /\ ServedIsAsked /\ RestNamesTheStart /\ PassedTheBound
  /\ HandlesAreBounded /\ DrainsInOrder /\ ResumedDownloadIsWhole
=============================================================================
