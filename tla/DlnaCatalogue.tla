--------------------------- MODULE DlnaCatalogue ---------------------------
(***************************************************************************)
(* How the DLNA backend comes to its catalogue: the choice of a server     *)
(* (main.rs, discover), connect_from, load_or_build_catalogue and          *)
(* save_catalogue_to (media-source-dlna lib.rs), build_catalogue and       *)
(* browse_children (browse.rs).                                            *)
(*                                                                         *)
(* A media server lists each container page by page, may return less than  *)
(* asked for, may not know the total or count too many, and may fail any   *)
(* request; its containers may be reached on several paths.  The process   *)
(* may die between any two steps, also in the middle of a write.           *)
(***************************************************************************)
EXTENDS MediaSource, DidlLite

CONSTANTS
  Servers,       \* the device-description URLs on the network
  FriendlyName,  \* FriendlyName[s]: the words of its name
  Holds,         \* Holds[s][c]: the elements listed in container c of s
  Total,         \* Total[s][c]: TotalMatches, 0 if s does not know it
  SkipTopLevel,  \* SKIP_TOP_LEVEL, in the case that the titles have
  MaxDepth,      \* MAX_DEPTH
  PageSize       \* PAGE_SIZE

TopContainer == "0"

Containers(s) == DOMAIN Holds[s]

\* A cache file per server and root, the roots being those that are asked for,
\* though the server may have no such container.
Roots == {a.root : a \in {b \in Args : b.source = "dlna"}}
Keys == Servers \X Roots

\* A description is at the URL of a server; listings and texts are finite, and
\* no element is within another one.
ASSUME DlnaAssumption ==
  /\ \A a \in Args : a.source = "dlna" /\ a.by = "url" => a.want \in Servers
  /\ \A s \in Servers : TopContainer \in Containers(s)
  /\ \A s \in Servers : \A c \in Containers(s) :
       /\ Holds[s][c] \in Seq(ToSet(Holds[s][c]))
       /\ \A e \in ToSet(Holds[s][c]) :
            /\ e.is \in {"container", "item"}
            /\ e.texts \in Seq(ToSet(e.texts))
            /\ \A p \in ToSet(e.texts) : /\ p[1] \notin {"container", "item"}
                                          /\ p[2] \in Seq(ToSet(p[2]))
  /\ MaxDepth \in Nat
  /\ PageSize \in Nat \ {0}

VARIABLES
  seen,     \* the servers that answered the search, in order
  server,   \* the one that is browsed
  queue,    \* containers to browse: [id, title, depth]
  at,       \* the entry being browsed
  found,    \* what its pages brought so far: [containers, items]
  start,    \* StartingIndex of its next page
  tmp,      \* for each key, the file path.json.tmp
  cache     \* for each key, the cache file

locals == <<seen, server, queue, at, found, start>>
disk == <<tmp, cache>>
dlnaVars == <<locals, disk>>

NoServer == "no server"
NoEntry == [id |-> "", title |-> <<>>, depth |-> 0]
NoneFound == [containers |-> <<>>, items |-> <<>>]

NoFile == [state |-> "absent", cat |-> Nothing, missed |-> {}]
Partial == [state |-> "partial", cat |-> Nothing, missed |-> {}]
File == [state |-> "whole", cat |-> cat, missed |-> missed]

DlnaInit ==
  /\ seen = <<>> /\ server = NoServer
  /\ queue = <<>> /\ at = NoEntry /\ found = NoneFound /\ start = 0
  /\ tmp = [k \in Keys |-> NoFile] /\ cache = [k \in Keys |-> NoFile]

\* A new process knows nothing but what is on the disk.
DlnaForgets ==
  /\ seen' = <<>> /\ server' = NoServer
  /\ queue' = <<>> /\ at' = NoEntry /\ found' = NoneFound /\ start' = 0
  /\ UNCHANGED disk

\* The locals of browse_children and of the loop's body end their lives.
LeaveEntry == at' = NoEntry /\ found' = NoneFound /\ start' = 0

Goes(to) == pc' = to /\ UNCHANGED <<args, starts>>

-----------------------------------------------------------------------------
(* Which server *)

ByUrl ==
  /\ pc = "start" /\ args.source = "dlna" /\ args.by = "url"
  /\ server' = args.want
  /\ Goes("connect")
  /\ UNCHANGED <<seen, queue, at, found, start, disk, cat, missed>>

BySearch ==
  /\ pc = "start" /\ args.source = "dlna" /\ args.by # "url"
  /\ Goes("search")
  /\ UNCHANGED <<dlnaVars, cat, missed>>

\* Replies come several times; one that does not parse is left out.
Reply(s) ==
  /\ pc = "search"
  /\ ~Contains(seen, s)
  /\ seen' = Append(seen, s)
  /\ UNCHANGED <<common, server, queue, at, found, start, disk>>

\* The first server, or the first whose name contains the one that is wanted.
Wanted ==
  {i \in 1 .. Len(seen) : args.by = "first" \/ Contains(FriendlyName[seen[i]], args.want)}

SearchOver ==
  /\ pc = "search"
  /\ IF Wanted = {}
     THEN Goes("exited") /\ UNCHANGED server
     ELSE Goes("connect") /\ server' = seen[CHOOSE i \in Wanted : \A j \in Wanted : i <= j]
  /\ seen' = <<>>
  /\ UNCHANGED <<queue, at, found, start, disk, cat, missed>>

\* The socket of the search, the description, its control URL, or a device
\* without a ContentDirectory: the process ends.
ConnectFails ==
  /\ pc \in {"search", "connect"}
  /\ Goes("exited")
  /\ seen' = <<>>
  /\ UNCHANGED <<server, queue, at, found, start, disk, cat, missed>>

-----------------------------------------------------------------------------
(* load_or_build_catalogue *)

Key == <<server, args.root>>

LoadCache ==
  /\ pc = "connect"
  /\ args.cached /\ cache[Key].state = "whole"
  /\ cat' = cache[Key].cat
  /\ missed' = cache[Key].missed
  /\ Goes("serving")
  /\ UNCHANGED dlnaVars

\* Without a cache, or its file is absent, does not parse, or cannot be read: an
\* I/O error, a permission, another version; that may befall a whole file too.
CacheMiss ==
  /\ pc = "connect"
  /\ queue' = <<[id |-> args.root, title |-> <<>>, depth |-> 0]>>
  /\ Goes("next")
  /\ UNCHANGED <<seen, server, at, found, start, disk, cat, missed>>

NextEntry ==
  /\ pc = "next"
  /\ queue # <<>>
  /\ queue' = Tail(queue)
  /\ IF Head(queue).depth > MaxDepth
     THEN UNCHANGED <<args, starts, pc, at>>
     ELSE Goes("page") /\ at' = Head(queue)
  /\ UNCHANGED <<seen, server, found, start, disk, cat, missed>>

\* Fault: what earlier pages brought stays for the next container.
BrowseFailsKeeping ==
  /\ pc = "page"
  /\ missed' = missed \cup {at.id}
  /\ Goes("next")
  /\ UNCHANGED <<dlnaVars, cat>>

\* An HTTP error, a status, a body that does not parse: what the earlier
\* pages brought is dropped with the container.
BrowseFails ==
  /\ pc = "page"
  /\ missed' = missed \cup {at.id}
  /\ Goes("next")
  /\ LeaveEntry
  /\ UNCHANGED <<seen, server, queue, disk, cat>>

\* A server answers a request for a container it does not have with a fault.
NoSuchObject == pc = "page" /\ at.id \notin Containers(server) /\ BrowseFails

Listed == Len(Holds[server][at.id])

\* What the server may answer for StartingIndex: at most PageSize elements of
\* a container that it has, and none only when there are no more.
Answers ==
  {[count |-> n,
    didl |-> FlattenSeq([i \in 1 .. n |-> Events(Holds[server][at.id][start + i])])] :
     n \in {m \in 0 .. PageSize :
              /\ at.id \in Containers(server)
              /\ start + m <= Listed
              /\ (m = 0 => start = Listed)}}

\* NumberReturned as extract_browse_response reads it: 0 if the server leaves
\* it out or it does not parse.
NumberReturned(page) == {page.count, 0}

Skip(container) ==
  args.root = TopContainer /\ at.depth = 0 /\ container.title \in SkipTopLevel

\* The listing is over: its items get their ids, a playlist holds them
\* unless this is the root, its containers go to the end of the queue.
Assemble(whole) ==
  LET items == NumberedFrom(whole.items, Len(cat.items) + 1)
      down == Kept(whole.containers, LAMBDA c : ~Skip(c))
  IN  /\ cat' = [items |-> cat.items \o items,
                 playlists |->
                   IF at.depth > 0 /\ items # <<>>
                   THEN Append(cat.playlists,
                               [id |-> FirstListId + Len(cat.playlists), of |-> at.id,
                                name |-> IF at.title = <<>> THEN <<at.id>> ELSE at.title,
                                tracks |-> Ids(items)])
                   ELSE cat.playlists]
      /\ queue' = queue \o [i \in 1 .. Len(down) |->
                              [id |-> down[i].id, title |-> down[i].title,
                               depth |-> at.depth + 1]]

\* Fault: an empty page is followed by the request for the same page.
LastPageByTotal(returned) == start + returned >= Total[server][at.id]

\* NumberReturned and TotalMatches decide whether a page is the last.
LastPage(returned) == returned = 0 \/ start + returned >= Total[server][at.id]

PageArrives ==
  /\ pc = "page"
  /\ \E page \in Answers : \E returned \in NumberReturned(page) :
     \E read \in {ParseDidlLite(page.didl)} :
       \E whole \in {[containers |-> found.containers \o read.containers,
                      items |-> found.items \o read.items]} :
         IF LastPage(returned)
         THEN /\ Assemble(whole)
              /\ missed' = IF start + page.count < Listed
                           THEN missed \cup {at.id} ELSE missed
              /\ Goes("next")
              /\ LeaveEntry
         ELSE /\ found' = whole
              /\ start' = start + returned
              /\ UNCHANGED <<common, at, queue>>
  /\ UNCHANGED <<seen, server, disk>>

Built ==
  /\ pc = "next"
  /\ queue = <<>>
  /\ Goes(IF args.cached THEN "write" ELSE "serving")
  /\ UNCHANGED <<dlnaVars, cat, missed>>

\* Fault: the cache file itself is written, in place.
WriteInPlace ==
  /\ pc = "write"
  /\ \/ cache' = [cache EXCEPT ![Key] = Partial] /\ UNCHANGED <<args, starts, pc>>
     \/ cache' = [cache EXCEPT ![Key] = File] /\ Goes("serving")
  /\ UNCHANGED <<locals, tmp, cat, missed>>

\* std::fs::write of the temporary file, in two steps a crash can part.
WriteTmp ==
  /\ pc = "write"
  /\ \/ tmp' = [tmp EXCEPT ![Key] = Partial] /\ UNCHANGED <<args, starts, pc>>
     \/ tmp' = [tmp EXCEPT ![Key] = File] /\ Goes("rename")
  /\ UNCHANGED <<locals, cache, cat, missed>>

\* The directory, the file or the rename fails: served without a cache.
SaveFails ==
  /\ pc \in {"write", "rename"}
  /\ Goes("serving")
  /\ UNCHANGED <<dlnaVars, cat, missed>>

RenameTmp ==
  /\ pc = "rename"
  /\ cache' = [cache EXCEPT ![Key] = tmp[Key]]
  /\ tmp' = [tmp EXCEPT ![Key] = NoFile]
  /\ Goes("serving")
  /\ UNCHANGED <<locals, cat, missed>>

DlnaStep ==
  \/ ByUrl \/ BySearch \/ SearchOver \/ LoadCache \/ CacheMiss
  \/ NextEntry \/ PageArrives \/ NoSuchObject \/ Built \/ WriteTmp \/ RenameTmp
  \/ \E s \in Servers : Reply(s)

DlnaFails == ConnectFails \/ BrowseFails \/ SaveFails

-----------------------------------------------------------------------------
(* What the servers hold, by definition *)

Has(e, tag) == \E i \in 1 .. Len(e.texts) : e.texts[i][1] = tag

\* The texts with a tag, one after the other; of several resources the first.
TextOf(e, tag) ==
  FlattenSeq([i \in 1 .. Len(e.texts) |->
    IF /\ e.texts[i][1] = tag
       /\ tag = "res" => \A j \in 1 .. i - 1 : e.texts[j][1] # "res"
    THEN e.texts[i][2] ELSE <<>>])

IsAudio(e) ==
  /\ e.is = "item"
  /\ Contains(TextOf(e, "class"), "audioItem")
  /\ Has(e, "res") /\ Resolves(TextOf(e, "res"))

\* A container that the server does not have lists nothing.
ListedIn(s, c) == IF c \in Containers(s) THEN Holds[s][c] ELSE <<>>

AudioIn(s, c) == Kept(ListedIn(s, c), IsAudio)

ContainersIn(s, c) == {e \in ToSet(ListedIn(s, c)) : e.is = "container"}

\* The containers below one of depth d, but for the skipped ones of the root.
ChildrenOf(s, root, c, d) ==
  {e.id : e \in {b \in ContainersIn(s, c) :
                   ~(/\ root = TopContainer /\ d = 0
                     /\ Trim(TextOf(b, "title")) \in SkipTopLevel)}}

\* The containers at each depth.
Level(s, root) ==
  LET level[d \in 0 .. MaxDepth] ==
        IF d = 0 THEN {root}
        ELSE UNION {ChildrenOf(s, root, c, d - 1) : c \in level[d - 1]}
  IN  level

Reached(s, root) ==
  LET level == Level(s, root) IN UNION {level[d] : d \in 0 .. MaxDepth}

DlnaSongs(s, root) ==
  {e.id : e \in UNION {{x \in ToSet(ListedIn(s, c)) : IsAudio(x)} :
                         c \in Reached(s, root)}}
=============================================================================
