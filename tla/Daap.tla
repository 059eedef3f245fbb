-------------------------------- MODULE Daap --------------------------------
(***************************************************************************)
(* A client's session with the server: the handlers of http.rs that lead   *)
(* to a listing, the sessions of session.rs, and the listings of Listing   *)
(* as bytes on the wire of Dmap, which the client reads with the           *)
(* dictionary it was given.  Other clients log in and out meanwhile.       *)
(***************************************************************************)
EXTENDS Listing, Dmap

CONSTANTS
  Me,          \* the client that lists
  Others,      \* clients that only log in and out
  MaxLogins,   \* bound: sessions ever created
  MaxUpdates,  \* bound: answers to /update
  Name,        \* the server's name
  Databases,   \* what the source answers: [id, name]
  Meta,        \* Meta[id]: the track as the source describes it
  ServedAs,    \* choose_format for this client: [format, kbps], kbps of MP3 only
  Headers,     \* [accept, dialect]: Accept-Charset as tokens, Client-DAAP-Version
  Longest,     \* no listing has more entries
  MaxText      \* no name or other text has more bytes

\* The counter of the sessions, a number of 32 bits, does not come round.
ASSUME DaapAssumption == MaxLogins \in Nat /\ MaxLogins < Byte * Byte * Byte * Byte

VARIABLES
  step,      \* what the client asks for next
  hdr,       \* the headers it sends
  crowd,     \* the clients beside it; no session is looked at by a listing,
             \* so to bound the states a client that lists has no one beside it
  dict,      \* the dictionary it has
  heard,     \* the last answer, as it reads it
  counts,    \* what it was told of the library before it listed anything
  known,     \* the revision it knows
  updates,   \* the answers to /update
  waiting,   \* it has an /update open
  sid,       \* sid[c]: "none", "taken" with an id, "in" with an id
  next,      \* SessionStore.next
  live       \* SessionStore.live

session == <<sid, next, live>>
asking == <<step, hdr, crowd, dict, heard, counts>>
updating == <<known, updates, waiting>>
paging == <<req, first, start, got, totals, status>>
daapVars == <<asking, updating, session, paging>>

NoSession == [is |-> "none", id |-> 0]
Revision == 2
Silence == [charset |-> Utf8, fields |-> <<>>]
NoCounts == [databases |-> {}, tracks |-> {}, lists |-> {}]

DaapInit ==
  /\ step = "codes"
  /\ hdr \in Headers /\ crowd \in {{}, Others}
  /\ dict = Bootstrap /\ heard = Silence /\ counts = NoCounts
  /\ known = 0 /\ updates = 0 /\ waiting = FALSE
  /\ sid = [c \in {Me} \cup Others |-> NoSession] /\ next = 1 /\ live = {}
  /\ req = None /\ first = 0 /\ start = 0 /\ got = <<>> /\ totals = {} /\ status = "idle"

-----------------------------------------------------------------------------
(* Answers *)

\* The charset an answer declares is the one its strings are in.
DmapResponseCs(body, cs) == [charset |-> cs, body |-> body]
DmapResponse(body) == DmapResponseCs(body, Utf8)

Heard(response) ==
  [charset |-> response.charset, fields |-> Read(dict, response.body)]

Body(reading) == reading.fields[1].value

Cs == CharsetFromAccept(hdr.accept)

-----------------------------------------------------------------------------
(* session.rs: an id is taken from the counter, then put among the live. *)

\* Fault: the id is the number of sessions there are.
TakeIdByCount(c) ==
  /\ sid[c].is = "none" /\ next <= MaxLogins
  /\ c = Me => step = "login"
  /\ sid' = [sid EXCEPT ![c] = [is |-> "taken", id |-> Cardinality(live) + 1]]
  /\ next' = next + 1
  /\ UNCHANGED <<live, asking, updating, paging>>

TakeId(c) ==
  /\ sid[c].is = "none" /\ next <= MaxLogins
  /\ c = Me => step = "login"
  /\ sid' = [sid EXCEPT ![c] = [is |-> "taken", id |-> next]]
  /\ next' = next + 1
  /\ UNCHANGED <<live, asking, updating, paging>>

LoggedIn(c) ==
  /\ sid[c].is = "taken"
  /\ live' = live \cup {sid[c].id}
  /\ LET response == DmapResponse(LoginBody(sid[c].id))
     IN  IF c = Me
         THEN /\ heard' = Heard(response)
              /\ sid' = [sid EXCEPT ![c] = [is |-> "in", id |-> The(Body(heard'), dmap.sessionId)]]
              /\ step' = "update"
         ELSE /\ sid' = [sid EXCEPT ![c].is = "in"]
              /\ UNCHANGED <<heard, step>>
  /\ UNCHANGED <<next, hdr, crowd, dict, counts, updating, paging>>

\* /logout, with the session it was given or without one.
Logout(c) ==
  /\ sid[c].is = "in"
  /\ c = Me => step \in {"ask", "page"} /\ status # "paging"
  /\ \E named \in BOOLEAN : live' = IF named THEN live \ {sid[c].id} ELSE live
  /\ sid' = [sid EXCEPT ![c] = NoSession]
  /\ IF c = Me THEN step' = "left" /\ waiting' = FALSE ELSE UNCHANGED <<step, waiting>>
  /\ UNCHANGED <<next, hdr, crowd, dict, heard, counts, known, updates, paging>>

-----------------------------------------------------------------------------
(* The handlers before the listings *)

ContentCodes ==
  /\ step = "codes"
  /\ dict' = Dictionary(DmapResponse(ContentCodesBody).body)
  /\ step' = "info"
  /\ UNCHANGED <<hdr, crowd, heard, counts, updating, session, paging>>

ServerInfo ==
  /\ step = "info"
  /\ heard' = Heard(DmapResponse(ServerInfoBody(Name, Len(Databases), Dialect(hdr.dialect))))
  /\ counts' = [counts EXCEPT !.databases = {The(Body(heard'), dmap.databasesCount)}]
  /\ step' = "login"
  /\ UNCHANGED <<hdr, crowd, dict, updating, session, paging>>

Answered ==
  /\ updates' = updates + 1
  /\ heard' = Heard(DmapResponse(UpdateBody(Revision)))
  /\ known' = The(Body(heard'), dmap.serverRevision)

\* Fault: every /update is answered.
UpdateAtOnce ==
  /\ step \in {"update", "databases"} /\ ~waiting /\ updates < MaxUpdates
  /\ Answered
  /\ step' = IF step = "update" THEN "databases" ELSE step
  /\ UNCHANGED <<waiting, hdr, crowd, dict, counts, session, paging>>

\* A client that knows the revision waits for another, which never comes.
Update ==
  /\ step \in {"update", "databases"} /\ ~waiting /\ updates < MaxUpdates
  /\ IF known = Revision
     THEN waiting' = TRUE /\ UNCHANGED <<step, heard, known, updates>>
     ELSE /\ Answered
          /\ step' = "databases"
          /\ UNCHANGED waiting
  /\ UNCHANGED <<hdr, crowd, dict, counts, session, paging>>

\* The sleep of a year is over, or the client hangs up before.
UpdateEnds ==
  /\ waiting
  /\ waiting' = FALSE
  /\ \/ Answered
     \/ UNCHANGED <<updates, heard, known>>
  /\ UNCHANGED <<step, hdr, crowd, dict, counts, session, paging>>

\* Fault: the Library is not counted.
ListDatabasesOnlyExtras ==
  /\ step = "databases"
  /\ heard' = Heard(DmapResponseCs(
       DatabasesBody(Databases, Cardinality(Tracks), Len(Lists), Cs), Cs))
  /\ LET db == The(Body(heard'), list.listing)[1].value
     IN  counts' = [counts EXCEPT !.tracks = {The(db, dmap.itemCount)},
                                  !.lists = {The(db, dmap.containerCount)}]
  /\ step' = "ask"
  /\ UNCHANGED <<hdr, crowd, dict, updating, session, paging>>

\* The counts are those of the first database; without one there are none.
ListDatabases ==
  /\ step = "databases"
  /\ LET tracks == IF Databases = <<>> THEN 0 ELSE Cardinality(Tracks)
         lists == IF Databases = <<>> THEN 0 ELSE Len(Lists) + 1
     IN  heard' = Heard(DmapResponseCs(DatabasesBody(Databases, tracks, lists, Cs), Cs))
  /\ LET db == The(Body(heard'), list.listing)[1].value
     IN  counts' = [counts EXCEPT !.tracks = {The(db, dmap.itemCount)},
                                  !.lists = {The(db, dmap.containerCount)}]
  /\ step' = "ask"
  /\ UNCHANGED <<hdr, crowd, dict, updating, session, paging>>

Ask ==
  /\ step = "ask" /\ crowd = {}
  /\ req' \in Requests
  /\ first' \in 0 .. Cardinality(Tracks) + 1
  /\ start' = first'
  /\ status' = "paging"
  /\ step' = "page"
  /\ UNCHANGED <<hdr, crowd, dict, heard, counts, updating, session, got, totals>>

-----------------------------------------------------------------------------
(* The listings, as they go over the wire *)

\* handle_items shows a track as it would be served.
AsListed(t) ==
  LET served == ServedAs[t.format]
  IN  [f \in DOMAIN t \cup (IF served.kbps > 0 /\ "durationMs" \in DOMAIN t
                            THEN {"sizeBytes", "bitrateKbps"} ELSE {}) |->
         CASE f = "format" -> served.format
           [] f = "sizeBytes" /\ served.kbps > 0 /\ "durationMs" \in DOMAIN t ->
                (t.durationMs * served.kbps) \div 8
           [] f = "bitrateKbps" /\ served.kbps > 0 /\ "durationMs" \in DOMAIN t -> served.kbps
           [] OTHER -> t[f]]

-----------------------------------------------------------------------------
(* What the wire takes: texts are bytes, ids have 32 bits, and so have the  *)
(* lengths and counts of whatever is listed.                                *)

IsText(s) ==
  \A cs \in {Utf8, MacRoman} : Encode(cs, s) \in Seq(0 .. 255) /\ Len(Encode(cs, s)) <= MaxText

IsTrack(t) ==
  /\ {"id", "title", "format"} \subseteq DOMAIN t
  /\ t.id \in 0 .. U32Max /\ IsText(t.title) /\ t.format \in DOMAIN FormatString
  /\ \A i \in 1 .. Len(Strings) : Strings[i].of \in DOMAIN t => IsText(t[Strings[i].of])
  /\ \A i \in 1 .. Len(Numbers) : Numbers[i].of \in DOMAIN t => t[Numbers[i].of] \in Nat

\* A listing of the longest, of entries with the longest texts, is counted by
\* 32 bits; every source has a database.
ASSUME WireAssumption ==
  /\ Longest \in Nat /\ MaxText \in Nat /\ Longest * (6 * MaxText + 150) + 64 <= U32Max
  /\ Cardinality(Tracks) <= Longest /\ Len(Lists) < Longest
  /\ Len(Databases) \in 1 .. Longest
  /\ \A t \in Tracks : IsTrack(Meta[t.id]) /\ Meta[t.id].id = t.id
  /\ \A i \in 1 .. Len(Lists) :
       /\ Lists[i].id <= U32Max /\ IsText(Lists[i].title)
       /\ Len(Lists[i].trackIds) <= Longest
       /\ \A j \in 1 .. Len(Lists[i].trackIds) : Lists[i].trackIds[j] <= U32Max
  /\ \A i \in 1 .. Len(Databases) : Databases[i].id \in 0 .. U32Max /\ IsText(Databases[i].name)
  /\ \A f \in DOMAIN FormatString :
       /\ ServedAs[f].format \in DOMAIN FormatString /\ ServedAs[f].kbps \in Nat
       /\ IsText(FormatString[f])
  /\ IsText(Library) /\ IsText(Name)

\* What a track says can be written, and its numbers fit the fields they are
\* put into; only the size is cut to its field.
TrackFits(t) ==
  /\ Writable(t.title)
  /\ \A i \in 1 .. Len(Strings) : Strings[i].of \in DOMAIN t => Writable(t[Strings[i].of])
  /\ \A i \in 1 .. Len(Numbers) :
       Numbers[i].of \in DOMAIN t /\ Numbers[i].of # "sizeBytes" =>
         t[Numbers[i].of] <= IF Numbers[i].width = 2 THEN Byte * Byte - 1 ELSE U32Max

\* All names and texts are such.  The numbers of a track have the types of their
\* fields, but the bitrate, which is one of 32 bits put into 16.
ASSUME TextAssumption ==
  /\ \A t \in Tracks : TrackFits(Meta[t.id])
  /\ \A f \in DOMAIN FormatString : ServedAs[f].kbps <= Byte * Byte - 1
  /\ \A i \in 1 .. Len(Lists) : Writable(Lists[i].title)
  /\ \A i \in 1 .. Len(Databases) : Writable(Databases[i].name)
  /\ Writable(Library) /\ Writable(Name)

-----------------------------------------------------------------------------
ListOf(id) == CHOOSE p \in {Lists[i] : i \in 1 .. Len(Lists)} : p.id = id

\* The strings of ids alone need no charset.
Response(answer) ==
  LET ids == Ids(answer.entries)
      libraryHere == ids # <<>> /\ ids[1] = LibraryId
      extras == IF libraryHere THEN Tail(ids) ELSE ids
  IN  CASE req.endpoint = "items" ->
             DmapResponseCs(ItemsBody([i \in 1 .. Len(ids) |-> AsListed(Meta[ids[i]])],
                                      answer.total, Cs), Cs)
        [] req.endpoint = "containers" ->
             DmapResponseCs(PlaylistsBody(LibraryId, Cardinality(Tracks),
                                          [i \in 1 .. Len(extras) |->
                                             [id |-> extras[i], name |-> ListOf(extras[i]).title,
                                              trackIds |-> ListOf(extras[i]).trackIds]],
                                          libraryHere, answer.total, Cs), Cs)
        [] req.endpoint = "container" ->
             IF WantsFullMetadata(req.meta)
             THEN DmapResponseCs(PlaylistSongsFullBody(answer.entries, Meta, answer.total, Cs), Cs)
             ELSE DmapResponse(PlaylistSongsBody(answer.entries, answer.total))

\* The same answer, as the client reads it.
AsRead(reading) ==
  LET entries == All(The(Body(reading), list.listing), list.listingItem)
  IN  Answer([i \in 1 .. Len(entries) |->
                [id |-> The(entries[i], dmap.itemId),
                 mpco |-> IF Has(entries[i], dmap.parentContainerId)
                          THEN The(entries[i], dmap.parentContainerId) ELSE None]],
             The(Body(reading), dmap.totalMatched))

ReadPage(answer, nextStart(_)) ==
  /\ step = "page" /\ status = "paging"
  /\ IF answer.is = "ok"
     THEN /\ heard' = Heard(Response(answer))
          /\ Receive(AsRead(heard'), nextStart(AsRead(heard')))
     ELSE /\ UNCHANGED heard
          /\ Receive(answer, nextStart(answer))
  /\ UNCHANGED <<step, hdr, crowd, dict, counts, updating, session>>

ReadNextPage ==
  \E order \in Orders : ReadPage(PageOf(order), LAMBDA a : start + req.page)

ReadRest ==
  \E order \in Orders : ReadPage(RestOf(order), AfterRest)

ReadWhole ==
  /\ start = first /\ first = 0
  /\ \E order \in Orders, wellformed \in BOOLEAN :
       ReadPage(WholeOf(order, wellformed), LAMBDA a : a.total)

DaapNext ==
  \/ ContentCodes \/ ServerInfo \/ Update \/ UpdateEnds \/ ListDatabases \/ Ask
  \/ ReadNextPage \/ ReadRest \/ ReadWhole
  \/ \E c \in {Me} \cup crowd : TakeId(c) \/ LoggedIn(c) \/ Logout(c)

DaapSpec == DaapInit /\ [][DaapNext]_daapVars

-----------------------------------------------------------------------------
\* The DAAP names of what a track has.
StringTags == [artist |-> "asar", album |-> "asal", albumArtist |-> "asaa", genre |-> "asgn"]
NumberTags == [trackNumber |-> "astn", discNumber |-> "asdn", year |-> "asyr",
               durationMs |-> "astm", bitrateKbps |-> "asbr", sampleRate |-> "assr",
               sizeBytes |-> "assz"]

\* A client that shows entry e, whose texts are in charset, shows track t: what
\* the track has and nothing else, legibly, and its numbers, but that a size
\* beyond 32 bits is the largest there is.
TrackReads(charset, e, t) ==
  /\ Legible(charset, t.title, Shown(charset, The(e, "minm")))
  /\ \A f \in DOMAIN StringTags :
       /\ Has(e, StringTags[f]) <=> f \in DOMAIN t
       /\ f \in DOMAIN t => Legible(charset, t[f], Shown(charset, The(e, StringTags[f])))
  /\ \A f \in DOMAIN NumberTags :
       /\ Has(e, NumberTags[f]) <=> f \in DOMAIN t
       /\ f \in DOMAIN t =>
            The(e, NumberTags[f]) = IF f = "sizeBytes" /\ t[f] > U32Max THEN U32Max ELSE t[f]

NameReads(charset, fields, name) == Legible(charset, name, Shown(charset, The(fields, "minm")))

\* The entries of the listing that a reading has under a tag.
ListedIn(fields, tag) == ToSet(All(The(The(fields, tag), "mlcl"), "mlit"))

Got(tag) == Has(heard.fields, tag)
Items(tag) == ListedIn(heard.fields, tag)

\* What is read is what was meant.
Conveyed(reading) ==
  LET fields == reading.fields
      cs == reading.charset
  IN  /\ WellFormed(fields)
      /\ cs = MacRoman =>
           ToSet(hdr.accept) \cap {"x-mac-roman", "macintosh", "mac-roman", "macroman"} # {}
      /\ The(Body(reading), "mstt") = 200
      /\ Has(fields, "msrv") => NameReads(cs, Body(reading), Name)
      /\ Has(fields, "avdb") => \A e \in ListedIn(fields, "avdb") : \E i \in 1 .. Len(Databases) :
           The(e, "miid") = Databases[i].id /\ NameReads(cs, e, Databases[i].name)
      /\ Has(fields, "adbs") => \A e \in ListedIn(fields, "adbs") :
           TrackReads(cs, e, AsListed(Meta[The(e, "miid")]))
      /\ Has(fields, "apso") /\ WantsFullMetadata(req.meta) =>
           \A e \in ListedIn(fields, "apso") : TrackReads(cs, e, Meta[The(e, "miid")])
      /\ Has(fields, "aply") => \A e \in ListedIn(fields, "aply") :
           IF Has(e, "abpl") THEN NameReads(cs, e, Library) /\ The(e, "miid") = LibraryId
           ELSE NameReads(cs, e, ListOf(The(e, "miid")).title)

\* Whatever the server answers, a client that has only the dictionary of
\* /content-codes and the charset of the answer reads from it what the server
\* meant: every length nests, every value has its type's width, a listing has
\* the entries it counts, and names and metadata are legible to a client that
\* reads UTF-8 and to one that reads MacRoman.
ReadsBack == heard # Silence => Conveyed(heard)

\* A client plans its listings by counts it is told elsewhere: those of
\* /server-info, /databases and /containers are the lengths of the listings
\* they speak of, on every page.
CountsAgree ==
  /\ status # "idle" =>
       /\ TotalIsWhole
       /\ req.endpoint = "items" /\ req.query = NoQuery => totals \subseteq counts.tracks
       /\ req.endpoint = "containers" => totals \subseteq counts.lists
       /\ req.endpoint = "container" /\ req.cid = LibraryId => totals \subseteq counts.tracks
  /\ Got("avdb") => counts.databases = {The(Body(heard), "mtco")}
  /\ Got("aply") => \A e \in Items("aply") :
       IF Has(e, "abpl") THEN {The(e, "mimc")} = counts.tracks
       ELSE The(e, "mimc") = Len(Entries(The(e, "miid")))

\* No two clients that are logged in have the same session, and a session
\* lives until its own client ends it, whoever else comes and goes.
SessionsDistinct ==
  /\ \A c, d \in DOMAIN sid : c # d /\ "none" \notin {sid[c].is, sid[d].is} => sid[c].id # sid[d].id
  /\ \A c \in DOMAIN sid : sid[c].is = "in" => sid[c].id \in live

\* An /update that is answered tells the client something new, unless a year
\* has passed: a client that fetches everything again after each answer would
\* never come to rest otherwise.  And who has not the revision is not kept waiting.
UpdateIsNews ==
  [][~waiting => /\ updates' # updates => known' # known
                 /\ waiting' => known = Revision]_daapVars
=============================================================================
