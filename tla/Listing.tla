------------------------------ MODULE Listing ------------------------------
(***************************************************************************)
(* The paged listings of http.rs: handle_items, handle_containers and      *)
(* handle_container_items, with the order of sort.rs and the filter of     *)
(* search.rs.  A client asks for one page after the other; every request   *)
(* starts from a source that may hand out its tracks in another order, so  *)
(* only what the server does to them can make the pages join.              *)
(*                                                                         *)
(* A track is its id and the values of the fields it is sorted by; a value *)
(* is its rank (strings after folding case) or None.                       *)
(***************************************************************************)
EXTENDS Walk, FiniteSets, SequencesExt

CONSTANTS
  Tracks,      \* the tracks of the source
  Orders,      \* the orders the source may answer in
  Lists,       \* the source's playlists: [id, name, trackIds]; ids may dangle
  Sorts,       \* the values of sort=: sequences of keys
  Queries,     \* the values of query=: sets of [field, hits] clauses, hits
               \* being the values that contain the needle
  Endpoints,   \* the listings a client asks for
  Cids,        \* the playlists whose items it asks for, known or not
  Metas,       \* the values of meta=: sequences of field names
  MaxPage,     \* the longest page
  None         \* a field that is missing

\* The id of the playlist that the server makes up of all tracks.
LibraryId == 1

\* What may be sorted by: a field that every track has, with a value or None.
IsKey(key) ==
  /\ key.desc \in BOOLEAN
  /\ \A t \in Tracks : key.field \in DOMAIN t /\ t[key.field] \in Nat \cup {None}

\* The ids of tracks and of playlists identify, and no playlist has the one of
\* the Library; the source answers with all its tracks, each once.
ASSUME ListingAssumption ==
  /\ None \notin Nat
  /\ IsFiniteSet(Tracks)
  /\ \A t \in Tracks : t.id \in Nat
  /\ \A t, u \in Tracks : t.id = u.id => t = u
  /\ Orders # {}
  /\ \A order \in Orders :
       /\ order \in Seq(Tracks)
       /\ \A i, j \in 1 .. Len(order) : order[i] = order[j] => i = j
       /\ \A t \in Tracks : \E i \in 1 .. Len(order) : order[i] = t
  /\ Lists \in Seq({Lists[i] : i \in DOMAIN Lists})
  /\ \A i \in 1 .. Len(Lists) : /\ Lists[i].id \in Nat \ {LibraryId}
                              /\ Lists[i].trackIds \in Seq(Nat)
  /\ \A i, j \in 1 .. Len(Lists) : Lists[i].id = Lists[j].id => i = j
  /\ \A keys \in Sorts : /\ Len(keys) \in Nat
                        /\ \A n \in 1 .. Len(keys) : IsKey(keys[n])
  /\ \A query \in Queries : \A c \in query :
       c.field # "unknown" => \A t \in Tracks : c.field \in DOMAIN t
  /\ \A t \in Tracks : "unknown" \notin DOMAIN t
  /\ Endpoints \subseteq {"items", "containers", "container"}
  /\ Cids \subseteq Nat
  /\ MaxPage \in Nat

\* A playlist's name is a rank, and so are its parts when it is dated.
ASSUME NameAssumption ==
  \A i \in 1 .. Len(Lists) :
    LET name == Lists[i].name
    IN  name.text \in Nat /\ (name.dated # <<>> => \A n \in 1 .. 3 : name.dated[n] \in Nat)

VARIABLES
  req,      \* what the client asks for
  first,    \* where it began
  start,    \* the index of its next page
  got,      \* the entries of the pages so far: [id, mpco]
  totals,   \* the mtco of the pages so far
  status    \* "paging", "done", "refused" or "panicked"

vars == <<req, first, start, got, totals, status>>

\* sort= and query= may be absent, malformed, or parse to keys or clauses.
NoSort == [is |-> "absent", keys |-> <<>>]
BadSort == [is |-> "malformed", keys |-> <<>>]
By(keys) == [is |-> "parsed", keys |-> keys]

NoQuery == [is |-> "absent", clauses |-> {}]
BadQuery == [is |-> "malformed", clauses |-> {}]
Search(clauses) == [is |-> "parsed", clauses |-> clauses]

Request(endpoint, sorts, queries, cids, metas) ==
  [endpoint : {endpoint}, sort : sorts, query : queries, cid : cids, meta : metas,
   page : 1 .. MaxPage]

Requests ==
  LET sorts == {NoSort, BadSort} \cup {By(k) : k \in Sorts}
      queries == {NoQuery, BadQuery} \cup {Search(c) : c \in Queries}
  IN  {r \in Request("items", sorts, queries, {LibraryId}, {<<>>})
         \cup Request("containers", {NoSort}, {NoQuery}, {LibraryId}, {<<>>})
         \cup Request("container", sorts, {NoQuery}, Cids, Metas) : r.endpoint \in Endpoints}

Init ==
  /\ req \in Requests
  /\ first \in 0 .. Cardinality(Tracks) + 1
  /\ start = first
  /\ got = <<>>
  /\ totals = {}
  /\ status = "paging"

-----------------------------------------------------------------------------
(* sort.rs *)

Cmp(x, y, desc) ==
  CASE x = y    -> "equal"
    [] x # y /\ y = None -> "less"
    [] x # y /\ x = None -> "greater"
    [] OTHER    -> IF (x < y) # desc THEN "less" ELSE "greater"

CmpKey(a, b, key) == Cmp(a[key.field], b[key.field], key.desc)

\* Fault: no final tie-breaker.
LessByKeysOnly(a, b, keys) ==
  \E n \in 1 .. Len(keys) :
    /\ CmpKey(a, b, keys[n]) = "less"
    /\ \A m \in 1 .. n - 1 : CmpKey(a, b, keys[m]) = "equal"

Less(a, b, keys) ==
  \/ \E n \in 1 .. Len(keys) :
       /\ CmpKey(a, b, keys[n]) = "less"
       /\ \A m \in 1 .. n - 1 : CmpKey(a, b, keys[m]) = "equal"
  \/ /\ \A n \in 1 .. Len(keys) : CmpKey(a, b, keys[n]) = "equal"
     /\ a.id < b.id

\* slice::sort_by: entries that compare equal keep their order.
StableSort(s, Before(_, _)) ==
  LET rank(i) == Cardinality({j \in 1 .. Len(s) :
                   \/ Before(s[j], s[i])
                   \/ ~Before(s[i], s[j]) /\ j <= i})
  IN  [r \in 1 .. Len(s) |-> s[CHOOSE i \in 1 .. Len(s) : rank(i) = r]]

SortTracks(s, sort) == StableSort(s, LAMBDA a, b : Less(a, b, sort.keys))

-----------------------------------------------------------------------------
(* search.rs: any clause matches; an unknown field never does. *)

Matches(query, t) ==
  \E c \in query.clauses : c.field \in DOMAIN t /\ t[c.field] \in c.hits

-----------------------------------------------------------------------------
(* The index= parameter *)

NoRange == [range |-> FALSE]

\* A-B with B < A is as good as no index at all, and so is what does not parse.
ParseIndex(raw) ==
  IF ~raw.wellformed \/ (~raw.open /\ raw.b < raw.a) THEN NoRange
  ELSE [range |-> TRUE, start |-> raw.a, open |-> raw.open, end |-> raw.b]

\* The last index that is wanted and there.
LastOf(range, len) ==
  IF range.open \/ range.end > len - 1 THEN len - 1 ELSE range.end

ApplyIndexRange(all, range) ==
  CASE ~range.range             -> all
    [] range.range /\ range.start >= Len(all) -> <<>>
    [] OTHER -> SubSeq(all, range.start + 1, LastOf(range, Len(all)) + 1)

\* Library is entry 0, the others follow: extras[i] lives at i + 1.
SlicePlaylists(range, extras) ==
  CASE ~range.range                               -> <<LibraryId>> \o extras
    [] range.range /\ range.start >= 1 + Len(extras) -> <<>>
    [] OTHER ->
         (IF range.start = 0 THEN <<LibraryId>> ELSE <<>>)
           \o SubSeq(extras, (IF range.start = 0 THEN 0 ELSE range.start - 1) + 1,
                             LastOf(range, 1 + Len(extras)))

-----------------------------------------------------------------------------
(* The handlers: what they answer for one order of the source. *)

Ids(s) == [i \in 1 .. Len(s) |-> s[i].id]

\* Fault: the position starts anew on every page.
NumberedFromOne(ids, offset) ==
  [i \in 1 .. Len(ids) |-> [id |-> ids[i], mpco |-> i]]

\* playlist_songs and playlist_songs_full: mpco counts the entries sent.
Numbered(ids, offset) ==
  [i \in 1 .. Len(ids) |-> [id |-> ids[i], mpco |-> offset + i]]

\* Entries of the other listings have no position.
Unnumbered(ids) == [i \in 1 .. Len(ids) |-> [id |-> ids[i], mpco |-> None]]

Known == {t.id : t \in Tracks}
TrackOf(id) == CHOOSE t \in Tracks : t.id = id
Resolved(ids) == Kept(ids, Known)

Offset(range) == IF range.range THEN range.start ELSE 0

Answer(entries, total) == [is |-> "ok", entries |-> entries, total |-> total]
Panics == [is |-> "panicked", entries |-> <<>>, total |-> 0]
BadRequest == [is |-> "refused", entries |-> <<>>, total |-> 0]

Matching(order) ==
  Kept(order, {t \in Tracks : req.query = NoQuery \/ Matches(req.query, t)})

HandleItems(order, range) ==
  LET sorted == SortTracks(Matching(order), req.sort)
  IN  IF req.query = BadQuery \/ req.sort = BadSort THEN BadRequest
      ELSE Answer(Unnumbered(Ids(ApplyIndexRange(sorted, range))), Len(sorted))

\* "Artist - Album (1970)" sorts by artist, year and album, any other name by
\* itself, after the dated ones.  A name is the rank of its text and, if it has
\* that shape, the ranks of its parts, 0 for an empty one.
YearMax == 65535

PlaylistSortKey(name) ==
  IF name.dated # <<>> /\ name.dated[1] # 0 /\ name.dated[3] # 0
  THEN name.dated ELSE <<name.text, YearMax, name.text>>

KeyBefore(x, y) ==
  \E n \in 1 .. 3 : x[n] < y[n] /\ \A m \in 1 .. n - 1 : x[m] = y[m]

PlaylistOrder(extras) ==
  StableSort(extras, LAMBDA p, q : KeyBefore(PlaylistSortKey(p.name), PlaylistSortKey(q.name)))

HandleContainers(range) ==
  LET extras == PlaylistOrder(Lists)
  IN  Answer(Unnumbered(SlicePlaylists(range, Ids(extras))), 1 + Len(extras))

HandleIds(ids, range) ==
  Answer(Numbered(ApplyIndexRange(ids, range), Offset(range)), Len(ids))

\* meta=all without sort=: the page is cut, then looked up.
HandleFull(ids, range) ==
  Answer(Numbered(Resolved(ApplyIndexRange(ids, range)), Offset(range)), Len(ids))

\* meta=all with sort=: looked up, sorted, then cut, by bounds of its own.
\* With nothing to cut, start and end_incl are both 0 and the slice panics.
HandleFullSorted(ids, range) ==
  LET all == SortTracks([i \in 1 .. Len(Resolved(ids)) |-> TrackOf(Resolved(ids)[i])],
                        req.sort)
      from == Offset(range)
  IN  CASE all = <<>> /\ from = 0 -> Panics
        [] range.range /\ from > 0 /\ from >= Len(all) -> Answer(<<>>, Len(ids))
        [] OTHER -> Answer(Numbered(Ids(ApplyIndexRange(all, range)), from), Len(ids))

WantsFullMetadata(meta) == \E i \in 1 .. Len(meta) : meta[i] = "all"

\* The ids of a playlist: the Library is every track as the source gives them,
\* an unknown playlist is an empty one.
IdsOf(order, cid) ==
  LET hits == {i \in 1 .. Len(Lists) : Lists[i].id = cid}
  IN  CASE cid = LibraryId -> Ids(order)
        [] cid # LibraryId /\ hits = {} -> <<>>
        [] OTHER -> Lists[CHOOSE i \in hits : \A j \in hits : i <= j].trackIds

HandleContainerItems(order, range) ==
  LET ids == IdsOf(order, req.cid)
  IN  CASE ~WantsFullMetadata(req.meta) -> HandleIds(ids, range)
        [] WantsFullMetadata(req.meta) /\ req.sort = BadSort -> BadRequest
        [] WantsFullMetadata(req.meta) /\ req.sort = NoSort -> HandleFull(ids, range)
        [] OTHER -> HandleFullSorted(ids, range)

Handle(order, range) ==
  CASE req.endpoint = "items"      -> HandleItems(order, range)
    [] req.endpoint = "containers" -> HandleContainers(range)
    [] req.endpoint = "container"  -> HandleContainerItems(order, range)

-----------------------------------------------------------------------------
Receive(answer, next) ==
  /\ got' = got \o answer.entries
  /\ totals' = IF answer.is = "ok" THEN totals \cup {answer.total} ELSE totals
  /\ start' = next
  /\ status' = CASE answer.is # "ok" -> answer.is
                 [] answer.is = "ok" /\ next >= answer.total -> "done"
                 [] OTHER -> "paging"
  /\ UNCHANGED <<req, first>>

\* The three ways to ask: index=A-B, page after page, until mtco is reached;
\* index=A-, the rest; and no index, one that does not parse, or one that ends
\* before it begins, the whole.
PageOf(order) ==
  Handle(order, ParseIndex([wellformed |-> TRUE, open |-> FALSE, a |-> start,
                            b |-> start + req.page - 1]))

RestOf(order) ==
  Handle(order, ParseIndex([wellformed |-> TRUE, open |-> TRUE, a |-> start, b |-> 0]))

WholeOf(order, wellformed) ==
  Handle(order, ParseIndex([wellformed |-> wellformed, open |-> FALSE, a |-> 2, b |-> 1]))

AfterRest(answer) == IF answer.total > start THEN answer.total ELSE start

FetchPage ==
  /\ status = "paging"
  /\ \E order \in Orders : Receive(PageOf(order), start + req.page)

FetchRest ==
  /\ status = "paging"
  /\ \E order \in Orders : Receive(RestOf(order), AfterRest(RestOf(order)))

FetchWhole ==
  /\ status = "paging" /\ start = first /\ first = 0
  /\ \E order \in Orders, wellformed \in BOOLEAN :
       Receive(WholeOf(order, wellformed), WholeOf(order, wellformed).total)

Next == FetchPage \/ FetchRest \/ FetchWhole

Spec == Init /\ [][Next]_vars

-----------------------------------------------------------------------------
(* What a listing should be, by definition. *)

\* a belongs before b: the first key that tells them apart says so, a missing
\* value comes last in both directions, and the id decides the rest.
Precedes(a, b, keys) ==
  LET from[n \in 1 .. Len(keys) + 1] ==
        IF n > Len(keys) THEN a.id < b.id
        ELSE LET x == a[keys[n].field]
                 y == b[keys[n].field]
             IN  CASE x = y -> from[n + 1]
                   [] x # y /\ None \in {x, y} -> y = None
                   [] OTHER -> IF keys[n].desc THEN y < x ELSE x < y
  IN  from[1]

Wanted ==
  {t \in Tracks :
     \/ req.query = NoQuery
     \/ \E c \in req.query.clauses : c.field # "unknown" /\ t[c.field] \in c.hits}

\* The ids of a sequence of tracks in the order asked for; a track that is in
\* it twice stays so.
InOrder(s, keys) ==
  LET before(i, j) == Precedes(s[i], s[j], keys) \/ (s[i] = s[j] /\ i < j)
      rank(i) == Cardinality({j \in 1 .. Len(s) : before(j, i)}) + 1
  IN  [r \in 1 .. Len(s) |-> s[CHOOSE i \in 1 .. Len(s) : rank(i) = r].id]

From(s) == SubSeq(s, first + 1, Len(s))

Listed(S) == Kept(CHOOSE order \in Orders : TRUE, S)

GotIds == [i \in 1 .. Len(got) |-> got[i].id]

Entries(cid) == (CHOOSE p \in {Lists[i] : i \in 1 .. Len(Lists)} : p.id = cid).trackIds

\* The pages carry entries of the listing.
TypeOK ==
  /\ status \in {"paging", "done", "refused", "panicked"}
  /\ first <= start
  /\ totals \subseteq Nat
  /\ \A i \in 1 .. Len(got) : got[i].mpco \in (Nat \ {0}) \cup {None}

\* The pages of /items join to the tracks that match, each once, in the order
\* asked for, though the source may answer every request in another order
\* ("so index=0-199 + index=200-399 concatenate without drift").
ItemPagesJoin ==
  status = "done" /\ req.endpoint = "items" => GotIds = From(InOrder(Listed(Wanted), req.sort.keys))

\* So do the pages of a playlist, with and without full metadata: without
\* sort= in the playlist's own order, ids without a track left out.  The
\* Library is pinned by sort= only.
PlaylistPagesJoin ==
  status = "done" /\ req.endpoint = "container" /\ (\E i \in 1 .. Len(Lists) : Lists[i].id = req.cid) =>
    LET ids == Entries(req.cid)
        there == Resolved(ids)
    IN  GotIds = CASE ~WantsFullMetadata(req.meta) -> From(ids)
                   [] WantsFullMetadata(req.meta) /\ req.sort = NoSort -> Resolved(From(ids))
                   [] OTHER -> From(InOrder([i \in 1 .. Len(there) |-> TrackOf(there[i])], req.sort.keys))

LibraryPagesJoin ==
  (/\ status = "done" /\ req.endpoint = "container" /\ req.cid = LibraryId
   /\ WantsFullMetadata(req.meta) /\ req.sort # NoSort)
    => GotIds = From(InOrder(Listed(Tracks), req.sort.keys))

\* The Library is entry 0 of the playlists and appears once, wherever the
\* pages are cut.
ContainerPagesJoin ==
  status = "done" /\ req.endpoint = "containers" =>
    GotIds = From(<<LibraryId>> \o Ids(PlaylistOrder(Lists)))

\* The pages of every listing join to it.
PagesJoin == ItemPagesJoin /\ PlaylistPagesJoin /\ LibraryPagesJoin /\ ContainerPagesJoin

\* No two entries of a playlist have the same position, nor do positions go
\* backwards from page to page.
PositionsGrow ==
  \A i, j \in 1 .. Len(got) :
    i < j /\ None \notin {got[i].mpco, got[j].mpco} => got[i].mpco < got[j].mpco

\* mtco is the length of the whole listing on every page of it.
TotalIsWhole ==
  \A n \in totals :
    n = CASE req.endpoint = "items"      -> Cardinality(Wanted)
          [] req.endpoint = "containers" -> 1 + Len(Lists)
          [] req.endpoint = "container" /\ req.cid = LibraryId -> Cardinality(Tracks)
          [] OTHER -> IF \E i \in 1 .. Len(Lists) : Lists[i].id = req.cid
                      THEN Len(Entries(req.cid)) ELSE 0

\* An empty playlist is a listing like any other.
AlwaysAnswered == status # "panicked"
=============================================================================
