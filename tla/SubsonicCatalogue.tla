------------------------- MODULE SubsonicCatalogue -------------------------
(***************************************************************************)
(* How the Subsonic backend comes to its catalogue: the credentials        *)
(* (main.rs), connect (media-source-subsonic lib.rs), build (catalogue.rs) *)
(* and the requests of client.rs.                                          *)
(*                                                                         *)
(* Artists and then albums are asked for with a bounded number of requests *)
(* under way, whose answers come in any order; any request may fail (a     *)
(* transport error, a status, an envelope that is not "ok", a payload that *)
(* does not parse).  An album may be listed under several artists.         *)
(***************************************************************************)
EXTENDS MediaSource

CONSTANTS
  Artists,      \* getArtists: the artists in the order of the index
  AlbumsOf,     \* getArtist: the albums of each
  SongsOf,      \* getAlbum: the songs of each album, [song, texts]
  ServerLists,  \* getPlaylists: the playlists of the server
  EntriesOf,    \* getPlaylist: the songs of each
  Concurrency   \* ALBUM_FETCH_CONCURRENCY

\* Every artist, album and playlist that is listed can be asked for.
ASSUME SubsonicAssumption ==
  /\ Concurrency \in Nat \ {0}
  /\ Artists \in Seq(DOMAIN AlbumsOf)
  /\ \A a \in DOMAIN AlbumsOf : AlbumsOf[a] \in Seq(DOMAIN SongsOf)
  /\ \A b \in DOMAIN SongsOf : SongsOf[b] \in Seq(ToSet(SongsOf[b]))
  /\ ServerLists \in Seq(DOMAIN EntriesOf)
  /\ \A l \in DOMAIN EntriesOf : EntriesOf[l] \in Seq(ToSet(EntriesOf[l]))

VARIABLES
  asked,    \* the artists or albums to ask for
  sent,     \* how many of them were asked for
  flying,   \* the positions of those under way
  answers,  \* what the answers brought, in the order they came
  index,    \* id_index: the track of each song
  lists     \* the playlists still to be fetched

subsonicVars == <<asked, sent, flying, answers, index, lists>>

SubsonicInit ==
  /\ asked = <<>> /\ sent = 0 /\ flying = {} /\ answers = <<>>
  /\ index = <<>> /\ lists = <<>>

SubsonicForgets ==
  /\ asked' = <<>> /\ sent' = 0 /\ flying' = {} /\ answers' = <<>>
  /\ index' = <<>> /\ lists' = <<>>

Steps(to) == pc' = to /\ UNCHANGED <<args, starts>>

-----------------------------------------------------------------------------
(* connect *)

\* An API key is preferred; a user needs a password.
TakeCredentials ==
  /\ pc = "start" /\ args.source = "subsonic"
  /\ Steps(IF args.apiKey \/ (args.user /\ args.password) THEN "ping" ELSE "exited")
  /\ UNCHANGED <<subsonicVars, cat, missed>>

Pong ==
  /\ pc = "ping"
  /\ Steps("index")
  /\ UNCHANGED <<subsonicVars, cat, missed>>

\* No ping, or no index of artists: the process ends.
ServerFails ==
  /\ pc \in {"ping", "index"}
  /\ Steps("exited")
  /\ UNCHANGED <<subsonicVars, cat, missed>>

-----------------------------------------------------------------------------
(* build *)

AsksFor(ids) == asked' = ids /\ sent' = 0 /\ flying' = {} /\ answers' = <<>>

ArtistsKnown ==
  /\ pc = "index"
  /\ AsksFor(Artists)
  /\ Steps("artists")
  /\ UNCHANGED <<index, lists, cat, missed>>

\* buffer_unordered: requests start in order, as long as there is room.
Send ==
  /\ pc \in {"artists", "albums"}
  /\ sent < Len(asked)
  /\ Cardinality(flying) < Concurrency
  /\ sent' = sent + 1
  /\ flying' = flying \cup {sent + 1}
  /\ UNCHANGED <<common, asked, answers, index, lists>>

Brings(id) == IF pc = "artists" THEN AlbumsOf[id] ELSE SongsOf[id]

Answer(n) ==
  /\ pc \in {"artists", "albums"}
  /\ n \in flying
  /\ flying' = flying \ {n}
  /\ answers' = answers \o Brings(asked[n])
  /\ UNCHANGED <<common, asked, sent, index, lists>>

\* An artist or album that fails is left out.
RequestFails(n) ==
  /\ pc \in {"artists", "albums"}
  /\ n \in flying
  /\ flying' = flying \ {n}
  /\ missed' = missed \cup {asked[n]}
  /\ UNCHANGED <<args, starts, pc, cat, asked, sent, answers, index, lists>>

AllAnswered == sent = Len(asked) /\ flying = {}

AlbumsKnown ==
  /\ pc = "artists"
  /\ AllAnswered
  /\ AsksFor(answers)
  /\ Steps("albums")
  /\ UNCHANGED <<index, lists, cat, missed>>

\* Of a song that came twice, the later track stays in the map.
IndexOf(tracks) ==
  [s \in {tracks[i].song : i \in 1 .. Len(tracks)} |->
     CHOOSE i \in 1 .. Len(tracks) :
       /\ tracks[i].song = s
       /\ \A j \in i + 1 .. Len(tracks) : tracks[j].song # s]

\* Tracks are numbered in the order in which their albums came.
SongsKnown ==
  /\ pc = "albums"
  /\ AllAnswered
  /\ cat' = [cat EXCEPT !.items = NumberedFrom(answers, 1)]
  /\ index' = IndexOf(NumberedFrom(answers, 1))
  /\ AsksFor(<<>>)
  /\ Steps("lists")
  /\ UNCHANGED <<lists, missed>>

ListsKnown ==
  /\ pc = "lists"
  /\ lists' = ServerLists
  /\ Steps("list")
  /\ UNCHANGED <<asked, sent, flying, answers, index, cat, missed>>

\* getPlaylists fails: the tracks are served without playlists.
ListsFail ==
  /\ pc = "lists"
  /\ missed' = missed \cup ToSet(ServerLists)
  /\ Steps("serving")
  /\ UNCHANGED <<subsonicVars, cat>>

Resolved(entries) ==
  LET known == Kept(entries, LAMBDA s : s \in DOMAIN index)
  IN  [i \in 1 .. Len(known) |-> index[known[i]]]

\* A playlist of which no song is known is left out and takes no id.
ListKnown ==
  /\ pc = "list" /\ lists # <<>>
  /\ LET tracks == Resolved(EntriesOf[Head(lists)])
     IN  cat' = IF tracks = <<>> THEN cat
                ELSE [cat EXCEPT !.playlists =
                        Append(@, [id |-> FirstListId + Len(@), of |-> Head(lists),
                                   name |-> <<Head(lists)>>, tracks |-> tracks])]
  /\ lists' = Tail(lists)
  /\ UNCHANGED <<args, starts, pc, missed, asked, sent, flying, answers, index>>

ListFails ==
  /\ pc = "list" /\ lists # <<>>
  /\ missed' = missed \cup {Head(lists)}
  /\ lists' = Tail(lists)
  /\ UNCHANGED <<args, starts, pc, cat, asked, sent, flying, answers, index>>

ListsDone ==
  /\ pc = "list" /\ lists = <<>>
  /\ Steps("serving")
  /\ UNCHANGED <<subsonicVars, cat, missed>>

SubsonicStep ==
  \/ TakeCredentials \/ Pong \/ ArtistsKnown \/ AlbumsKnown \/ SongsKnown
  \/ Send \/ \E n \in flying : Answer(n)
  \/ ListsKnown \/ ListKnown \/ ListsDone

SubsonicFails ==
  ServerFails \/ ListsFail \/ ListFails \/ \E n \in flying : RequestFails(n)

-----------------------------------------------------------------------------
(* What the server holds, by definition *)

AlbumsHeld == UNION {ToSet(AlbumsOf[a]) : a \in ToSet(Artists)}
SubsonicSongs == {s.song : s \in UNION {ToSet(SongsOf[b]) : b \in AlbumsHeld}}
=============================================================================
