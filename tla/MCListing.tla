----------------------------- MODULE MCListing -----------------------------
(***************************************************************************)
(* A library of four tracks for Listing: two that only their id tells      *)
(* apart, one without artist and one without year; and four playlists: two *)
(* albums of one artist, a name that only looks like one, and plain names. *)
(***************************************************************************)
EXTENDS Listing

T(i, a, y) == [id |-> i, artist |-> a, year |-> y]

FourTracks == {T(1, 2, 7), T(2, 1, None), T(3, 2, 7), T(4, None, 8)}

Key(f, d) == [field |-> f, desc |-> d]

MCSorts == {<<Key("artist", FALSE)>>, <<Key("year", TRUE)>>,
            <<Key("artist", TRUE), Key("year", FALSE)>>}

MCQueries == {{[field |-> "artist", hits |-> {1, 2}], [field |-> "year", hits |-> {8}]},
              {[field |-> "unknown", hits |-> {2}]}}

\* The source in ascending order, in descending order, and shuffled.
Ascending == <<T(1, 2, 7), T(2, 1, None), T(3, 2, 7), T(4, None, 8)>>
AnyOrder == {Ascending, Reverse(Ascending), <<T(3, 2, 7), T(1, 2, 7), T(4, None, 8), T(2, 1, None)>>}
OneOrder == {Ascending}

NoQueries == {}

\* Playlist 2 has an order of its own and one track twice, the first entry of
\* 3 dangles, 5 is empty.
P(i, text, dated, ids, title) ==
  [id |-> i, name |-> [text |-> text, dated |-> dated], trackIds |-> ids, title |-> title]

FourLists == <<P(3, 1, <<4, 1975, 2>>, <<9, 2, 1, 3>>, <<66, 246>>),
               P(2, 2, <<4, 1970, 3>>, <<4, 1, 3, 1>>, <<66>>),
               P(4, 3, <<0, 1960, 2>>, <<2>>, <<8212, 97>>),
               P(6, 3, <<>>, <<3, 4>>, <<99>>)>>
EmptyList == <<P(5, 1, <<>>, <<>>, <<97>>)>>

Narrow == <<"dmap.itemid", "dmap.containeritemid">>
MCMetas == {Narrow, <<"dmap.itemname", "all">>}
=============================================================================
