----------------------------- MODULE MCSources -----------------------------
(***************************************************************************)
(* Small worlds for Sources.  One media server with an album that lists    *)
(* its own parent, a folder of a skipped title that also appears deeper    *)
(* down, a title with an entity, a film and a song without a resource; one *)
(* that does not know its totals.  A Subsonic server with an album of two  *)
(* artists and a playlist that nobody's songs are in.  A directory with    *)
(* files of the root, of a subdirectory and of one below it, and a text    *)
(* file.                                                                   *)
(***************************************************************************)
EXTENDS Sources

Box(id, title) == [is |-> "container", id |-> id, texts |-> <<<<"title", title>>>>]

Song(id, title) ==
  [is |-> "item", id |-> id,
   texts |-> <<<<"title", title>>, <<"class", <<"audioItem">>>>, <<"res", <<"/x">>>>>>]

FullSong(id, title) ==
  [is |-> "item", id |-> id,
   texts |-> <<<<"title", title>>, <<"artist", <<"b", "&", "c">>>>,
               <<"artist", <<"d">>>>,
               <<"originalTrackNumber", <<"1">>>>, <<"date", <<"1", "9", "9", "9", "-">>>>,
               <<"albumArtURI", <<"?">>>>, <<"class", <<"audioItem">>>>,
               <<"res", <<"url">>>>, <<"res", <<"/x">>>>>>]

Film == [is |-> "item", id |-> "film",
         texts |-> <<<<"title", <<"f">>>>, <<"class", <<"videoItem">>>>, <<"res", <<"/x">>>>>>]

Broken == [is |-> "item", id |-> "broken",
           texts |-> <<<<"title", <<"g">>>>, <<"class", <<"audioItem">>>>>>]

MCUrls == {<<"url">>, <<"/x">>}

BigServer ==
  [c \in {"0", "artists", "album", "tv"} |->
     CASE c = "0"       -> <<Box("tv", <<"TV">>), Box("artists", <<"A">>),
                             Song("jingle", <<" ", "j">>)>>
       [] c = "artists" -> <<Box("album", <<"a", "&", "b">>), Box("tv", <<"TV">>), Film>>
       [] c = "album"   -> <<FullSong("one", <<"o", "&", " ">>), Broken,
                             Song("two", <<"t">>), Box("artists", <<"A">>)>>
       [] c = "tv"      -> <<Song("tune", <<>>)>>]

SmallServer ==
  [c \in {"0", "more"} |->
     IF c = "0" THEN <<Box("more", <<"m">>), Song("s1", <<"1">>)>>
     ELSE <<Song("s2", <<"2">>), Song("s3", <<"3">>), Song("s4", <<"4">>)>>]

MCServers == {"big", "small"}
MCHolds == [s \in MCServers |-> IF s = "big" THEN BigServer ELSE SmallServer]
\* The album is said to hold one element more than it does.
MCTotal == [s \in MCServers |->
              [c \in DOMAIN MCHolds[s] |->
                 CASE s = "small" -> 0
                   [] s = "big" /\ c = "album" -> Len(MCHolds[s][c]) + 1
                   [] OTHER       -> Len(MCHolds[s][c])]]
MCSkip == {<<"TV">>}
MCName == [s \in MCServers |-> <<s, "server">>]

MCArtists == <<"x", "y">>
MCLists == <<"l1", "l2", "l3">>
MCAlbumsOf == [a \in {"x", "y"} |-> IF a = "x" THEN <<"b1", "b2">> ELSE <<"b2">>]
Sub(s) == [song |-> s, texts |-> [title |-> <<s>>]]
MCSongsOf == [b \in {"b1", "b2"} |-> IF b = "b1" THEN <<Sub("p"), Sub("q")>> ELSE <<Sub("r")>>]
MCEntriesOf == [l \in {"l1", "l2", "l3"} |->
                  CASE l = "l1" -> <<"podcast">> [] l = "l2" -> <<"r", "q", "podcast">>
                    [] l = "l3" -> <<"p", "p">>]

File1(path, ext, tags) == [path |-> path, ext |-> ext, stem |-> <<"s">>, tags |-> tags]
MCFiles == {File1(<<3>>, "mp3", <<>>), File1(<<1, 2>>, "flac", [title |-> <<"t">>]),
            File1(<<1, 1, 1>>, "mp3", [artist |-> <<"a">>]), File1(<<2, 1>>, "txt", <<>>),
            File1(<<4, 1>>, "mp3", <<>>)}

DlnaArgs(by, want, root, cached) ==
  [source |-> "dlna", by |-> by, want |-> want, root |-> root, cached |-> cached]

SubsonicArgs(key, user, password) ==
  [source |-> "subsonic", apiKey |-> key, user |-> user, password |-> password]

\* The small server has no container of that root.
MCArgs == {DlnaArgs("name", "server", "0", TRUE), DlnaArgs("first", "", "0", FALSE),
           DlnaArgs("url", "big", "artists", TRUE),
           DlnaArgs("url", "small", "artists", TRUE),
           DlnaArgs("url", "big", "0", TRUE), SubsonicArgs(TRUE, FALSE, FALSE),
           SubsonicArgs(FALSE, TRUE, FALSE), [source |-> "fs"]}
=============================================================================
