------------------------------ MODULE Sources ------------------------------
(***************************************************************************)
(* The process from its start to the moment its source is ready            *)
(* (main.rs), with each of the three sources, over several starts of it:   *)
(* a crash at any step, and a restart with the same arguments or others.   *)
(***************************************************************************)
EXTENDS DlnaCatalogue, SubsonicCatalogue, FsCatalogue

vars == <<common, dlnaVars, subsonicVars, fsVars>>

Init ==
  /\ args \in Args
  /\ starts = 1 /\ pc = "start" /\ cat = Nothing /\ missed = {}
  /\ DlnaInit /\ SubsonicInit /\ FsInit

Step ==
  \/ DlnaStep /\ UNCHANGED <<subsonicVars, fsVars>>
  \/ SubsonicStep /\ UNCHANGED <<dlnaVars, fsVars>>
  \/ FsStep /\ UNCHANGED <<dlnaVars, subsonicVars>>

Fails ==
  \/ DlnaFails /\ UNCHANGED <<subsonicVars, fsVars>>
  \/ SubsonicFails /\ UNCHANGED <<dlnaVars, fsVars>>
  \/ FsFails /\ UNCHANGED <<dlnaVars, subsonicVars>>

\* The process dies, or is stopped, and is started again.
Restart ==
  /\ starts < MaxStarts
  /\ starts' = starts + 1
  /\ Begins
  /\ DlnaForgets /\ SubsonicForgets /\ FsForgets

Done == pc \in {"serving", "exited"} /\ UNCHANGED vars

Next == Step \/ Fails \/ Restart \/ Done

\* The start-up is one task that awaits its requests, each of which is
\* answered in the end if it does not fail.
Spec == Init /\ [][Next]_vars /\ WF_vars(Step)

-----------------------------------------------------------------------------
\* An id of the listing is the id of one track, the one that Entry streams, and
\* no playlist has the id of another or of the Library.
IdsIdentify ==
  LET tracks == Tracks(DatabaseId)
      playlists == Playlists(DatabaseId)
  IN  /\ \A i \in 1 .. Len(tracks) :
           tracks[i].id > 0 /\ Entry(DatabaseId, tracks[i].id) = tracks[i]
      /\ \A p, q \in 1 .. Len(playlists) :
           /\ playlists[p].id >= FirstListId
           /\ playlists[p].id = playlists[q].id => p = q

SongOf(id) == Entry(DatabaseId, id).song

SongsIn(p) == [i \in 1 .. Len(p.tracks) |-> SongOf(p.tracks[i])]

\* The songs of a catalogue, and those there are.
CatalogueSongs == {t.song : t \in ToSet(cat.items)}

SongsThereAre ==
  CASE args.source = "dlna"     -> DlnaSongs(server, args.root)
    [] args.source = "subsonic" -> SubsonicSongs
    [] args.source = "fs"       -> {f.path : f \in AudioFiles}

\* A playlist is what it is named for, in the same order: a container's audio
\* items, the first of them if its listing was given up early; the entries of
\* the server's playlist but for songs that were missed; the files below a
\* directory of the root.
PlaylistsAreContainers ==
  pc = "serving" =>
    \A p \in ToSet(cat.playlists) :
      /\ ToSet(p.tracks) \subseteq ToSet(Ids(cat.items))
      /\ args.source = "dlna" =>
           LET audio == AudioIn(server, p.of)
           IN  /\ SongsIn(p) = [i \in 1 .. Len(p.tracks) |-> audio[i].id]
               /\ p.of \notin missed => Len(p.tracks) = Len(audio)
      /\ args.source = "subsonic" =>
           SongsIn(p) = Kept(EntriesOf[p.of], LAMBDA s : s \in CatalogueSongs)
      /\ args.source = "fs" =>
           /\ ToSet(SongsIn(p)) = {s \in CatalogueSongs : Len(s) > 1 /\ s[1] = p.of}
           /\ \A i, j \in 1 .. Len(p.tracks) :
                i < j => PathBefore(SongsIn(p)[i], SongsIn(p)[j])

\* A start that missed nothing has every song there is, whatever the pages and
\* the order of answers, and none has another; the texts of a DLNA item are
\* whole, wherever the reader cut them.
CatalogueWhole ==
  pc = "serving" =>
    /\ CatalogueSongs \subseteq SongsThereAre
    /\ missed = {} => CatalogueSongs = SongsThereAre
    /\ args.source = "dlna" =>
         \A t \in ToSet(cat.items) :
           \E c \in Containers(server) : \E e \in ToSet(Holds[server][c]) :
             /\ IsAudio(e) /\ e.id = t.song
             /\ \A tag \in ItemTexts \cap DOMAIN t.texts :
                  t.texts[tag] = IF tag = "res" THEN TextOf(e, tag)
                                 ELSE Trim(TextOf(e, tag))

\* Whatever the process was doing when it died, no cache file is torn.
CacheNeverTorn == \A k \in Keys : cache[k].state \in {"absent", "whole"}

\* The cache of a server and root is a catalogue of that server and that root.
CacheSound ==
  /\ CacheNeverTorn
  /\ \A k \in {c \in Keys : cache[c].state = "whole"} :
       LET songs == {t.song : t \in ToSet(cache[k].cat.items)}
           there == DlnaSongs(k[1], k[2])
       IN  /\ songs \subseteq there
           /\ cache[k].missed = {} => songs = there

\* A start comes to an end: the source is ready or the process gives up, though
\* containers may hold each other and counts may be wrong.
StartsUp == <>[](pc \in {"serving", "exited"})
=============================================================================
