-------------------------------- MODULE Dmap --------------------------------
(***************************************************************************)
(* The wire: the fields and containers of dmap.rs, the tags of tags.rs,    *)
(* the bodies built by responses.rs, server_info.rs and content_codes.rs,  *)
(* and a client that reads them with nothing but the dictionary of         *)
(* /content-codes and the charset the answer declares.                     *)
(*                                                                         *)
(* A body is a sequence of cells: a byte, or a tag, which is one cell for  *)
(* its four bytes.  A field a track does not have is not in its record.    *)
(***************************************************************************)
EXTENDS Charset

CONSTANT Byte   \* the values of a byte of a number; 256, or fewer for TLC

\* The dictionary and every code in it fit their lengths and widths.
ASSUME ByteAssumption == Byte \in Nat /\ Byte >= 16

dmap == [status |-> "mstt", protocolVersion |-> "mpro", itemName |-> "minm",
  itemId |-> "miid", itemKind |-> "mikd", persistentId |-> "mper",
  parentContainerId |-> "mpco", containerCount |-> "mctc", itemCount |-> "mimc",
  loginRequired |-> "mslr", timeoutInterval |-> "mstm", supportsAutologout |-> "msal",
  authMethod |-> "msau", supportsUpdate |-> "msup", supportsPersistentIds |-> "mspi",
  supportsExtensions |-> "msex", supportsBrowse |-> "msbr", supportsQuery |-> "msqy",
  supportsIndex |-> "msix", supportsEdit |-> "msed", databasesCount |-> "msdc",
  sessionId |-> "mlid", serverRevision |-> "musr", updateType |-> "muty",
  totalMatched |-> "mtco", returnedCount |-> "mrco"]

list == [serverInfo |-> "msrv", login |-> "mlog", update |-> "mupd", databases |-> "avdb",
  listing |-> "mlcl", listingItem |-> "mlit", playlists |-> "aply", items |-> "adbs",
  playlistSongs |-> "apso"]

daap == [protocolVersion |-> "apro", supportsExtradata |-> "ated", supportsGroups |-> "asgr",
  songAlbum |-> "asal", songArtist |-> "asar", songAlbumArtist |-> "asaa",
  songGenre |-> "asgn", songFormat |-> "asfm", songDataKind |-> "asdk",
  songTrackNumber |-> "astn", songTrackCount |-> "astc", songDiscNumber |-> "asdn",
  songDiscCount |-> "asdc", songYear |-> "asyr", songTimeMs |-> "astm",
  songBitrate |-> "asbr", songSampleRate |-> "assr", songSize |-> "assz",
  playlistSmart |-> "apsm", basePlaylist |-> "abpl"]

sharonFeatures == "shrf"
Query == 1
Sort == 2

Version(major, minor) == major * Byte * Byte + minor

-----------------------------------------------------------------------------
(* dmap.rs *)

\* The low bytes of v, the highest first: a cast that narrows loses the rest.
Digits(v, width) ==
  LET above[k \in 0 .. width] == IF k = 0 THEN v ELSE above[k - 1] \div Byte
  IN  [i \in 1 .. width |-> above[width - i] % Byte]

HeaderCells == 5

Field(t, value) == <<t>> \o Digits(Len(value), 4) \o value

U8(t, v) == Field(t, Digits(v, 1))
U16(t, v) == Field(t, Digits(v, 2))
U32(t, v) == Field(t, Digits(v, 4))
U64(t, v) == Field(t, Digits(v, 8))

WriteString(t, s, cs) == Field(t, Encode(cs, s))

\* The header goes out with a length of 0, which is filled in when the body is
\* written.
Container(t, body) ==
  LET out == <<t>> \o Digits(0, 4) \o body
      len == Digits(Len(out) - HeaderCells, 4)
  IN  [i \in 1 .. Len(out) |-> IF i \in 2 .. HeaderCells THEN len[i - 1] ELSE out[i]]

-----------------------------------------------------------------------------
(* responses.rs, server_info.rs *)

LoginBody(id) ==
  Container(list.login, U32(dmap.status, 200) \o U32(dmap.sessionId, id))

UpdateBody(revision) ==
  Container(list.update, U32(dmap.status, 200) \o U32(dmap.serverRevision, revision))

\* The frame of every listing.
ListingBody(kind, total, entries) ==
  Container(kind,
    U32(dmap.status, 200) \o U8(dmap.updateType, 0)
      \o U32(dmap.totalMatched, total) \o U32(dmap.returnedCount, Len(entries))
      \o Container(list.listing,
           FlattenSeq([i \in 1 .. Len(entries) |-> Container(list.listingItem, entries[i])])))

\* What databases and playlists begin with.
Named(id, name, cs) ==
  U32(dmap.itemId, id) \o U64(dmap.persistentId, id) \o WriteString(dmap.itemName, name, cs)

DatabasesBody(dbs, trackCount, playlistCount, cs) ==
  ListingBody(list.databases, Len(dbs),
    [i \in 1 .. Len(dbs) |->
       Named(dbs[i].id, dbs[i].name, cs) \o U32(dmap.itemCount, trackCount)
         \o U32(dmap.containerCount, playlistCount)])

FormatString ==
  [mp3 |-> <<109, 112, 51>>, aac |-> <<109, 52, 97>>, alac |-> <<109, 52, 97>>,
   flac |-> <<102, 108, 97, 99>>, wav |-> <<119, 97, 118>>, aiff |-> <<97, 105, 102, 102>>,
   ogg |-> <<111, 103, 103>>, other |-> <<98, 105, 110>>]

Strings == <<
  [of |-> "artist", tag |-> daap.songArtist], [of |-> "album", tag |-> daap.songAlbum],
  [of |-> "albumArtist", tag |-> daap.songAlbumArtist], [of |-> "genre", tag |-> daap.songGenre]>>

Numbers == <<
  [of |-> "trackNumber", tag |-> daap.songTrackNumber, width |-> 2],
  [of |-> "discNumber", tag |-> daap.songDiscNumber, width |-> 2],
  [of |-> "year", tag |-> daap.songYear, width |-> 2],
  [of |-> "durationMs", tag |-> daap.songTimeMs, width |-> 4],
  [of |-> "bitrateKbps", tag |-> daap.songBitrate, width |-> 2],
  [of |-> "sampleRate", tag |-> daap.songSampleRate, width |-> 4],
  [of |-> "sizeBytes", tag |-> daap.songSize, width |-> 4]>>

U32Max == Byte * Byte * Byte * Byte - 1

\* Only the size is held at the largest number its field takes.
Clamped(of, v) == IF of = "sizeBytes" /\ v > U32Max THEN U32Max ELSE v

\* mpco is <<>> or <<position>>.
EmitTrackMlit(t, mpco, cs) ==
  U8(dmap.itemKind, 2) \o Named(t.id, t.title, cs)
    \o FlattenSeq([i \in 1 .. Len(Strings) |->
         IF Strings[i].of \in DOMAIN t
         THEN WriteString(Strings[i].tag, t[Strings[i].of], cs) ELSE <<>>])
    \o WriteString(daap.songFormat, FormatString[t.format], cs)
    \o U8(daap.songDataKind, 0)
    \o FlattenSeq([i \in 1 .. Len(Numbers) |->
         IF Numbers[i].of \in DOMAIN t
         THEN Field(Numbers[i].tag, Digits(Clamped(Numbers[i].of, t[Numbers[i].of]),
                                           Numbers[i].width))
         ELSE <<>>])
    \o FlattenSeq([i \in 1 .. Len(mpco) |-> U32(dmap.parentContainerId, mpco[i])])

ItemsBody(sliced, total, cs) ==
  ListingBody(list.items, total,
              [i \in 1 .. Len(sliced) |-> EmitTrackMlit(sliced[i], <<>>, cs)])

Library == <<76, 105, 98, 114, 97, 114, 121>>

\* The Library, when the page has it, leads.
PlaylistsBody(libraryId, trackCount, extras, includeLibrary, total, cs) ==
  ListingBody(list.playlists, total,
    (IF includeLibrary
     THEN <<Named(libraryId, Library, cs) \o U32(dmap.itemCount, trackCount)
              \o U8(daap.basePlaylist, 1)>>
     ELSE <<>>)
    \o [i \in 1 .. Len(extras) |->
          Named(extras[i].id, extras[i].name, cs)
            \o U32(dmap.itemCount, Len(extras[i].trackIds))])

\* Entries are [id, mpco]; only with meta=all they are looked up.
PlaylistSongsBody(entries, total) ==
  ListingBody(list.playlistSongs, total,
    [i \in 1 .. Len(entries) |->
       U8(dmap.itemKind, 2) \o U32(dmap.itemId, entries[i].id)
         \o U32(dmap.parentContainerId, entries[i].mpco)])

PlaylistSongsFullBody(entries, trackOf, total, cs) ==
  ListingBody(list.playlistSongs, total,
              [i \in 1 .. Len(entries) |->
                 EmitTrackMlit(trackOf[entries[i].id], <<entries[i].mpco>>, cs)])

Dialect(header) ==
  CASE header = "1.0" -> [mpro |-> Version(1, 0), apro |-> Version(1, 0)]
    [] header = "2.0" -> [mpro |-> Version(1, 0), apro |-> Version(2, 0)]
    [] OTHER          -> [mpro |-> Version(2, 10), apro |-> Version(3, 12)]

ServerInfoBody(name, databaseCount, dialect) ==
  Container(list.serverInfo,
    U32(dmap.status, 200) \o U32(dmap.protocolVersion, dialect.mpro)
      \o WriteString(dmap.itemName, name, Utf8)
      \o U32(daap.protocolVersion, dialect.apro)
      \o U16(daap.supportsExtradata, 7) \o U16(daap.supportsGroups, 3)
      \o U8(dmap.supportsEdit, 0) \o U8(dmap.loginRequired, 1)
      \o U32(dmap.timeoutInterval, 1800) \o U8(dmap.supportsAutologout, 1)
      \o U8(dmap.authMethod, 0) \o U8(dmap.supportsUpdate, 1)
      \o U8(dmap.supportsPersistentIds, 1) \o U8(dmap.supportsExtensions, 1)
      \o U8(dmap.supportsBrowse, 1) \o U8(dmap.supportsQuery, 1) \o U8(dmap.supportsIndex, 1)
      \o U32(dmap.databasesCount, databaseCount) \o U32(sharonFeatures, Query + Sort))

-----------------------------------------------------------------------------
(* content_codes.rs: the tags by their types. *)

TypeCode == [Byte |-> 1, Short |-> 3, Int |-> 5, Long |-> 7, String |-> 9, Version |-> 11,
             List |-> 12]

\* Each tag with its type, in the order of the table.
FieldTable == <<
  <<dmap.status, "Int">>, <<dmap.itemId, "Int">>, <<dmap.itemKind, "Byte">>,
  <<dmap.itemName, "String">>, <<dmap.persistentId, "Long">>,
  <<dmap.parentContainerId, "Int">>, <<dmap.containerCount, "Int">>,
  <<dmap.itemCount, "Int">>, <<dmap.loginRequired, "Byte">>, <<dmap.timeoutInterval, "Int">>,
  <<dmap.supportsAutologout, "Byte">>, <<dmap.authMethod, "Byte">>,
  <<dmap.supportsUpdate, "Byte">>, <<dmap.supportsPersistentIds, "Byte">>,
  <<dmap.supportsExtensions, "Byte">>, <<dmap.supportsBrowse, "Byte">>,
  <<dmap.supportsQuery, "Byte">>, <<dmap.supportsIndex, "Byte">>,
  <<dmap.supportsEdit, "Byte">>, <<dmap.databasesCount, "Int">>, <<dmap.sessionId, "Int">>,
  <<dmap.serverRevision, "Int">>, <<dmap.updateType, "Byte">>, <<dmap.totalMatched, "Int">>,
  <<dmap.returnedCount, "Int">>, <<dmap.protocolVersion, "Version">>,
  <<list.serverInfo, "List">>, <<list.login, "List">>, <<list.update, "List">>,
  <<list.databases, "List">>, <<list.items, "List">>, <<list.playlists, "List">>,
  <<list.playlistSongs, "List">>, <<list.listing, "List">>, <<list.listingItem, "List">>,
  <<daap.protocolVersion, "Version">>, <<daap.supportsExtradata, "Short">>,
  <<daap.supportsGroups, "Short">>, <<daap.songAlbum, "String">>,
  <<daap.songArtist, "String">>, <<daap.songAlbumArtist, "String">>,
  <<daap.songGenre, "String">>, <<daap.songFormat, "String">>, <<daap.songDataKind, "Byte">>,
  <<daap.songTrackNumber, "Short">>, <<daap.songTrackCount, "Short">>,
  <<daap.songDiscNumber, "Short">>, <<daap.songDiscCount, "Short">>,
  <<daap.songYear, "Short">>, <<daap.songTimeMs, "Int">>, <<daap.songBitrate, "Short">>,
  <<daap.songSampleRate, "Int">>, <<daap.songSize, "Int">>, <<daap.playlistSmart, "Byte">>,
  <<daap.basePlaylist, "Byte">>>>

\* One entry per tag, its name and type; the long names are left out.
ContentCodesBody ==
  Container("mccr",
    U32(dmap.status, 200) \o
    FlattenSeq([i \in 1 .. Len(FieldTable) |->
      Container("mdcl", Field("mcnm", <<FieldTable[i][1]>>)
                          \o U16("mcty", TypeCode[FieldTable[i][2]]))]))

-----------------------------------------------------------------------------
(* A client reads.  What it makes of a body is the sequence of its fields; *)
(* a tag it does not know is skipped by its length.                        *)

Number(bytes) ==
  LET upTo[n \in 0 .. Len(bytes)] == IF n = 0 THEN 0 ELSE upTo[n - 1] * Byte + bytes[n]
  IN  upTo[Len(bytes)]

Width == [Byte |-> 1, Short |-> 2, Int |-> 4, Long |-> 8, Version |-> 4]

Malformed == <<[tag |-> "malformed", value |-> 0]>>

Has(fields, tag) == \E i \in 1 .. Len(fields) : fields[i].tag = tag

\* A field is its tag and its value; inner is what its value reads as, if the
\* dictionary says that it is a list.
FieldRead(dict, tag, value, inner) ==
  LET as(v) == <<[tag |-> tag, value |-> v]>>
  IN  IF tag \notin DOMAIN dict THEN <<>>
      ELSE IF dict[tag] = "List" THEN IF Has(inner, "malformed") THEN Malformed ELSE as(inner)
      ELSE IF dict[tag] = "String" THEN as(value)
      ELSE IF Len(value) = Width[dict[tag]] THEN as(Number(value)) ELSE Malformed

\* Where the field ends that begins at lo.
FieldEnd(cells, lo) ==
  lo + HeaderCells - 1 + Number(SubSeq(cells, lo + 1, lo + HeaderCells - 1))

\* A span of cells is its first and its last, which is before it if it is empty.
Spans(cells) == (1 .. Len(cells) + 1) \X (0 .. Len(cells))

Read(dict, cells) ==
  LET from[span \in Spans(cells)] ==
        LET start == span[1] + HeaderCells
            end == FieldEnd(cells, span[1])
        IN  IF span[1] > span[2] THEN <<>>
            ELSE IF start - 1 > span[2] \/ end \notin start - 1 .. span[2] THEN Malformed
            ELSE FieldRead(dict, cells[span[1]], SubSeq(cells, start, end), from[<<start, end>>])
                   \o from[<<end + 1, span[2]>>]
  IN  from[<<1, Len(cells)>>]

\* The values a reading has under a tag, in order, and the first of them.
All(fields, tag) ==
  LET upTo[n \in 0 .. Len(fields)] ==
        IF n = 0 THEN <<>>
        ELSE IF fields[n].tag = tag THEN Append(upTo[n - 1], fields[n].value) ELSE upTo[n - 1]
  IN  upTo[Len(fields)]

The(fields, tag) == fields[Min({i \in 1 .. Len(fields) : fields[i].tag = tag})].value

\* What a client knows before it has the dictionary: how to read that one.
Bootstrap ==
  [mccr |-> "List", mdcl |-> "List", mcnm |-> "String", mcty |-> "Short", mstt |-> "Int"]

Dictionary(body) ==
  LET codes == The(Read(Bootstrap, body), "mccr")
      entries == {codes[i].value : i \in {k \in 1 .. Len(codes) : codes[k].tag = "mdcl"}}
      named(t) == CHOOSE e \in entries : The(e, "mcnm") = <<t>>
  IN  [t \in {The(e, "mcnm")[1] : e \in entries} |->
         CHOOSE ty \in DOMAIN TypeCode : TypeCode[ty] = The(named(t), "mcty")]

\* Every length fits and every value has the width of its type, all the way
\* down, and a listing holds as many entries as it says.
WellFormed(fields) ==
  /\ Len(fields) = 1 /\ ~Has(fields, "malformed")
  /\ LET body == fields[1].value
     IN  Has(body, dmap.returnedCount) =>
           The(body, dmap.returnedCount)
             = Len(All(The(body, list.listing), list.listingItem))
=============================================================================
