# Sharon Jones and the DAAP King: verification project

TLA+ models, TLC runs and TLAPS proofs for the DAAP music server in this
repository. Every module is written from the code. Where a comment or a doc
disagrees with the code, the model follows the code, and a run that expects a
violation shows the difference.

Short paths below are relative to `src/crates/`; file names without a directory
are in `daap-server/src/`.

## 1. The system

`sharon-jones` (the binary) opens one media source, builds a DAAP server on it,
announces the server over mDNS and answers HTTP until it is told to stop.

```
 iTunes, Mac OS 9 ─HTTP─▶ http.rs ──▶ MediaSource: fs | dlna | subsonic
                            │ │ └────▶ artwork.rs ──▶ pict
                            │ └──────▶ sort.rs, search.rs, responses.rs
                            └────────▶ transcode.rs ──▶ ffmpeg
                                           └─ buffered_body.rs, prefix_reader.rs
 main.rs ── start, serve, stop ──▶ mdns (portable: daemon thread, macOS: dns-sd)
```

| Component | State | Operations | Talks to | What is hard | What makes it correct |
|---|---|---|---|---|---|
| `buffered_body.rs`, `prefix_reader.rs` | bounded channel, leftover, fused flag, header offset | drain the producer, poll | ffmpeg's stdout, hyper | task and poll interleave, errors queue behind data, disconnect is seen only by a send | bytes in order and once, a true end, bounded memory, the drainer is freed |
| `transcode.rs`: slots | semaphore, one handle per response | acquire, spawn, drop | handlers, drainers, ffmpeg | cancellation at any await, fields dropped one after the other, FIFO hand-over | no permit lost or idle, no stray ffmpeg, waiters served |
| `transcode.rs`: one response | feeder, ffmpeg, stderr task, drainer | copy, log, drain, kill on drop | four bounded pipes | each stage can stall the one before | no deadlock, a clean end is complete, a disconnect brings all down |
| `mdns/portable.rs`, `main.rs` | the service's name (taken once), `TEARDOWN` | start, stop, panic hook, drop | daemon thread | hook, stop and Drop race; every wait times out | one goodbye, never none; shutdown ends |
| `mdns/macos.rs` | a `dns-sd` child and its bare pid | start, stop, hook, drop | operating system | pid reused after the hook reaps | child dead and reaped, signals go to it |
| `main.rs`: start-up | command line | choose source, media server, credentials | network, disk | replies in any order, a crash at any step | the start ends, with the server that was named |
| `media-source-dlna` catalogue | queue, catalogue, cache file | browse page by page, parse, number, save, load | UPnP server, disk | short pages, wrong totals, failing browses, cycles, texts cut at entities, crash in a save | every song within the depth limit with its texts, unique ids, cache whole or absent |
| `media-source-subsonic` catalogue | catalogue, index of song ids | crawl with 8 at a time, resolve playlists | Subsonic server | answers in any order, any of them missing, albums under two artists | ids, playlists name the songs they did, whole without failures |
| `media-source-fs` catalogue | entries of one scan | walk, tag, sort, number | disk | any order, unreadable entries | the same numbers for the same files, playlists are directories |
| listings (`http.rs`, `sort.rs`, `search.rs`, `responses.rs`) | none | filter, sort, page, number | media source | pages are separate requests | pages join to the listing, totals and counts agree |
| `session.rs`, `/update`, `/databases`, `/server-info`, `/content-codes` | next id, set of ids | create, end, sleep | login, logout | an id is taken and registered in two steps | sessions distinct, an answered update is news |
| `dmap.rs`, `tags.rs`, `charset.rs` | none | frame, encode, romanize | listings | lengths in two character sets, widths of types | a client with the dictionary reads what was meant |
| streams (`http.rs`, `transcode.rs`, the three `open_stream_range`) | none | choose a format, translate ranges, promise lengths | media source, ffmpeg | four range conventions, estimates, stale sizes | pieces join, promises are kept, a seek skips nothing |
| `artwork.rs` | LRU cache behind a mutex | validate, look up, encode, store, fall back | media source, pict | look-up, encode and store are not atomic | the answer is the picture asked for |
| `pict` | none | pack, run-length encode, write | artwork | padding, counts, limits | a Mac reads back the image |
| `pict::dither`, palettes | none | filter | artwork | - | visual |

## 2. Modules

| Module | Models | Proofs |
|---|---|---|
| `BytePipe` | abstract: what any body promises | |
| `BufferedBody` | the body; implements `BytePipe` | `BufferedBodyProofs` |
| `Transcoder` | permits, waiters and ffmpeg of all requests | `ProcessProofs` |
| `FfmpegPipe` | one transcoded response in detail | `ProcessProofs` |
| `Advertisement` | portable mDNS, `serve`, panic hook | `AdvertisementProofs` |
| `DnsSdChild` | macOS mDNS | `ProcessProofs` |
| `MediaSource` | the trait: one database, its tracks, playlists and entries | |
| `DidlLite` | `parse_didl_lite`, event by event | |
| `DlnaCatalogue` | choice of a media server, browse, assembly, cache file; extends `MediaSource` and `DidlLite` | |
| `SubsonicCatalogue` | credentials, concurrent crawl, playlists; extends `MediaSource` | |
| `FsCatalogue` | walk, order of paths, titles, playlists; extends `MediaSource` | |
| `Sources` | start-up of the process with any of the three, crash and restart | `SourcesProofs` |
| `Walk` | a reader that goes over a sequence once, a part at a time; the filter | |
| `Charset` | both encodings, MacRoman table, romanization; extends `Walk` | `CharsetProofs` |
| `Dmap` | fields, tags and bodies, and a reader with a dictionary; extends `Charset` | `DaapProofs` |
| `Listing` | the three listing handlers and a paging client | `DaapProofs` |
| `Daap` | a session from `/content-codes` to the listings, over the wire; extends `Listing` and `Dmap` | `DaapProofs` |
| `StreamResponse` | `handle_stream`, ranges, and a resuming client | `StreamResponseProofs` |
| `Pict` | PICT encoder and a QuickDraw reader | `ArtworkProofs` |
| `Artwork` | `handle_artwork` and `Artworker`; extends `Pict` | `ArtworkProofs` |

Each `MCx` module gives `x` its values. In the modules, a definition marked
`Fault:` is a plausible bug in the definition that follows it; `PROJECT.json`
lists which property each must break. None of them is part of a specification.

### How state and actions correspond to the code

**BufferedBody.** A byte is its position, a chunk a slice `[lo, hi)`, so order,
loss and duplication are comparisons of numbers. `ReadChunk`, `ReadEof`,
`ReadError`, `Send` and `SendFails` are the arms of `drain_loop`; `hand` is the
message it holds across the await of `send`. `PollPrefix`, `PollPartial`,
`PollChunk`, `PollError` and `PollEof` are the branches of the two `poll_read`s.
`DropBody` is hyper letting go of the body. `BytePipe` has five actions: `Write`
and `Finish` of the producer, `Take`, `See` (the end) and `Detach` of the client;
the refinement maps `produced`, `source` and `receiver` to its variables.

**Transcoder.** `phase[r]` is where the handler of `r` is, or its handle: each
value is an await or a step between two. `queue` and the permit in `granted` are
tokio's fair semaphore: `Release` gives a permit straight to the first waiter.
The `Cancel*` actions drop the handler's future. A handle that is dropped first
drops its permit, then its child (the order of the fields of `TranscodeHandle`),
hence `DropPermit` and `DropChild`.

**FfmpegPipe.** Counts of pieces in every pipe and lines on stderr. Feeder,
stderr task and drainer are tasks of the code; ffmpeg and the client are
external. `Crash` can happen at any time.

**Advertisement.** `main` is the program counter of `serve` and `stop`; `hook[t]`
that of the panic hook on thread `t`. `teardown` and `fullname` are the two
mutexes. Commands to the daemon thread are a queue, answers a set that a waiter
may find or give up on (`UnregisterLost`, `ShutdownLost`: the timeouts).
`serving` says that connections were accepted: their tasks live on beside `stop` and
beside the unwinding of `serve`, so a handler may panic until the process has ended.
`DropTakesName`, `DropUnregisters` and `DropShutsDown` are the `Drop` of a panicking
main, which hooks of other threads may interrupt anywhere, also between the handle
and the name. Only after it does `Exit` wait for the hooks: the runtime is dropped
last and joins its workers. The daemon may answer `NotFound`: a registration it
refused leaves no record to withdraw.
**DnsSdChild** is the same life with a child process, `responder`: `pid` says whose
the number is, `stray` remembers signals sent to a stranger.

**Sources** is the process from its command line to the moment its source is
ready. `pc` is where it is, `cat` the catalogue, `missed` (a history variable)
what the build gave up on. `Step` is progress, `Fails` every failing request,
and `Restart` may come at any time, with other arguments: only the disk is left.

**DlnaCatalogue.** `Reply` and `SearchOver` are the SSDP search, whose replies
come in any order; `ConnectFails` every way in which `discover` and
`connect_from` end the process. `LoadCache` or `CacheMiss` begin
`load_or_build_catalogue`, `NextEntry` is the head of the loop of
`build_catalogue`. `PageArrives` is one answer to a Browse: parsed by
`ParseDidlLite`, and after the last page put into the catalogue (`Assemble`).
`BrowseFails` drops the container, and `NoSuchObject` is the fault of a server that has no
object of that id, which only the root of the command line can be. `WriteTmp` may stop half-way and `RenameTmp`
is `rename`. **DidlLite** is the parser as a machine over the events of the XML
reader, which cuts a text at every entity.

**SubsonicCatalogue.** `asked` are the ids of one `buffer_unordered`, `sent` and
`flying` its window, `answers` what came so far. `Answer` takes any request
under way, `RequestFails` drops any. `SongsKnown` numbers the songs in the order
they came, `ListKnown` resolves one playlist by `index`. **FsCatalogue** walks in
any order, leaves out what it cannot read and sorts (`Scanned`).

**Listing.** A request is one action, since a handler awaits only the source,
whose order is chosen anew (`\E order \in Orders`). `Handle` composes
the operators `Matching`, `SortTracks`, `ApplyIndexRange`, `SlicePlaylists` and
`Numbered` as the handlers do. The client pages on by what it got.

**Daap** puts the same answers through **Dmap** and **Charset**: the client
knows `Bootstrap` (the tags of `/content-codes` itself), reads the dictionary,
then `/server-info`, `/login`, `/update`, `/databases` and listings, each as
cells it parses with what it was told. `TakeId` and `LoggedIn` are the two steps
of `SessionStore::create`, which other clients interleave. `Update` and
`UpdateEnds` are the long poll. A tag is one cell and stands for four bytes; a
number has digits of `Byte` values (16 in TLC), so that widths overflow early.

**StreamResponse.** `HandleStream` is the set of answers a request may get, built
from `ServePassthrough`, `ServeTranscoded`, `OpenStreamRange` and the size
arithmetic; a body is named by the positions it carries. `Read` takes any part of
the answer, the rest being lost with the connection, and the client asks on from
there. `Word` is `2^64` scaled down, for `end - start + 1`.

**Artwork, Pict.** `job[c]` is a handler between its awaits and locks: `Ask`,
`Refuse`, `Fetch`, `Hit` or `Miss`, `Store` or `FallBack`. `raw` is the version
of the artwork it was given; `Replace` puts another in its place at any time. The
cache is a sequence, latest first. `EncodePackBits`, `EncodeBitmap` and
`EncodeDirect` produce the rows as bytes, `ReadImage` reads them back. The resize
filter and the dither are abstracted, JPEG is the image itself.

## 3. Runs

Deadlock is checked where the system never stops (`dlna`, where a process that
serves or has ended stutters, and `artwork`); the others disable it because a
client, a body or the process has an end.

| Run | Bounds | Distinct states | What it shows |
|---|---|---|---|
| `body` | chunks of 2, channel at its floor of 4, header of 2 bytes, streams up to 15 bytes, buffers up to 3 | 6 769 | run-ahead bound, refinement of `BytePipe` (bytes in order, a true end, silence after it), drainer released, end delivered |
| `slots` | 4 requests on 2 permits | 44 593 | permits conserved, none idle beside a waiter, bound on running ffmpegs, waiters served, responses reclaimed |
| `pipe` | 4 pieces, every pipe of 1, 2 log lines | 7 847 | no deadlock, ends never invented and complete, disconnect reclaims |
| `mdns` | main and 2 handlers that may panic, at serving, shutdown and unwinding | 4 620 | one goodbye, asked for before every exit, clean stop, shutdown ends |
| `dnssd` | main and 2 handlers | 870 | child reaped, TERM only to it unless a hook ran, shutdown ends |
| `dlna` (`MCSources`) | 8 command lines, 2 starts, 2 media servers with pages of at most 2 and depth 2, a Subsonic server with a window of 2, a directory of 5 files | 399 531 | unique ids, playlists are what they are named for, catalogue whole, cache never torn and of the right server and root, the start ends |
| `listing` (`MCDaap`) | 4 tracks with ties and gaps, answers in any order, 3 sorts, 2 queries, pages of 1 to 3, 2 character sets, 3 logins, 2 updates | 83 744 | bodies read back as meant, pages join, positions grow, counts agree, sessions distinct, updates are news |
| `stream` | 10 tracks, 2 configurations, 4 clients, 4 backends, 12 first and 7 last bytes | 133 420 | pieces join, honest ranges, lengths kept, seeks skip nothing, listed is served |
| `artwork` | cache of 2, 3 tracks, 2 clients with 6 requests each; all black and white rows up to 7 pixels and some of 9, all rows of 5 in 4 shades, shapes up to 11 by 6, sides of at most 9 in a PICT and 10 in a JPEG, rows taken as packed from 4 bytes on | 271 589 | answers match, original only as last resort, PICT reads back where QuickDraw takes it as packed, fits the box, canonical keys |
| `pipe_surfaced`, `listing_empty`, `stream_aiff` | as above | - | the findings of section 6 |

Why the bounds are enough.

- *body*: the stream is longer than channel, hand, leftover and header together,
  so every one is full at some time, and a chunk is both larger and smaller than
  a buffer.
- *slots*: two waiters behind two holders is the least at which a hand-over can
  be lost, skipped or given twice.
- *pipe*: the data exceeds what all pipes hold, so every stage waits for every
  other.
- *mdns, dnssd*: two hooks race with each other and with main; a third does what
  the second did.
- *dlna*: one media server has an album that lists its own parent, a folder of a
  skipped title at the top and again deeper, an entity in titles and artists, a
  film, a song without a resource, one with two artists and two resources, and a
  total that is one too many; the other knows no totals and lists more in a
  container than a page holds. Pages are cut anywhere, and any may come without a
  `NumberReturned` that can be read. The Subsonic server has one album
  under two artists, a playlist of unknown songs, one with some unknown and one
  that repeats a song; the files are of the root, of directories of it and below
  these, one is no audio. The command lines name a server, take the first, give
  a URL, another root, no cache, credentials that do and do not suffice. Two
  starts are enough for a second one to find what the first left.
- *listing*: pages shorter, equal and longer than what is left, ties that only
  the id breaks, and every order of four tracks between two pages. The texts
  have a character that a Mac has, one it has once composed, one that is
  approximated, one that is dropped, one that becomes `?`, and Japanese in the
  middle of other letters. A size passes the largest of 32 bits. `Longest` and `MaxText` (5
  entries, 20 bytes) bound this library and nothing in the model. A client
  that lists is alone (`crowd`), since no listing looks at a session; logins
  interleave with everything before.
- *stream*: first and last bytes on both sides of the AIFF header, the size, the
  real length and the estimate.
- *artwork*: `MaxRun` 4, `CountMod` 8, `LongRow` 5 and `ShortRow` 4 stand for 128,
  256, 250 and 8, and rows of up to 36 bytes pass them. At each of the depths 2, 4
  and 8 there are rows shorter than `ShortRow` and rows that are not; the cache of two evicts under six kinds
  of request.

Symmetry is used nowhere: two runs check liveness, and in the others no set is
both symmetric and large. No run checks `TypeOK`: where it matters it is a
theorem (section 5).

## 4. Fairness

- `BufferedBody`, `FfmpegPipe`, `Transcoder`: weak fairness of the program's own
  tasks. The tokio runtime polls a ready task again, and each of these tasks is
  ready as soon as its pipe or channel is.
- `FfmpegPipe` also assumes that a live ffmpeg that can read, write or end does.
  Without it a hung ffmpeg keeps its permit for ever, as in the code: nothing
  times it out.
- `Transcoder`: a source answers or fails, and while the client has not left a
  response comes to its end or the client leaves. `WaitersServed` rests on this:
  a client that neither reads nor leaves holds its slot for ever.
- `EndIsDelivered` and `ResponseEnds` state the client's patience in the property
  itself (`PatientClient => ...`); the disconnect properties assume nothing of it.
- `Advertisement`, `DnsSdChild`: the threads of main and of the hooks run on. The
  daemon thread and `dns-sd` owe nothing; only their timeouts end a wait.
- `Sources`: weak fairness of `Step`, never of a failure or a crash. The build is
  one task that awaits its requests, so this says that a request is answered if
  it does not fail. The code does not ensure that: the HTTP client that browses a
  media server has no read timeout (`media-source-dlna/src/lib.rs:167`), and one
  that accepts a request and stays silent keeps the start waiting. `StartsUp`
  shows what remains: no cycle of containers and no wrong count does.

The other modules have safety properties only and state no fairness.

## 5. Proofs

All proofs hold for every value of the constants under the named assumptions of
the modules (`BodyAssumption`, `TranscoderAssumption`, ...), which TLC evaluates
on every run.

**BufferedBodyProofs.** `MaxBytes`, a bound for TLC, is any number here. The
invariant: leftover, channel and hand are adjacent slices that reach from what
the client has to what the producer gave, each no longer than a chunk, and only
the last may be an error. None of the properties is inductive alone: that an end
is true needs the chain to be empty when it is told, the run-ahead needs the
lengths of its links. Results: `TypeOK`, `EndIsTruthful`, `RunAheadBounded`,
`SilenceAfterEnd` (the second and the last follow from the refinement too, so
the run leaves them to it) and the refinement `Spec => PipeSpec`, one step of the body
for a step or stutter of the pipe.

**ProcessProofs**, slots. Type, queue, idle permits and their count are inductive
only together: no permit idles because the queue is the waiters, and a hand-over
keeps the count because its receiver held none. Results: `TypeOK`,
`PermitsConserved`, `NoIdlePermit`, `RunningBounded` and, only proved,
`QueueIsWaiting` and `NoStrayFfmpeg`, for any number of requests and permits.

**ProcessProofs**, one response. Types order the stages: what the client got is at most what
was sent, drained, made, taken, fed. `FeederWhole`, `ExitIsWhole`, `DrainerHolds`
and `EofIsLast` say what each stage's end tells of the stage before, and chain
to `CleanEndIsComplete`, for a source of any length and pipes of any size.

**AdvertisementProofs.** The name is in the cell, with one holder, or was handed
over, and where main and the hooks are decides which may be: `stop`, each hook and the
`Drop` of an unwinding main are the holders, and main drops the advertisement only
after its own hook is through (`Places`). Results: `TypeOK`,
`OneGoodbye`, `ExitAsksGoodbye`, for any set of handlers. `CleanStop` needs two
more facts: only the first command is a register (`Withdrawal`), and without a
hook the unregister of `stop` is in the queue before its shutdown (`InOrder`).

**ProcessProofs**, dns-sd. `ReapedBy` says which places of main and of the waiter imply
that the child is reaped, `StillOurs` that before `stop` and without a hook
nobody has waited for it. Results: `DnsTypeOK`, `NoChildLeft`, `TerminatesOwnChild`,
for any set of handlers.

**DaapProofs**, listings. `SortTracks` gives an order that is strict and total, because
ids identify and break every tie; so the place of a track is the number of those
before it, whatever order the source answered in. A page is then a cut of one
sequence, and two cuts that adjoin join to a longer one. The invariant: what the
client got is the cut from its first index to where it stands, and every total it
was told is that of the whole. `ListingAssumption` asks that tracks have
different ids, that every answer of the source names each track once, and that
the fields a sort compares are numbers of the track. Results: `PositionsGrow`,
`TotalIsWhole`, `PagesJoin`, for any library, sort, page and order of answers.
They are theorems of `Spec` in `Listing`, and with the wire of `DaapSpec`.

**DaapProofs**, wire. `ReadsAs(words, s, r)` says that a client with the dictionary
`words` reads the cells `s` as the fields `r`, wherever in a body they are and
whatever follows. Numbers whose width holds them, strings, lists of what reads,
tags it does not know and one piece after another all have it (`NumberReads`,
`StringReads`, `ContainerReads`, `BothRead`, `ManyRead`), because the length that
`Container` fills in late is that of its body (`ContainerIsField`) and the digits
of a number give it back (`NumberReadsBack`). So the dictionary a client gets is
the table it is made from (`DictionaryIs`).

On these rests what a client reads of a listing. A `Part` is a piece of a body with
its reading and a bound of its length; pieces in a row and containers of pieces are
pieces again, so every entry the server writes is one (`TrackEntry`, `PlaylistEntry`,
`LibraryEntry`, `IdEntry`), and a listing is read as its entries (`ListingReads`). An
answer of the handlers is within the bounds of the wire (`HandleSent`) and is read
as what was answered (`ResponseHeard`), whatever texts and numbers the tracks have
besides. So the client over the wire makes the steps of the client of `Listing`
(`WireImplementsListing`). Its invariant (`WireInv`) adds to those of listings and
sessions where the client is and what it was told there. Results: `PagesJoin`,
`PositionsGrow` and `CountsAgree` of `DaapSpec`. `WireAssumption` asks that ids fit
32 bits, as `TrackId` and the ids of playlists do, that an encoded text has at most
`MaxText` bytes and a listing at most `Longest` entries, and that such a listing is
counted by 32 bits: lengths are cast to that width (`dmap.rs:47`, `54`, `64`) and
nothing in the code keeps a body below 4 GiB. It also asks for a database, which each of the three
sources has, one exactly; `NameAssumption` asks that names of playlists be ranks.

**DaapProofs**, sessions. The ids in use are below the counter and differ; who has
anything to do with a session has the dictionary, so the id it reads from the
bytes of `/login` is the one it was given, and the revision it reads is the
server's. Results: `SessionsDistinct` and `UpdateIsNews` (an answered poll brings a new
revision, and only who has the revision waits), for any clients and any
number of logins below the width of the counter (`DaapAssumption`: the counter of
`session.rs` comes round after 2^32 of them, and no id is looked for among the
live).

**CharsetProofs.** A reader that goes over a sequence once makes of it what its
parts are made into, part after part (`Walk`): a character is one part of UTF-8, so
every text is read back (`Utf8ReadsBack`); a Japanese word is one part of a text
that is romanized. What a Mac shows is followed by its letters alone. A character
that neither is one of `Accents` nor can make one is quiet: put between others, it
may be composed, spelled or dropped in any way, and the letters around it stay what
they are (`QuietKeeps`, `QuietRun`). A text and its romanization go side by side,
equal but for quiet characters (`RomanizedKeeps`); composed, they have the same
letters in the same order (`MacRomanShows`). A text with Japanese always keeps a
character the Mac lacks (`NfcOther`), so a text that the Mac has whole was not
romanized and arrives whole.

The dictionaries are any that obey `CharsetAssumption`: the words of the romaji
dictionary are spelled in ASCII and contain no accented letter or accent, what is
composed with a mark is not ASCII, and is a letter of the Mac only from a base on the
Mac and a mark that is not Japanese, and an approximation is ASCII. A text is
`Writable`: if it has Japanese, no accent that makes a letter of the Mac stands on a
kana. Without that the property is false: a kana with an acute is spelled `ka`, say,
and the accent then composes with the `a` to a letter the text does not have.

**DaapProofs**, what is heard. `ReadsBack` says of every body the client has heard
that it is well formed, that a Mac's charset came only to one that accepts it, and
that every name, text and number of every entry is the one of the list or track it
is about, legibly. A piece of an answer has its reading (`Part`, above); from it
follow, entry by entry, what the client is told of a track, all that it has and
nothing else (`TrackTold`), and of a whole listing that it is well formed
(`ListingIs`, `ListingConveyed`). Legibility is `EncodedIsLegible`. What the reading
of a playlist means depends on the request, so the invariant is `WireInv` with
`Said`: `ReadsBack`, and nothing of a playlist heard before one is asked for.
`TextAssumption` asks that all texts be `Writable`, and that numbers fit their
fields: so do the types of the code, but for the bitrate, of 32 bits put into 16
(`responses.rs:125`), and the size, whose cut is part of the property. Result:
`AnswersReadBack`, for any library, client, charset and order of answers.

**SourcesProofs**, disk and ids. Every cache file is absent or whole, and the
temporary file is the catalogue of this start when it is renamed, whatever an
earlier start left in it. Results: no
cache file is ever torn, for any servers, command lines, failures and crashes; one
that changes becomes the catalogue that this start goes on to serve, of its own
server and root (`OnlyTheServedIsSaved`), also when it was whole but could not be
read; no more than `Concurrency` requests are under way
(`WindowBound`); and the ids of a catalogue that is served are those of its places,
so each names one track or playlist (`EveryIdIdentifies`). The last needs the
numbering followed through every build (`NumberInv`): a half-built DLNA catalogue
is numbered by length at every page, a cache file holds what such a build ended
with, the Subsonic crawl numbers what its window answered, and the scan numbers
what it sorted.

**SourcesProofs**, catalogues. `After(s, events)` is the reader after some events;
it is shown for a character, a text, an element and a list of elements in turn
that the parser returns what the elements are, with their texts whole
(`DidlIsRead`), and pages that follow each other read as the listing
(`PageRead`). `WholeInv` then says that what is in a catalogue was seen of its
source, and that what is not in it still waits or was missed. For a media server
this is a set of places, each a container and a depth, that is closed but for the
queue (`Closed`): a container that is seen again at another depth is another
place, so cycles are harmless, and with nothing waiting the set has every level
(`ClosedIsAll`). Every file of the disk has the same property for the server and
root of its key, which is how it gets over a crash and a restart with other
arguments. For Subsonic it says that an answer not under way is among the
answers, and for a directory that a file is scanned or still to be walked; the
sort loses none because the order of paths is strict and total. Results:
`CatalogueStaysWhole` and `CacheStaysSound`.

**SourcesProofs**, playlists. `ListsInv` says which tracks a playlist has: a run
of them that are the first audio items of its container, the tracks the index
gives for its entries, or the places of the files below its directory. With ids
that are places the result is `PlaylistsStayContainers`.

`DlnaAssumption`, `SubsonicAssumption` and `FsAssumption` say that answers are
sequences of elements that are not within each other, that what is listed can be
asked for, that a URL on the command line is one of a server and that a directory
is finite, with one file to a path; a root that is no container of its server is
among the states (`NoSuchObject`).

**StreamResponseProofs.** The answer being read is one that `HandleStream` gives
to the pending request, and a client with a first part asks from its end. The
properties are then facts about `HandleStream` and the arithmetic of seeks.
Results: all five properties of the run, `PiecesJoin`, `RangeIsHonest`,
`PromiseIsKept`, `SeekNeverSkips`, `ListedIsServed`, for every set of tracks,
configurations and ranges.

**ArtworkProofs.** Every cache entry is what `Encode` makes, for an accepted
request with its key, of an artwork the track has had; the key decides the
picture (`KeyDecides`). Results: `AnswerIsForItsRequest` and `KeysAreCanonical`,
for any number of clients and tracks and any cache size; and `FitsTheBox`, for
images and boxes of any size, by the arithmetic of the quotients of `FitWithin`
(`ScaleQuotient`, `ScaleBound`, `ScaleSkew`). For the first two `Encode` is not
expanded beyond its use of the key, so they do not depend on the abstractions of
`Pict`. `OriginalOnlyIfHopeless` joins both halves: an accepted request has a
depth `EncodePict` knows (`DepthHasMode`) and a box that leaves at least a pixel
of each side, so only an image that is broken or too long for the format is left.

**ArtworkProofs**, PICT. Recursion is reasoned about without the library's
induction theorems, which take an operator as a parameter: each recursive function
is taken as a solution of its equation (`PacksExists`, `UnpacksExists` and the
like), and what it computes is shown by induction over sets (`SetInduction`).
From any place of a row on, what `PackBits` writes is a run, whose count is that of
no literal (`RunCounts`), or a literal that fits its count (`Literals`), and
unpacks to that part of the row (`UnpackFrom`); so every row of bytes is unpacked
(`PackBitsUnpacks`). A row of at most `LongRow` bytes grows by a count byte for
each `MaxRun` of them at most, so its count fits a byte (`ShortCount`); this is
where `PictAssumption` asks that `LongRow` leave room, as 250 does below 256. Rows
laid end to end begin where the ones before end (`FlattenLaid`), which is where the
reader looks for them (`EndsAre`, `FileRead`). Pixels of 1, 2, 4 and 8 bits go into
bits that no pixel has yet, so those before keep theirs (`DrawPixel`,
`PixelsPacked`). The reader is QuickDraw's: it takes the rows of a `PackBitsRect` as
packed from `ShortRow` bytes on (8) and shorter ones as they are (`TakenAsPacked`).
Results: `EncodedIsRead`, for images of any size at every depth whose `rowBytes` the
header can hold (`Representable`) and is not below `ShortRow` (`LongEnough`);
with the invariant, `PictShowsTheImage`. What is exempted is a fault of the encoder,
told in section 6. `ImagesAssumption` says what an image is:
rows of its width and height, shades of a byte.

**Only model-checked.** Liveness, since fairness and `ENABLED` are beyond the
prover: `DrainerIsReleased`, `EndIsDelivered`, `WaitersServed`, `ResponsesReclaimed`,
`ResponseEnds`, `DisconnectReclaims`, `StopsInTheEnd` and `StartsUp`; and the absence
of deadlock where a run checks it. Every invariant and every action property that a passing run checks is
stated by a theorem above.

## 6. Findings

Each is a `violation` run and an entry of `findings`.

1. `pipe_surfaced`: an ffmpeg that crashes in mid-track looks to the client like
   the end of the track, since its exit status is never read. The comments say
   any producer error is surfaced (`http.rs:956-958`, `buffered_body.rs:20`).
2. `listing_empty`: `meta=all&sort=` on a playlist of which nothing resolves, an
   unknown playlist included, slices `[0..=0]` of an empty list and panics
   (`http.rs:477`).
3. `stream_aiff`: a range that begins in the 54-byte header of an AIFF
   (`bytes=0-`) is sent without the header, with a length that counts it
   (`http.rs:985`).

Met while modelling, without a run of their own.

Streaming and shutdown:

- The run-ahead is the channel *and* two chunks, one in the drainer's hand and
  one as leftover; the comment at `buffered_body.rs:51-53` counts the channel
  only. `RunAheadBounded` states what holds.
- While a handle is dropped its permit is free and its ffmpeg still alive, so
  for a moment more ffmpegs run than `concurrency` (`transcode.rs:262`, `:443`).
  `RunningBounded` states what holds.
- A panic hook that runs beside `stop` can send the daemon its shutdown before
  the unregister of `stop`, which then still reports success (`mdns.rs:20`).
  `CleanStop` exempts it.
- A handler that panics is caught by its task, and the process goes on; the hook
  has withdrawn the advertisement of a server that still serves (`main.rs:198`).
- After a panic hook has reaped `dns-sd`, `stop` sends SIGTERM to a pid that may
  be a stranger's (`macos.rs:110-116`). `TerminatesOwnChild` exempts it.
- `bytes=5-2` underflows; the default `open_stream_range` does not look at the
  size. An upstream total of `*` is passed on as the length of the part
  (`media-source-dlna/src/lib.rs:340`), so `bytes=0-4` is answered `0-4/5`, though
  `total_bytes` is to be the size of the whole (`media-source/src/lib.rs:78`).
  `Told` exempts such a server.
- The HTTP client of the Subsonic source has a total timeout of 30 s
  (`media-source-subsonic/src/client.rs:42`), which also ends a proxied stream that
  is read slowly. The comment at `media-source-dlna/src/lib.rs:167-172` says why the
  DLNA source has none.

Sources:

- A DLNA build with failed browses is cached as if it were whole
  (`media-source-dlna/src/lib.rs:445`), even when the root itself failed and
  nothing was found. A later start loads that file and stays without the rest, for
  as long as the file can be read; nothing rebuilds it on purpose.
- A media server that does not know its totals answers `TotalMatches` 0, and its
  listings end after the first page (`media-source-dlna/src/browse.rs:227`); so do
  those of a server whose `NumberReturned` is missing or no number (`browse.rs:254-256`).
- A `<res>` without text resolves to the base URL and is served as a track; a
  second `<upnp:artist>` is appended to the first.
- Two processes that share a cache directory share the name of the temporary file
  (`media-source-dlna/src/lib.rs:464`). The model has one process at a time.
- A Subsonic album under two artists is fetched and numbered twice, and playlists
  name the later copy. Track ids depend on the order of answers, so they mean
  other songs after a restart.
- One song of which a number is out of range makes the whole album fail to parse.
- A music directory that does not exist is an empty library.

Listings and wire:

- With ids that do not resolve, positions (`mpco`) have gaps and one track has
  another position in another page cut (`responses.rs:221-237`).
- `shrf` of `/server-info` is not in the table of `/content-codes`, which is of
  "Every tag we emit in any response" (`content_codes.rs:36`). A client skips it.
- `handle_containers` pins the order of playlists (`http.rs:298-303`), but those
  with equal sort keys stay in the order of the source. The entries of the
  Library without `sort=` are in that order too.
- `meta=all` lists a track of a container with the format and size of the source,
  `/items` with those it will be served in.
- An error of the source, and an unknown database, are empty listings
  (`unwrap_or_default` at `http.rs:124`, `190`, `220`, `296`, `408`).
- The q-values of `Accept-Charset` are not looked at, and the server's name is
  always in UTF-8. `asbr` keeps 16 bits of the bitrate (`responses.rs:125`), while
  `assz` stops at the largest size (`responses.rs:131`).
- `charset.rs:23-25` says that what deunicode gives is looked up again; it is
  ASCII and is taken as it is.

Artwork:

- PICT: narrow pictures are misread by a classic Mac. QuickDraw takes the rows of a
  `PackBitsRect` for unpacked, without a count before each, if `rowBytes` is below
  8; `encode_packbits` packs and counts every row (`encoder.rs:89-95`). So up to 6
  pixels wide at depth 8, 12 at depth 4 and 24 at depth 2 the image a client asked
  for, to show as album art (`src/README.md:60-65`), is not the one it sees. What
  QuickDraw does is in no file of the repository, hence no violation run;
  `PictShowsTheImage` exempts these pictures by `LongEnough`. Without that conjunct
  the run `artwork` is violated.
- PICT: `rowBytes` loses its high bits from 8192 pixels a row on (exempt by
  `Representable`).
- The art cache has no digest of the image in its key: a replaced cover stays
  old until it is evicted.

## 7. Not modelled

- Small paths that no state of the model takes: a closing tag replaces the open node
  of the parser whatever its kind, and empty elements (`browse.rs:374-402`; not
  reached, as `DlnaAssumption` has elements apart), and a source that fails when
  `/databases` asks it (`http.rs:192-203`), which none of the three does after its
  start.
- Whom the SIGKILL of `macos.rs:132` meets: `TerminatesOwnChild` is about the SIGTERM.
- Between two requests for the pages of a playlist the source keeps its order, as all
  three sources do; for the Library the order is chosen anew.
- Text and bytes without state: numeric character references and the attributes
  of `<res>`, the text of a device description, JSON, the salted token of
  Subsonic, tags inside audio files, long names of `/content-codes`, dither and
  palettes. The dictionaries behind romanization, composition and approximation
  are constants of `Charset`; characters beyond U+FFFF are left out.
- Where a source finds a cover (embedded picture, file of the folder, URL) when it
  is asked for one: in `Artwork` the cover is an input that changes at any time.
- Numeric filters: resizing is taking the pixel at the place, JPEG the image
  itself. The audio is a sequence of positions.
- The options of the command line (a library parses them) and the `dlna-list`
  command, which changes nothing.

## 8. Plan

Done, the most important behaviour first: body and pipe, slots, advertisement,
DLNA catalogue, listings, streams, artwork with PICT; then the Subsonic and the
filesystem source with start-up and restart, the wire and the sessions, servers
that do not know their totals; proofs beside each.

What could follow:

1. `Transcoder` with `FfmpegPipe` as its child: one response of the second as an
   implementation of the `streaming` phase of the first.
2. The lookup of covers in the three sources.
