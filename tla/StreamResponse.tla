--------------------------- MODULE StreamResponse ---------------------------
(***************************************************************************)
(* What GET /databases/<db>/items/<id> answers and what a client makes of  *)
(* the answers: handle_stream, serve_passthrough and serve_transcoded      *)
(* (http.rs), the format and size arithmetic of transcode.rs, and          *)
(* open_stream_range of the trait and of the backends.                     *)
(*                                                                         *)
(* A client asks for a track, whole or by range; the connection may break  *)
(* after any byte, and it asks for what it misses.  A body is named by the *)
(* positions of the bytes, samples or encoded bytes it carries.            *)
(***************************************************************************)
EXTENDS Integers, Sequences

CONSTANTS
  None,        \* what is unknown or absent
  Tracks,      \* [format, size, durationMs, micros, bytes, produces]:
               \* size as scanned or listed, micros as probed, bytes as
               \* there when opened, produces: what ffmpeg makes of it
  Configs,     \* Config: [enabled, kbps]
  Clients,     \* [modern, aiff]: iTunes 4.5 or later, Accept: audio/x-aiff
  Backends,    \* of "file", "skipping" (the default method), "remote",
               \* "untold" (remote, with * for the total of a range)
  Starts,      \* first and last bytes clients ask for
  Ends,
  SourceCap,   \* SOURCE_BUFFER_CAP
  Word         \* u64::MAX + 1, scaled down

\* AudioFormat
Formats == {"mp3", "aac", "alac", "flac", "wav", "aiff", "ogg", "other"}

ASSUME StreamAssumption ==
  /\ Backends \subseteq {"file", "skipping", "remote", "untold"}
  /\ None \notin Int \cup [start : Nat, end : Nat]
  /\ \A t \in Tracks :
       /\ t.format \in Formats
       /\ {t.size, t.durationMs, t.micros} \subseteq Nat \cup {None}
       /\ {t.bytes, t.produces} \subseteq Nat
  /\ \A c \in Configs : c.enabled \in BOOLEAN /\ c.kbps \in Nat \ {0}
  /\ \A c \in Clients : c.modern \in BOOLEAN /\ c.aiff \in BOOLEAN
  /\ Starts \subseteq Nat /\ Ends \subseteq Nat
  /\ Word \in Nat \ {0}

VARIABLES
  track, cfg, client, backend,   \* fixed
  ask,      \* the request on its way, or None
  resp,     \* the answer being read, or None
  have,     \* positions of the bytes the client has put together
  state     \* of the client: "idle", "asked", "reading", "done", "failed"

setting == <<track, cfg, client, backend>>
vars == <<setting, ask, resp, have, state>>

Remote == {"remote", "untold"}

Whole == [is |-> "whole"]
Part(s, e) == [is |-> "range", start |-> s, end |-> e]

\* bytes=S-E with E < S is no range by RFC 9110, but parse_range_header lets
\* it through, so clients may send it; an E that does not parse is none.
Asks == {Whole} \cup {Part(s, e) : s \in Starts, e \in Ends \cup {None}}

WellFormed(a) == a.is = "range" => a.end = None \/ a.start <= a.end

Init ==
  /\ track \in Tracks /\ cfg \in Configs /\ client \in Clients
  /\ backend \in Backends
  /\ track.size = None => backend \in Remote
  /\ ask = None /\ resp = None /\ have = <<>> /\ state = "idle"

Lesser(a, b) == IF a < b THEN a ELSE b

\* e - s + 1 as a release build computes it: an end before the start wraps.
Span(s, e) == IF s <= e + 1 THEN e + 1 - s ELSE Word + e + 1 - s

\* The last position of n, saturating.
LastByte(n) == IF n = 0 THEN 0 ELSE n - 1

-----------------------------------------------------------------------------
(* transcode.rs *)

Passthrough(f) == [kind |-> "passthrough", format |-> f]
Mp3 == [kind |-> "mp3", format |-> "mp3"]
Alac == [kind |-> "alac", format |-> "alac"]
ClassicAiff == [kind |-> "aiff", format |-> "aiff"]

ChooseFormat(f, modern) ==
  CASE f \in {"mp3", "aiff", "wav"} -> Passthrough(f)
    [] f \in {"aac", "alac"} -> IF modern THEN Passthrough(f) ELSE Mp3
    [] f = "flac" -> IF modern THEN Alac ELSE Mp3
    [] f \in {"ogg", "other"} -> Mp3

SampleRate == 22254
HeaderBytes == 54

\* classic_aiff_sample_count_micros, and the fallback to the duration.
SamplesOfMicros(us) == (us * SampleRate + 500000) \div 1000000
SamplesOfMs(ms) == (ms * SampleRate) \div 1000
SampleCount(t) ==
  CASE t.micros # None     -> SamplesOfMicros(t.micros)
    [] t.micros = None /\ t.durationMs # None -> SamplesOfMs(t.durationMs)
    [] OTHER               -> None

AiffSize(samples) == HeaderBytes + samples

\* Fault: rounded up to the next millisecond.
AiffSeekUp(s) ==
  IF s <= HeaderBytes THEN 0
  ELSE ((s - HeaderBytes) * 1000) \div SampleRate + 1

\* classic_aiff_byte_to_time_ms
AiffSeek(s) ==
  IF s <= HeaderBytes THEN 0
  ELSE ((s - HeaderBytes) * 1000) \div SampleRate

\* ffmpeg -ss: the first sample at or after the time.
FirstSample(ms) == (ms * SampleRate + 999) \div 1000

EstimateMp3(ms, kbps) == (ms * kbps) \div 8
Mp3Seek(s, kbps) == (s * 8) \div kbps
AlacSeek(s, ms, total) == (2 * s * ms + total) \div (2 * total)

-----------------------------------------------------------------------------
(* handle_stream *)

Served ==
  CASE client.aiff -> ClassicAiff
    [] ~client.aiff /\ cfg.enabled -> ChooseFormat(track.format, client.modern)
    [] OTHER -> Passthrough(track.format)

\* Fault: the listing does not look at the version of the client.
ListedForModern ==
  IF cfg.enabled THEN ChooseFormat(track.format, TRUE).format ELSE track.format

\* handle_items announces the format for the same User-Agent.
Listed ==
  IF cfg.enabled THEN ChooseFormat(track.format, client.modern).format ELSE track.format

Nothing == [of |-> "nothing", header |-> None, lo |-> 0, hi |-> 0]
Bytes(lo, hi) == [of |-> "source", header |-> None, lo |-> lo, hi |-> IF hi < lo THEN lo ELSE hi]
Refuse(code) ==
  [status |-> code, content |-> None, length |-> None, range |-> None, body |-> Nothing]

\* What a backend hands out: StreamHandle.
Handle(total, range, body) == [total |-> total, range |-> range, body |-> body]

\* Whole: a media server may or may not send a Content-Length.
OpenStreams ==
  {Handle(total, None, Bytes(0, track.bytes)) :
     total \in IF backend \in Remote THEN {None, track.bytes} ELSE {track.size}}

\* Fault: the end is not clamped to the file.
FileRangeUnclamped(s, e) ==
  LET last == IF e = None THEN track.size - 1 ELSE e
  IN  Handle(track.size, [start |-> s, end |-> last],
             Bytes(s, Lesser(s + Span(s, last), track.bytes)))

\* Fault: no seek.
FileRangeUnsought(s, e) ==
  LET last == IF e = None THEN track.size - 1 ELSE Lesser(e, track.size - 1)
  IN  Handle(track.size, [start |-> s, end |-> last],
             Bytes(0, Lesser(Span(s, last), track.bytes)))

\* media-source-fs: size is the size when the directory was scanned.
FileRange(s, e) ==
  LET last == IF e = None THEN track.size - 1 ELSE Lesser(e, track.size - 1)
  IN  Handle(track.size, [start |-> s, end |-> last],
             Bytes(s, Lesser(s + Span(s, last), track.bytes)))

\* The default method of the trait, for sources without a seek that know
\* their size.
SkippingRange(s, e) ==
  LET last == IF e = None THEN LastByte(track.size) ELSE e
      to == IF last >= s THEN Lesser(last + 1, track.bytes) ELSE track.bytes
  IN  Handle(track.size, [start |-> s, end |-> last], Bytes(Lesser(s, track.bytes), to))

\* A media server answers a range with 206 and the total, or with * and the
\* length of the part, or ignores it; the proxying backends hand that on.
RemoteRanges(s, e) ==
  LET last == IF e = None THEN track.bytes - 1 ELSE Lesser(e, track.bytes - 1)
      total == IF backend = "untold" THEN last + 1 - s ELSE track.bytes
  IN  OpenStreams \cup
        {Handle(total, [start |-> s, end |-> last], Bytes(s, last + 1))}

\* What a backend may answer to a range, {} when it fails.
OpenStreamRange(s, e) ==
  CASE backend = "file" -> IF s >= track.size THEN {} ELSE {FileRange(s, e)}
    [] backend = "skipping" -> {SkippingRange(s, e)}
    [] backend \in Remote ->
         IF s >= track.bytes \/ (e # None /\ e < s) THEN {} ELSE RemoteRanges(s, e)

FromHandle(h) ==
  IF h.range = None
  THEN [status |-> 200, content |-> track.format, length |-> h.total,
        range |-> None, body |-> h.body]
  ELSE [status |-> 206, content |-> track.format,
        length |-> Span(h.range.start, h.range.end),
        range |-> [start |-> h.range.start, end |-> h.range.end, total |-> h.total],
        body |-> h.body]

ServePassthrough ==
  {Refuse(404)} \cup
  {FromHandle(h) : h \in IF ask.is = "whole" THEN OpenStreams
                          ELSE OpenStreamRange(ask.start, ask.end)}

-----------------------------------------------------------------------------
(* serve_transcoded *)

EstTotal(served) ==
  CASE served = ClassicAiff ->
         IF SampleCount(track) = None THEN None ELSE AiffSize(SampleCount(track))
    [] served = Mp3 ->
         IF track.durationMs = None THEN None ELSE EstimateMp3(track.durationMs, cfg.kbps)
    [] served = Alac -> track.size

\* seek_time_ms for a range that starts before the total.
SeekMs(served, s) ==
  CASE served = Mp3 -> Mp3Seek(s, cfg.kbps)
    [] served = Alac ->
         IF track.durationMs = None THEN None ELSE AlacSeek(s, track.durationMs, EstTotal(served))
    [] served = ClassicAiff -> AiffSeek(s)

\* ffmpeg's output from a time on: samples, or as many encoded bytes as the
\* encoder makes.  Past the end there are none.
Output(served, ms) ==
  IF served = ClassicAiff
  THEN [of |-> "samples", header |-> None, lo |-> FirstSample(ms),
        hi |-> IF FirstSample(ms) > track.produces THEN FirstSample(ms) ELSE track.produces]
  ELSE [of |-> "encoded", header |-> None, lo |-> 0, hi |-> track.produces]

\* Fault: the Content-Length is the estimate for every format.
TranscodeWholeEstimated(served) ==
  LET total == EstTotal(served)
      out == Output(served, 0)
  IN  [status |-> 200, content |-> served.format, length |-> total, range |-> None,
       body |-> IF served = ClassicAiff
                THEN [out EXCEPT !.header = IF SampleCount(track) = None THEN 0 ELSE SampleCount(track)]
                ELSE out]

TranscodeWhole(served) ==
  LET out == Output(served, 0)
  IN  [status |-> 200, content |-> served.format, range |-> None,
       length |-> IF served = ClassicAiff THEN EstTotal(served) ELSE None,
       body |-> IF served = ClassicAiff
                THEN [out EXCEPT !.header = IF SampleCount(track) = None THEN 0 ELSE SampleCount(track)]
                ELSE out]

TranscodePart(served, ms) ==
  LET total == EstTotal(served)
      last == IF ask.end = None THEN total - 1 ELSE Lesser(ask.end, total - 1)
  IN  [status |-> 206, content |-> served.format, length |-> Span(ask.start, last),
       range |-> [start |-> ask.start, end |-> last, total |-> total],
       body |-> Output(served, ms)]

\* is_partial
Partial(served) ==
  /\ ask.is = "range"
  /\ EstTotal(served) # None /\ ask.start < EstTotal(served)
  /\ SeekMs(served, ask.start) # None

\* 404 and 502: the source cannot be opened or read; 413: it is too large;
\* 500: ffmpeg cannot be started.
ServeTranscoded(served) ==
  {Refuse(404), Refuse(502)} \cup
  IF track.bytes > SourceCap THEN {Refuse(413)}
  ELSE {Refuse(500),
        IF Partial(served) THEN TranscodePart(served, SeekMs(served, ask.start))
                           ELSE TranscodeWhole(served)}

HandleStream ==
  IF Served.kind = "passthrough" THEN ServePassthrough ELSE ServeTranscoded(Served)

-----------------------------------------------------------------------------
(* The client and the connection *)

\* From the first byte, from a byte it chooses, or from where it stopped.
Request ==
  /\ state = "idle"
  /\ ask' \in IF have = <<>> THEN Asks ELSE {Part(Len(have), None)}
  /\ state' = "asked"
  /\ UNCHANGED <<setting, resp, have>>

Respond ==
  /\ state = "asked"
  /\ \E r \in HandleStream :
       /\ resp' = r
       /\ state' = IF r.status \in {200, 206} THEN "reading" ELSE "failed"
  /\ UNCHANGED <<setting, ask, have>>

BodyLength(r) ==
  (IF r.body.header = None THEN 0 ELSE HeaderBytes) + r.body.hi - r.body.lo

\* hyper sends no more than the Content-Length.
Carried(r) == IF r.length = None THEN BodyLength(r) ELSE Lesser(r.length, BodyLength(r))

\* The client has n bytes of the answer when it ends or breaks.
EndsWith(n, r) == n = IF r.length = None THEN BodyLength(r) ELSE r.length

\* The client of a file reads n bytes: a 200 starts it over, a 206 continues
\* where its range says and is put aside if that is elsewhere.
Read ==
  /\ state = "reading"
  /\ resp.body.of = "source"
  /\ \E n \in 0 .. Carried(resp) :
       LET piece == [i \in 1 .. n |-> resp.body.lo + i - 1]
       IN  \/ /\ resp.status = 200
              /\ have' = piece
              /\ state' = IF EndsWith(n, resp) THEN "done" ELSE "idle"
           \/ /\ resp.status = 206 /\ resp.range.start = Len(have)
              /\ have' = have \o piece
              /\ state' = IF EndsWith(n, resp) /\ resp.range.end + 1 = resp.range.total
                          THEN "done" ELSE "idle"
           \/ /\ resp.status = 206 /\ resp.range.start # Len(have)
              /\ state' = "idle"
              /\ UNCHANGED have
  /\ resp' = None /\ ask' = None
  /\ UNCHANGED setting

\* A transcoded answer is read to its end.
Play ==
  /\ state = "reading"
  /\ resp.body.of \in {"samples", "encoded"}
  /\ state' = "done"
  /\ UNCHANGED <<setting, ask, resp, have>>

Next == Request \/ Respond \/ Read \/ Play

Spec == Init /\ [][Next]_vars

-----------------------------------------------------------------------------
TypeOK ==
  /\ track \in Tracks /\ cfg \in Configs /\ client \in Clients /\ backend \in Backends
  /\ ask = None \/ ask.is \in {"whole", "range"}
  /\ state \in {"idle", "asked", "reading", "done", "failed"}
  /\ \A i \in 1 .. Len(have) : have[i] \in Nat
  /\ resp # None => resp.body.lo <= resp.body.hi
  /\ state \in {"idle", "asked"} => resp = None
  /\ state = "reading" => resp # None /\ resp.status \in {200, 206}

\* The source is as long as it was when it was scanned or listed.
Unchanged == backend \in Remote \/ track.size = track.bytes

\* The total of a range is that of the track.
Told == backend # "untold"

\* Answered with audio.
Answered == resp # None /\ resp.status \in {200, 206}

\* Wherever the connection breaks and whether or not the server behind
\* understands ranges, the pieces of an untouched track join to its bytes,
\* in order and each once, and a client that is done has them all, if it was
\* told how many there are.
PiecesJoin ==
  /\ \A i \in 1 .. Len(have) : have[i] = i - 1
  /\ (state = "done" /\ Served.kind = "passthrough" /\ Unchanged /\ Told) => Len(have) = track.bytes

\* The default method does not look at the size.  All three backends of the
\* program override it; its answers are exempt for what lies past the end.
DefaultFits ==
  (backend = "skipping" /\ ask.is = "range" /\ Served.kind = "passthrough") =>
    ask.start < track.size /\ (ask.end = None \/ ask.end < track.size)

\* What a 206 says of itself: it begins at the byte that was asked for, ends
\* within the total and not before it began, and its length agrees.
RangeIsHonest ==
  Answered /\ resp.status = 206 /\ WellFormed(ask) /\ DefaultFits =>
    /\ ask.is = "range" /\ resp.range.start = ask.start
    /\ ask.start <= resp.range.end /\ (Told => resp.range.end < resp.range.total)
    /\ ask.end # None => resp.range.end <= ask.end
    /\ resp.length = resp.range.end - resp.range.start + 1

\* The probe saw as many samples as ffmpeg makes.
Probed == Served = ClassicAiff => SampleCount(track) = track.produces

\* An answer that is exempt from the next property: a range of a lossy or
\* re-contained transcode, whose length is an estimate, and a range of an
\* AIFF that begins within its header.
Estimated ==
  /\ resp.status = 206
  /\ \/ Served \in {Mp3, Alac}
     \/ Served = ClassicAiff /\ ask.start < HeaderBytes

\* A Content-Length is a promise: an untouched source has as many bytes, a
\* probed AIFF as many samples, and its header counts the samples after it
\* ("so a small size-estimate drift can't leave hyper waiting for bytes that
\* will never come").
PromiseIsKept ==
  Answered /\ WellFormed(ask) /\ DefaultFits /\ Unchanged /\ Probed =>
    /\ (resp.length # None /\ ~Estimated) => BodyLength(resp) >= resp.length
    /\ (resp.body.header # None) => resp.body.header = resp.body.hi

\* A seek into an AIFF never skips audio and repeats less than a
\* millisecond and a sample of it.
SeekNeverSkips ==
  (Answered /\ resp.status = 206 /\ Served = ClassicAiff /\ ask.start >= HeaderBytes) =>
    /\ resp.body.lo <= ask.start - HeaderBytes
    /\ (ask.start - HeaderBytes - resp.body.lo) * 1000 < SampleRate + 1000

\* What /items announces to a client is what it is served, unless it asks for
\* AIFF: the two handlers decide apart.
ListedIsServed == Answered /\ ~client.aiff => resp.content = Listed

\* The same promise for every range of an AIFF: the length counts what the
\* body carries.
AdvertisedIsDelivered ==
  (Answered /\ WellFormed(ask) /\ Unchanged /\ Probed /\ Served = ClassicAiff
    /\ resp.length # None) => BodyLength(resp) >= resp.length
=============================================================================
