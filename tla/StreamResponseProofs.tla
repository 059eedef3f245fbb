------------------------ MODULE StreamResponseProofs ------------------------
(***************************************************************************)
(* Proofs about StreamResponse, for every set of tracks, configurations,   *)
(* clients and ranges: pieces of a track join to its bytes, a range says   *)
(* where it is from, a Content-Length is kept, a seek into an AIFF never   *)
(* skips audio, and a track is served as it is listed.                     *)
(*                                                                         *)
(* The inductive invariant says that an answer being read is one of those  *)
(* HandleStream gives to the request that is still pending, and that a     *)
(* client with a first part asks for the rest from its end; the properties *)
(* are then facts about HandleStream alone.                                *)
(***************************************************************************)
EXTENDS StreamResponse, SequenceTheorems, TLAPS

Settings ==
  /\ track \in Tracks /\ cfg \in Configs /\ client \in Clients
  /\ backend \in Backends
  /\ track.size = None => backend \in Remote

\* The bytes put together so far are the first ones of the track.
Prefix ==
  /\ have \in Seq(Nat)
  /\ Len(have) <= track.bytes
  /\ \A i \in 1 .. Len(have) : have[i] = i - 1

Pending == ask \in IF have = <<>> THEN Asks ELSE {Part(Len(have), None)}

AskTypes ==
  /\ ask.is \in {"whole", "range"}
  /\ ask.is = "range" => ask.start \in Nat /\ ask.end \in Nat \cup {None}

Inv ==
  /\ Settings
  /\ Prefix
  /\ state \in {"idle", "asked", "reading", "done", "failed"}
  /\ state \in {"idle", "asked"} => resp = None
  /\ state \in {"asked", "reading"} => Pending
  /\ resp # None => AskTypes
  /\ state = "reading" => resp \in HandleStream /\ resp.status \in {200, 206}
  /\ resp # None => resp \in HandleStream
  /\ (state = "done" /\ Served.kind = "passthrough" /\ Unchanged /\ Told) =>
       Len(have) = track.bytes

-----------------------------------------------------------------------------
(* Arithmetic of transcode.rs *)

\* The sample a seek begins at is not after the byte that was asked for, and
\* less than a millisecond and a sample before it.
LEMMA SeekArithmetic ==
  ASSUME NEW s \in Nat, s >= HeaderBytes
  PROVE  /\ FirstSample(AiffSeek(s)) \in Nat
         /\ FirstSample(AiffSeek(s)) <= s - HeaderBytes
         /\ (s - HeaderBytes - FirstSample(AiffSeek(s))) * 1000 < SampleRate + 1000
BY SMT DEF FirstSample, AiffSeek, HeaderBytes, SampleRate

LEMMA SpanInt ==
  ASSUME NEW s \in Nat, NEW e \in Nat
  PROVE  /\ Span(s, e) \in Int
         /\ s <= e + 1 => Span(s, e) = e + 1 - s
BY StreamAssumption DEF Span

-----------------------------------------------------------------------------
(* What the handler answers *)

LEMMA TrackTypes ==
  ASSUME Settings
  PROVE  /\ track.bytes \in Nat /\ track.produces \in Nat
         /\ track.size \in Nat \cup {None}
         /\ backend \notin Remote => track.size \in Nat
         /\ track.durationMs \in Nat \cup {None} /\ track.micros \in Nat \cup {None}
         /\ client.aiff \in BOOLEAN /\ client.modern \in BOOLEAN
         /\ cfg.enabled \in BOOLEAN /\ cfg.kbps \in Nat \ {0}
         /\ track.format \in Formats
BY StreamAssumption DEF Settings

\* A body with bytes of the source comes from ServePassthrough.
LEMMA SourceIsPassthrough ==
  ASSUME Settings, NEW r \in HandleStream, r.body.of = "source"
  PROVE  r \in ServePassthrough
<1>1. CASE Served.kind = "passthrough"
  BY <1>1 DEF HandleStream
<1>2. CASE Served.kind # "passthrough"
  <2>1. r \in ServeTranscoded(Served)
    BY <1>2 DEF HandleStream
  <2>2. \A code : Refuse(code).body.of = "nothing"
    BY DEF Refuse, Nothing
  <2>3. \A ms : Output(Served, ms).of \in {"samples", "encoded"}
    BY DEF Output
  <2>4. \A ms : TranscodePart(Served, ms).body.of \in {"samples", "encoded"}
    BY <2>3 DEF TranscodePart
  <2>5. TranscodeWhole(Served).body.of \in {"samples", "encoded"}
    BY DEF TranscodeWhole, Output
  <2> QED BY <2>1, <2>2, <2>4, <2>5 DEF ServeTranscoded
<1> QED BY <1>1, <1>2

LEMMA RangesFromSource ==
  ASSUME Settings, NEW s, NEW e, NEW h \in OpenStreamRange(s, e)
  PROVE  h.body.of = "source"
<1>1. \A lo, hi : Bytes(lo, hi).of = "source"
  BY DEF Bytes
<1>2. \A g \in OpenStreams : g.body.of = "source"
  BY <1>1 DEF OpenStreams, Handle
<1>3. CASE backend = "file"
  BY <1>1, <1>3 DEF OpenStreamRange, FileRange, Handle, Remote
<1>4. CASE backend = "skipping"
  BY <1>1, <1>4 DEF OpenStreamRange, SkippingRange, Handle, Remote
<1>5. CASE backend \in Remote
  BY <1>1, <1>2, <1>5 DEF OpenStreamRange, RemoteRanges, Handle, Remote
<1> QED BY <1>3, <1>4, <1>5, StreamAssumption DEF Settings, Remote

LEMMA PassthroughIsSource ==
  ASSUME Settings, Served.kind = "passthrough", NEW r \in HandleStream
  PROVE  r.body.of \in {"source", "nothing"}
<1>1. Refuse(404).body.of = "nothing"
  BY DEF Refuse, Nothing
<1>2. \A h \in OpenStreams : h.body.of = "source"
  BY DEF OpenStreams, Handle, Bytes
<1>3. \A h : FromHandle(h).body = h.body
  BY DEF FromHandle
<1> QED BY <1>1, <1>2, <1>3, RangesFromSource DEF HandleStream, ServePassthrough

LEMMA ServedFromSource ==
  ASSUME Settings, Served.kind = "passthrough",
         NEW r \in HandleStream, r.status \in {200, 206}
  PROVE  r.body.of = "source"
<1>1. \A lo, hi : Bytes(lo, hi).of = "source"
  BY DEF Bytes
<1>2. \A h \in OpenStreams : h.body.of = "source"
  BY <1>1 DEF OpenStreams, Handle
<1>3. r # Refuse(404)
  BY DEF Refuse
<1>4. PICK h \in IF ask.is = "whole" THEN OpenStreams ELSE OpenStreamRange(ask.start, ask.end) :
        r = FromHandle(h)
  BY <1>3 DEF HandleStream, ServePassthrough
<1>5. r.body = h.body
  BY <1>4 DEF FromHandle
<1> QED BY <1>2, <1>4, <1>5, RangesFromSource

\* What an answer with bytes of the source says and carries.
Whole200(r) ==
  /\ r.body.lo = 0 /\ r.body.hi = track.bytes
  /\ r.length \in Nat \cup {None}
  /\ Unchanged => r.length \in {None, track.bytes}

\* The range is within the size that the default method does not look at.
Fits ==
  backend = "skipping" =>
    ask.start < track.size /\ (ask.end = None \/ ask.end < track.size)

\* A range with a beginning and an end: inside the total, and all of it there.
Proper(r) ==
  WellFormed(ask) /\ Fits =>
    /\ ask.start <= r.range.end
    /\ Told => r.range.end < r.range.total
    /\ Unchanged => r.body.lo = ask.start /\ r.body.hi = r.range.end + 1

Part206(r) ==
  /\ ask.is = "range"
  /\ r.range.start = ask.start
  /\ r.range.end \in Nat
  /\ ask.end # None => r.range.end <= ask.end
  /\ r.length = Span(ask.start, r.range.end)
  /\ r.body.lo \in Nat /\ r.body.hi \in Nat
  /\ \/ r.body.hi = r.body.lo
     \/ r.body.lo = ask.start /\ r.body.lo <= r.body.hi /\ r.body.hi <= track.bytes
  /\ Unchanged /\ Told => r.range.total = track.bytes
  /\ Proper(r)

LEMMA HandleFacts ==
  ASSUME Settings, AskTypes, ask.is = "range",
         NEW h \in OpenStreamRange(ask.start, ask.end)
  PROVE  /\ h.range = None => Whole200(FromHandle(h))
         /\ h.range # None => Part206(FromHandle(h))
         /\ FromHandle(h).body.header = None
<1> DEFINE s == ask.start
           e == ask.end
<1> USE TrackTypes, StreamAssumption DEF Remote
<1>0. s \in Nat /\ e \in Nat \cup {None} /\ None \notin Nat
  BY DEF AskTypes
<1>1. CASE backend = "file"
  <2> DEFINE last == IF e = None THEN track.size - 1 ELSE Lesser(e, track.size - 1)
             to == Lesser(s + Span(s, last), track.bytes)
  <2>1. track.size \in Nat /\ s < track.size /\ h = FileRange(s, e)
    BY <1>0, <1>1 DEF OpenStreamRange
  <2>2. last \in Nat /\ (e # None => last <= e)
    BY <1>0, <2>1 DEF Lesser
  <2>3. to \in Int /\ to <= track.bytes
    <3>1. Span(s, last) \in Int
      BY <1>0, <2>2, SpanInt
    <3> QED BY <1>0, <3>1 DEF Lesser
  <2>4. h = Handle(track.size, [start |-> s, end |-> last], Bytes(s, to))
    BY <2>1 DEF FileRange
  <2>a. last < track.size /\ (WellFormed(ask) => s <= last)
    BY <1>0, <2>1 DEF Lesser, WellFormed
  <2>b. WellFormed(ask) /\ Unchanged => to = last + 1
    <3>1. s <= last + 1 => Span(s, last) = last + 1 - s
      BY <1>0, <2>2, SpanInt
    <3> QED BY <1>0, <1>1, <2>1, <2>2, <2>a, <3>1 DEF Lesser, Unchanged
  <2> HIDE DEF last, to
  <2>5. h.range = [start |-> s, end |-> last] /\ h.range # None
    BY <1>0, <2>2, <2>4 DEF Handle
  <2>6. /\ h.total = track.size /\ h.body.lo = s /\ h.body.header = None
        /\ h.body.hi = IF to < s THEN s ELSE to
    BY <2>4 DEF Handle, Bytes
  <2>7. Proper(FromHandle(h))
    BY <1>0, <2>1, <2>2, <2>3, <2>5, <2>6, <2>a, <2>b DEF FromHandle, Proper
  <2> QED BY <1>0, <1>1, <2>1, <2>2, <2>3, <2>5, <2>6, <2>7 DEF FromHandle, Part206, Unchanged
<1>2. CASE backend = "skipping"
  <2> DEFINE last == IF e = None THEN LastByte(track.size) ELSE e
             to == IF last >= s THEN Lesser(last + 1, track.bytes) ELSE track.bytes
             lo == Lesser(s, track.bytes)
  <2>1. track.size \in Nat /\ h = SkippingRange(s, e)
    BY <1>0, <1>2 DEF OpenStreamRange
  <2>2. last \in Nat /\ (e # None => last <= e)
    BY <1>0, <2>1 DEF LastByte
  <2>3. to \in Nat /\ to <= track.bytes /\ lo \in Nat /\ lo <= track.bytes
    BY <1>0, <2>2 DEF Lesser
  <2>4. lo = s \/ lo = track.bytes
    BY DEF Lesser
  <2>5. h = Handle(track.size, [start |-> s, end |-> last], Bytes(lo, to))
    BY <2>1 DEF SkippingRange
  <2>6. to > lo => lo = s
    BY <1>0, <2>2 DEF Lesser
  <2>a. WellFormed(ask) /\ Fits => s <= last /\ last < track.size
    BY <1>0, <1>2, <2>1 DEF LastByte, WellFormed, Fits
  <2>b. WellFormed(ask) /\ Fits /\ Unchanged => lo = s /\ to = last + 1
    BY <1>0, <1>2, <2>1, <2>2, <2>a DEF Lesser, Unchanged, Fits
  <2> HIDE DEF last, to, lo
  <2>7. h.range = [start |-> s, end |-> last] /\ h.range # None
    BY <1>0, <2>2, <2>5 DEF Handle
  <2>8. /\ h.total = track.size /\ h.body.lo = lo /\ h.body.header = None
        /\ h.body.hi = IF to < lo THEN lo ELSE to
    BY <2>5 DEF Handle, Bytes
  <2>9. Proper(FromHandle(h))
    BY <1>0, <2>1, <2>2, <2>3, <2>7, <2>8, <2>a, <2>b DEF FromHandle, Proper
  <2> QED BY <1>0, <1>2, <2>1, <2>2, <2>3, <2>4, <2>6, <2>7, <2>8, <2>9
          DEF FromHandle, Part206, Unchanged
<1>3. CASE backend \in Remote
  <2> DEFINE last == IF e = None THEN track.bytes - 1 ELSE Lesser(e, track.bytes - 1)
  <2> DEFINE total == IF backend = "untold" THEN last + 1 - s ELSE track.bytes
  <2>1. s < track.bytes /\ (e # None => s <= e) /\ h \in RemoteRanges(s, e)
    BY <1>0, <1>3 DEF OpenStreamRange
  <2>2. last \in Nat /\ (e # None => last <= e) /\ s <= last + 1 /\ last + 1 <= track.bytes
    BY <1>0, <2>1 DEF Lesser
  <2>3. CASE h \in OpenStreams
    BY <1>3, <2>3 DEF OpenStreams, Handle, Bytes, FromHandle, Whole200
  <2>4. CASE h = Handle(total, [start |-> s, end |-> last], Bytes(s, last + 1))
    <3>0. Told => total = track.bytes
      BY DEF Told
    <3>a. s <= last /\ last < track.bytes
      BY <1>0, <2>1 DEF Lesser
    <3> HIDE DEF last, total
    <3>1. h.range = [start |-> s, end |-> last] /\ h.range # None
      BY <1>0, <2>2, <2>4 DEF Handle
    <3>2. /\ h.total = total /\ h.body.lo = s /\ h.body.header = None
          /\ h.body.hi = IF last + 1 < s THEN s ELSE last + 1
      BY <2>4 DEF Handle, Bytes
    <3>3. Proper(FromHandle(h))
      BY <1>0, <2>2, <3>0, <3>a, <3>1, <3>2 DEF FromHandle, Proper
    <3> QED BY <1>0, <1>3, <2>1, <2>2, <3>0, <3>1, <3>2, <3>3 DEF FromHandle, Part206
  <2> QED BY <2>1, <2>3, <2>4 DEF RemoteRanges
<1>4. backend \in {"file", "skipping"} \cup Remote
  BY StreamAssumption DEF Settings
<1> QED BY <1>1, <1>2, <1>3, <1>4

LEMMA SourceFacts ==
  ASSUME Settings, AskTypes,
         NEW r \in HandleStream, r.body.of = "source"
  PROVE  /\ r.status \in {200, 206}
         /\ r.status = 200 => Whole200(r)
         /\ r.status = 206 => Part206(r)
         /\ r.body.header = None
<1>1. r \in ServePassthrough
  BY SourceIsPassthrough
<1>2. r # Refuse(404)
  BY DEF Refuse, Nothing
<1>3. CASE ask.is = "whole"
  <2>1. PICK h \in OpenStreams : r = FromHandle(h)
    BY <1>1, <1>2, <1>3 DEF ServePassthrough
  <2> QED BY <2>1, TrackTypes, StreamAssumption
          DEF OpenStreams, Handle, Bytes, FromHandle, Whole200, Unchanged
<1>4. CASE ask.is = "range"
  <2>1. PICK h \in OpenStreamRange(ask.start, ask.end) : r = FromHandle(h)
    BY <1>1, <1>2, <1>4 DEF ServePassthrough
  <2>2. r.status = IF h.range = None THEN 200 ELSE 206
    BY <2>1 DEF FromHandle
  <2> QED BY <1>4, <2>1, <2>2, HandleFacts
<1> QED BY <1>3, <1>4 DEF AskTypes

-----------------------------------------------------------------------------
(* The invariant *)

LEMMA PendingTypes ==
  ASSUME Prefix, Pending
  PROVE  AskTypes
<1>1. CASE have = <<>>
  <2>1. CASE ask = Whole
    BY <2>1 DEF Whole, AskTypes
  <2>2. CASE \E s \in Starts, e \in Ends \cup {None} : ask = Part(s, e)
    <3>1. PICK s \in Starts, e \in Ends \cup {None} : ask = Part(s, e)
      BY <2>2
    <3>2. ask.start = s /\ ask.end = e /\ ask.is = "range"
      BY <3>1 DEF Part
    <3> QED BY <3>2, StreamAssumption DEF AskTypes
  <2> QED BY <1>1, <2>1, <2>2 DEF Pending, Asks
<1>2. CASE have # <<>>
  BY <1>2, StreamAssumption DEF Pending, Part, AskTypes, Prefix
<1> QED BY <1>1, <1>2

\* HandleStream depends on the settings and on the request only.
LEMMA StutterHandle ==
  ASSUME UNCHANGED <<setting, ask>>
  PROVE  HandleStream' = HandleStream
BY DEF setting, HandleStream, Served, ServePassthrough, ServeTranscoded,
       OpenStreams, OpenStreamRange, FileRange, SkippingRange, RemoteRanges, FromHandle,
       EstTotal, SeekMs, Output, TranscodeWhole, TranscodePart, Partial,
       SampleCount, Refuse, ChooseFormat

\* The first n bytes of the answer.
Piece(n) == [i \in 1 .. n |-> resp.body.lo + i - 1]

\* They start the track anew or continue it.
Joins(n, got) ==
  /\ resp.status = 200 =>
       /\ got \in Seq(Nat) /\ Len(got) <= track.bytes
       /\ \A i \in 1 .. Len(got) : got[i] = i - 1
       /\ EndsWith(n, resp) /\ Unchanged => Len(got) = track.bytes
  /\ resp.status = 206 /\ resp.range.start = Len(have) =>
       /\ have \o got \in Seq(Nat) /\ Len(have \o got) <= track.bytes
       /\ \A i \in 1 .. Len(have \o got) : (have \o got)[i] = i - 1
       /\ EndsWith(n, resp) /\ resp.range.end + 1 = resp.range.total /\ Unchanged /\ Told
            => Len(have \o got) = track.bytes

\* Reading n bytes of an answer that continues where the client stopped.
LEMMA ReadKeepsPrefix ==
  ASSUME Inv, state = "reading", resp.body.of = "source",
         NEW n \in 0 .. Carried(resp)
  PROVE  Joins(n, Piece(n))
<1>0. /\ Settings /\ Prefix /\ AskTypes
      /\ resp \in HandleStream /\ track.bytes \in Nat
  BY PendingTypes, TrackTypes DEF Inv
<1>1. /\ resp.status = 200 => Whole200(resp)
      /\ resp.status = 206 => Part206(resp)
      /\ resp.body.header = None
  BY <1>0, SourceFacts
<1>2. BodyLength(resp) = resp.body.hi - resp.body.lo
  BY <1>0, <1>1, SourceFacts, StreamAssumption DEF BodyLength, Whole200, Part206
<1>3. ASSUME resp.status = 200
      PROVE  /\ Piece(n) \in Seq(Nat) /\ Len(Piece(n)) <= track.bytes
             /\ \A i \in 1 .. Len(Piece(n)) : Piece(n)[i] = i - 1
             /\ EndsWith(n, resp) /\ Unchanged => Len(Piece(n)) = track.bytes
  <2>1. resp.body.lo = 0 /\ BodyLength(resp) = track.bytes
    BY <1>0, <1>1, <1>2, <1>3 DEF Whole200
  <2>2. n \in Nat /\ n <= track.bytes
    BY <1>0, <1>1, <1>3, <2>1, StreamAssumption DEF Carried, Lesser, Whole200
  <2>3. EndsWith(n, resp) /\ Unchanged => n = track.bytes
    BY <1>0, <1>1, <1>3, <2>1 DEF EndsWith, Whole200
  <2>4. Piece(n) \in Seq(Nat) /\ Len(Piece(n)) = n /\ \A i \in 1 .. n : Piece(n)[i] = i - 1
    BY <2>1, <2>2 DEF Piece
  <2> QED BY <2>2, <2>3, <2>4
<1>4. ASSUME resp.status = 206, resp.range.start = Len(have)
      PROVE  /\ have \o Piece(n) \in Seq(Nat) /\ Len(have \o Piece(n)) <= track.bytes
             /\ \A i \in 1 .. Len(have \o Piece(n)) : (have \o Piece(n))[i] = i - 1
             /\ EndsWith(n, resp) /\ resp.range.end + 1 = resp.range.total /\ Unchanged /\ Told
                  => Len(have \o Piece(n)) = track.bytes
  <2> DEFINE k == Len(have)
  <2>1. Part206(resp) /\ ask.start = k /\ k \in Nat /\ k <= track.bytes
    BY <1>0, <1>1, <1>4 DEF Part206, Prefix
  <2>2. resp.length \in Int /\ resp.length # None
    <3>1. resp.range.end \in Nat /\ resp.length = Span(k, resp.range.end)
      BY <2>1 DEF Part206
    <3>2. Span(k, resp.range.end) \in Int
      BY <2>1, <3>1, SpanInt
    <3> QED BY <3>1, <3>2, StreamAssumption
  <2>3. n \in Nat /\ n <= BodyLength(resp) /\ n <= resp.length
    BY <1>2, <2>1, <2>2 DEF Carried, Lesser, Part206
  <2>4. n > 0 => resp.body.lo = k
    BY <1>2, <2>1, <2>3 DEF Part206
  <2>5. k + n <= track.bytes
    BY <1>0, <1>2, <2>1, <2>3 DEF Part206
  <2>6. EndsWith(n, resp) /\ resp.range.end + 1 = resp.range.total /\ Unchanged /\ Told
          => k + n = track.bytes
    <3> SUFFICES ASSUME n = resp.length, resp.range.end + 1 = track.bytes
                 PROVE  k + n = track.bytes
      BY <2>1, <2>2 DEF EndsWith, Part206
    <3>1. resp.range.end \in Nat /\ resp.length = Span(k, resp.range.end)
      BY <2>1 DEF Part206
    <3>2. k <= resp.range.end + 1 => Span(k, resp.range.end) = resp.range.end + 1 - k
      BY <2>1, <3>1, SpanInt
    <3> HIDE DEF k
    <3> QED BY <1>0, <2>1, <3>1, <3>2
  <2>7. Piece(n) \in Seq(Nat) /\ Len(Piece(n)) = n /\ \A i \in 1 .. n : Piece(n)[i] = k + i - 1
    <3>1. \A i \in 1 .. n : resp.body.lo + i - 1 = k + i - 1 /\ k + i - 1 \in Nat
      <4>1. ASSUME NEW i \in 1 .. n PROVE n > 0 /\ i \in Nat /\ i >= 1
        BY <2>3
      <4>2. k \in Nat
        BY <2>1
      <4> HIDE DEF k
      <4> QED BY <2>4, <4>1, <4>2
    <3>2. Piece(n) = [i \in 1 .. n |-> k + i - 1]
      BY <3>1 DEF Piece
    <3> HIDE DEF k
    <3> QED BY <2>1, <2>3, <3>1, <3>2
  <2>8. /\ have \o Piece(n) \in Seq(Nat) /\ Len(have \o Piece(n)) = k + n
        /\ \A i \in 1 .. k + n : (have \o Piece(n))[i] = i - 1
    <3>1. have \in Seq(Nat) /\ \A i \in 1 .. k : have[i] = i - 1
      BY <1>0 DEF Prefix
    <3>2. /\ have \o Piece(n) \in Seq(Nat) /\ Len(have \o Piece(n)) = k + n
          /\ \A i \in 1 .. k + n :
               (have \o Piece(n))[i] = IF i <= k THEN have[i] ELSE Piece(n)[i - k]
      <4>1. have \in Seq(Nat) /\ Piece(n) \in Seq(Nat)
        BY <2>7, <3>1
      <4>2. /\ have \o Piece(n) \in Seq(Nat)
            /\ Len(have \o Piece(n)) = Len(have) + Len(Piece(n))
            /\ \A i \in 1 .. Len(have) + Len(Piece(n)) : (have \o Piece(n))[i] =
                 IF i <= Len(have) THEN have[i] ELSE Piece(n)[i - Len(have)]
        BY ONLY <4>1, ConcatProperties
      <4> QED BY <2>7, <4>2
    <3>3. \A i \in 1 .. k + n : i > k => i - k \in 1 .. n /\ k + (i - k) - 1 = i - 1
      BY <2>1, <2>3
    <3>4. k \in Nat
      BY <2>1
    <3>5. ASSUME NEW i \in 1 .. k + n PROVE (have \o Piece(n))[i] = i - 1
      <4>1. CASE i <= k
        <5>1. i \in 1 .. k /\ (have \o Piece(n))[i] = have[i]
          BY <2>3, <3>2, <3>4, <4>1
        <5> QED BY <3>1, <5>1
      <4>2. CASE i > k
        <5>1. (have \o Piece(n))[i] = Piece(n)[i - k]
          BY <2>3, <3>2, <3>4, <4>2
        <5>2. Piece(n)[i - k] = k + (i - k) - 1
          BY <2>7, <3>3, <4>2
        <5> QED BY <3>3, <4>2, <5>1, <5>2
      <4>3. i <= k \/ i > k
        BY <2>3, <3>4
      <4> QED BY <4>1, <4>2, <4>3
    <3> QED BY <3>2, <3>5
  <2> QED BY <2>5, <2>6, <2>8
<1> QED BY <1>3, <1>4 DEF Joins

LEMMA InitInv == Init => Inv
BY TrackTypes, StreamAssumption DEF Init, Inv, Settings, Prefix

LEMMA NextInv == Inv /\ [Next]_vars => Inv'
<1> SUFFICES ASSUME Inv, [Next]_vars PROVE Inv'
  OBVIOUS
<1>0. UNCHANGED setting => Settings' /\ (Unchanged' <=> Unchanged) /\ (Told' <=> Told)
  BY DEF Inv, Settings, setting, Unchanged, Told
<1>1. CASE Request
  <2>1. ask' \in IF have' = <<>> THEN Asks ELSE {Part(Len(have'), None)}
    BY <1>1 DEF Request
  <2> QED BY <1>0, <1>1, <2>1 DEF Request, Inv, Prefix, Pending, setting, Asks
<1>2. CASE Respond
  <2>1. UNCHANGED <<setting, ask>> /\ HandleStream' = HandleStream
    BY <1>2, StutterHandle DEF Respond
  <2>2. AskTypes'
    BY <2>1, <1>2, PendingTypes DEF Inv, Respond, AskTypes
  <2> QED BY <1>0, <1>2, <2>1, <2>2 DEF Respond, Inv, Prefix, Pending, setting
<1>3. CASE Read
  <2>1. PICK n \in 0 .. Carried(resp) :
          LET piece == [i \in 1 .. n |-> resp.body.lo + i - 1]
          IN  \/ /\ resp.status = 200
                 /\ have' = piece
                 /\ state' = IF EndsWith(n, resp) THEN "done" ELSE "idle"
              \/ /\ resp.status = 206 /\ resp.range.start = Len(have)
                 /\ have' = have \o piece
                 /\ state' = IF EndsWith(n, resp) /\ resp.range.end + 1 = resp.range.total
                             THEN "done" ELSE "idle"
              \/ /\ resp.status = 206 /\ resp.range.start # Len(have)
                 /\ state' = "idle"
                 /\ UNCHANGED have
    BY <1>3 DEF Read
  <2>2. state = "reading" /\ resp.body.of = "source" /\ resp' = None /\ UNCHANGED setting
    BY <1>3 DEF Read
  <2>3. Joins(n, Piece(n))
    BY <2>2, ReadKeepsPrefix
  <2>4. \/ /\ resp.status = 200 /\ have' = Piece(n)
           /\ state' = IF EndsWith(n, resp) THEN "done" ELSE "idle"
        \/ /\ resp.status = 206 /\ resp.range.start = Len(have)
           /\ have' = have \o Piece(n)
           /\ state' = IF EndsWith(n, resp) /\ resp.range.end + 1 = resp.range.total
                       THEN "done" ELSE "idle"
        \/ state' = "idle" /\ have' = have
    BY <2>1 DEF Piece
  <2>5. track' = track
    BY <2>2 DEF setting
  <2>6. Prefix' /\ state' \in {"idle", "done"}
        /\ (state' = "done" /\ Unchanged /\ Told => Len(have') = track.bytes)
    <3>1. Prefix
      BY DEF Inv
    <3>2. CASE resp.status = 200 /\ have' = Piece(n)
               /\ state' = IF EndsWith(n, resp) THEN "done" ELSE "idle"
      BY <2>3, <2>5, <3>2 DEF Prefix, Joins
    <3>3. CASE resp.status = 206 /\ resp.range.start = Len(have) /\ have' = have \o Piece(n)
               /\ state' = IF EndsWith(n, resp) /\ resp.range.end + 1 = resp.range.total
                           THEN "done" ELSE "idle"
      BY <2>3, <2>5, <3>3 DEF Prefix, Joins
    <3>4. CASE state' = "idle" /\ have' = have
      BY <2>5, <3>1, <3>4 DEF Prefix
    <3> QED BY <2>4, <3>2, <3>3, <3>4
  <2> QED BY <1>0, <2>2, <2>6, <2>5 DEF Inv
<1>4. CASE Play
  <2>1. HandleStream' = HandleStream
    BY <1>4, StutterHandle DEF Play
  <2>2. UNCHANGED <<track, have, ask, resp>> /\ UNCHANGED setting /\ state' = "done"
    BY <1>4 DEF Play, setting
  <2>3. Served.kind # "passthrough" /\ Served' = Served
    BY ZenonT(60), <1>4, <2>2, PassthroughIsSource DEF Play, Inv, Served, ChooseFormat, setting
  <2> QED BY <1>0, <2>1, <2>2, <2>3 DEF Inv, Prefix, AskTypes
<1>5. CASE UNCHANGED vars
  <2>1. HandleStream' = HandleStream
    BY <1>5, StutterHandle DEF vars
  <2>2. UNCHANGED setting /\ Served' = Served /\ track' = track
    BY <1>5 DEF vars, setting, Served, ChooseFormat
  <2>3. UNCHANGED <<ask, resp, have, state>>
    BY <1>5 DEF vars
  <2> QED BY <1>0, <2>1, <2>2, <2>3 DEF Inv, Prefix, Pending, AskTypes
<1> QED BY <1>1, <1>2, <1>3, <1>4, <1>5 DEF Next

\* The strengthening holds in every reachable state.
THEOREM Invariance == Spec => []Inv
BY InitInv, NextInv, PTL DEF Spec

-----------------------------------------------------------------------------
(* The properties *)

\* Whatever breaks and whatever the server behind understands of ranges, a
\* client's pieces are the track's bytes (serve_passthrough, open_stream_range).
THEOREM PiecesAlwaysJoin == Spec => []PiecesJoin
<1>1. Inv => PiecesJoin
  BY DEF Inv, Prefix, PiecesJoin
<1> QED BY <1>1, Invariance, PTL

LEMMA AiffAnswers ==
  ASSUME Settings, Served = ClassicAiff, NEW r \in HandleStream, r.status = 206
  PROVE  /\ ask.is = "range"
         /\ r.body.lo = FirstSample(AiffSeek(ask.start))
<1>1. r \in ServeTranscoded(ClassicAiff)
  BY DEF HandleStream, ClassicAiff
<1>2. \A code \in {404, 413, 500, 502} : Refuse(code).status # 206
  BY DEF Refuse
<1>3. TranscodeWhole(ClassicAiff).status = 200
  BY DEF TranscodeWhole
<1>4. Partial(ClassicAiff) /\ r = TranscodePart(ClassicAiff, SeekMs(ClassicAiff, ask.start))
  BY <1>1, <1>2, <1>3 DEF ServeTranscoded
<1>5. SeekMs(ClassicAiff, ask.start) = AiffSeek(ask.start)
  BY DEF SeekMs, ClassicAiff, Mp3, Alac
<1> QED BY <1>4, <1>5 DEF Partial, TranscodePart, Output

\* For every byte a client can ask for, the AIFF continues at or just before
\* it (classic_aiff_byte_to_time_ms, serve_transcoded).
THEOREM SeekNeverSkipsEver == Spec => []SeekNeverSkips
<1>1. Inv => SeekNeverSkips
  <2> SUFFICES ASSUME Inv, Answered, resp.status = 206, Served = ClassicAiff,
                      ask.start >= HeaderBytes, resp \in HandleStream
               PROVE  /\ resp.body.lo <= ask.start - HeaderBytes
                      /\ (ask.start - HeaderBytes - resp.body.lo) * 1000 < SampleRate + 1000
    BY DEF Inv, SeekNeverSkips, Answered
  <2>1. resp.body.lo = FirstSample(AiffSeek(ask.start)) /\ ask.is = "range"
    BY AiffAnswers DEF Inv
  <2>2. ask.start \in Nat
    BY <2>1 DEF Inv, AskTypes, Answered
  <2> QED BY <2>1, <2>2, SeekArithmetic
<1> QED BY <1>1, Invariance, PTL

\* /items and the stream handler decide alike (handle_items, handle_stream).
THEOREM ListedAsServed == Spec => []ListedIsServed
<1>1. Inv => ListedIsServed
  <2> SUFFICES ASSUME Inv, Answered, ~client.aiff, resp \in HandleStream
               PROVE  resp.content = Listed
    BY DEF Inv, ListedIsServed, Answered
  <2>1. Served.format = Listed
    BY TrackTypes DEF Inv, Served, Listed, Passthrough
  <2>2. Served.kind = "passthrough" => Served.format = track.format
    <3>1. Served \in {ClassicAiff, Passthrough(track.format)} \/ Served = ChooseFormat(track.format, client.modern)
      BY DEF Served
    <3>2. ChooseFormat(track.format, client.modern) \in {Passthrough(track.format), Mp3, Alac}
      BY TrackTypes DEF Inv, ChooseFormat, Formats
    <3> QED BY <3>1, <3>2 DEF Passthrough, Mp3, Alac, ClassicAiff
  <2>3. resp.content = Served.format
    <3>1. \A code : code \notin {200, 206} => Refuse(code).status \notin {200, 206}
      BY DEF Refuse
    <3>2. \A h : FromHandle(h).content = track.format
      BY DEF FromHandle
    <3>3. TranscodeWhole(Served).content = Served.format
      BY DEF TranscodeWhole
    <3>4. \A ms : TranscodePart(Served, ms).content = Served.format
      BY DEF TranscodePart
    <3>5. resp.status \in {200, 206}
      BY DEF Answered
    <3>6. CASE Served.kind = "passthrough"
      BY <2>2, <3>1, <3>2, <3>5, <3>6 DEF ServePassthrough, HandleStream
    <3>7. CASE Served.kind # "passthrough"
      BY <3>1, <3>3, <3>4, <3>5, <3>7 DEF ServeTranscoded, HandleStream
    <3> QED BY <3>6, <3>7
  <2> QED BY <2>1, <2>3
<1> QED BY <1>1, Invariance, PTL

-----------------------------------------------------------------------------
(* What the answers promise *)

LEMMA TotalType ==
  ASSUME Settings, NEW f \in {ClassicAiff, Mp3, Alac}
  PROVE  EstTotal(f) \in Nat \cup {None}
<1>1. CASE f = ClassicAiff
  <2>1. SampleCount(track) \in Nat \cup {None}
    BY TrackTypes, StreamAssumption
       DEF SampleCount, SamplesOfMicros, SamplesOfMs, SampleRate
  <2> QED BY <1>1, <2>1, StreamAssumption
          DEF EstTotal, AiffSize, HeaderBytes, ClassicAiff, Mp3, Alac
<1>2. CASE f = Mp3
  BY <1>2, TrackTypes, StreamAssumption DEF EstTotal, EstimateMp3, ClassicAiff, Mp3, Alac
<1>3. CASE f = Alac
  BY <1>3, TrackTypes DEF EstTotal, ClassicAiff, Mp3, Alac
<1> QED BY <1>1, <1>2, <1>3

\* What is not handed through is in one of the three formats ffmpeg makes.
LEMMA TranscodedFormats ==
  ASSUME Settings, Served.kind # "passthrough"
  PROVE  Served \in {ClassicAiff, Mp3, Alac}
BY TrackTypes DEF Served, ChooseFormat, Passthrough, Formats

\* The answer with audio that ffmpeg gives is the whole or a part.
LEMMA TranscodedAnswers ==
  ASSUME Settings, Served.kind # "passthrough",
         NEW r \in HandleStream, r.status \in {200, 206}
  PROVE  /\ r.status = 200 => r = TranscodeWhole(Served)
         /\ r.status = 206 => /\ Partial(Served)
                              /\ r = TranscodePart(Served, SeekMs(Served, ask.start))
<1>1. r \in ServeTranscoded(Served)
  BY DEF HandleStream
<1>2. \A code \in {404, 413, 500, 502} : Refuse(code).status \notin {200, 206}
  BY DEF Refuse
<1>3. /\ TranscodeWhole(Served).status = 200
      /\ \A ms : TranscodePart(Served, ms).status = 206
  BY DEF TranscodeWhole, TranscodePart
<1> QED BY <1>1, <1>2, <1>3 DEF ServeTranscoded

\* The range of a transcoded part, and its length.
LEMMA PartOfTranscode ==
  ASSUME Settings, AskTypes, Served.kind # "passthrough", WellFormed(ask),
         NEW r \in HandleStream, r.status = 206
  PROVE  /\ ask.is = "range" /\ r.range.start = ask.start
         /\ EstTotal(Served) \in Nat /\ r.range.total = EstTotal(Served)
         /\ r.range.end \in Nat /\ ask.start <= r.range.end
         /\ r.range.end < EstTotal(Served)
         /\ ask.end # None => r.range.end <= ask.end
         /\ r.length = r.range.end - ask.start + 1
         /\ r.body = Output(Served, SeekMs(Served, ask.start))
<1> DEFINE total == EstTotal(Served)
           last == IF ask.end = None THEN total - 1 ELSE Lesser(ask.end, total - 1)
<1>1. Partial(Served) /\ r = TranscodePart(Served, SeekMs(Served, ask.start))
  BY TranscodedAnswers
<1>2. /\ ask.is = "range" /\ total \in Nat /\ ask.start < total
      /\ ask.start \in Nat /\ ask.end \in Nat \cup {None}
  BY <1>1, TranscodedFormats, TotalType DEF Partial, AskTypes
<1>3. /\ last \in Nat /\ ask.start <= last /\ last < total
      /\ ask.end # None => last <= ask.end
  BY <1>2 DEF Lesser, WellFormed
<1>5. /\ r.range.start = ask.start /\ r.range.end = last /\ r.range.total = total
      /\ r.length = Span(ask.start, last)
      /\ r.body = Output(Served, SeekMs(Served, ask.start))
  BY <1>1 DEF TranscodePart
<1> HIDE DEF last, total
<1>4. Span(ask.start, last) = last + 1 - ask.start
  BY <1>2, <1>3, SpanInt
<1>6. last + 1 - ask.start = last - ask.start + 1
  BY <1>2, <1>3
<1> QED BY <1>2, <1>3, <1>4, <1>5, <1>6 DEF total

LEMMA PassthroughFits ==
  ASSUME DefaultFits, ask.is = "range", Served.kind = "passthrough"
  PROVE  Fits
BY DEF DefaultFits, Fits

\* Whatever is asked of whichever backend and encoder, a 206 tells where its
\* bytes are from (serve_passthrough, serve_transcoded, open_stream_range).
THEOREM RangesAreHonest == Spec => []RangeIsHonest
<1>1. Inv => RangeIsHonest
  <2> SUFFICES ASSUME Inv, resp # None, resp.status = 206, WellFormed(ask), DefaultFits
               PROVE  /\ ask.is = "range" /\ resp.range.start = ask.start
                      /\ ask.start <= resp.range.end
                      /\ (Told => resp.range.end < resp.range.total)
                      /\ ask.end # None => resp.range.end <= ask.end
                      /\ resp.length = resp.range.end - resp.range.start + 1
    BY DEF RangeIsHonest, Answered
  <2>0. Settings /\ AskTypes /\ resp \in HandleStream
    BY DEF Inv
  <2>1. CASE Served.kind = "passthrough"
    <3>1. resp.body.of = "source"
      BY <2>0, <2>1, ServedFromSource
    <3>2. Part206(resp)
      BY <2>0, <3>1, SourceFacts
    <3>3. ask.is = "range" /\ Fits
      BY <2>1, <3>2, PassthroughFits DEF Part206
    <3>4. /\ ask.start \in Nat /\ resp.range.end \in Nat /\ ask.start <= resp.range.end
          /\ (Told => resp.range.end < resp.range.total)
      BY <2>0, <3>2, <3>3 DEF Part206, Proper, AskTypes
    <3>5. resp.length = resp.range.end + 1 - ask.start
      BY <3>2, <3>4, SpanInt DEF Part206
    <3>6. resp.range.end + 1 - ask.start = resp.range.end - ask.start + 1
      BY <3>4
    <3> QED BY <3>2, <3>3, <3>4, <3>5, <3>6 DEF Part206
  <2>2. CASE Served.kind # "passthrough"
    BY <2>0, <2>2, PartOfTranscode
  <2> QED BY <2>1, <2>2
<1> QED BY <1>1, Invariance, PTL

\* An AIFF whose probe was right: as many samples as its header says, and
\* from any place as many as the range counts.
LEMMA AiffPromise ==
  ASSUME Settings, AskTypes, Served = ClassicAiff, SampleCount(track) = track.produces,
         WellFormed(ask), NEW r \in HandleStream, r.status \in {200, 206}
  PROVE  /\ (r.length # None /\ ~(r.status = 206 /\ ask.start < HeaderBytes))
              => BodyLength(r) >= r.length
         /\ r.body.header # None => r.body.header = r.body.hi
<1> USE StreamAssumption
<1>0. /\ Served.kind # "passthrough" /\ track.produces \in Nat
      /\ EstTotal(Served) = HeaderBytes + track.produces
  BY TrackTypes DEF ClassicAiff, EstTotal, AiffSize, Mp3, Alac
<1>1. CASE r.status = 200
  <2>1. r = TranscodeWhole(ClassicAiff)
    BY <1>0, <1>1, TranscodedAnswers
  <2>2. /\ r.length = HeaderBytes + track.produces
        /\ r.body = [Output(ClassicAiff, 0) EXCEPT !.header = track.produces]
    BY <1>0, <2>1 DEF TranscodeWhole
  <2>3. FirstSample(0) = 0
    BY DEF FirstSample, SampleRate
  <2>4. /\ r.body.lo = 0 /\ r.body.hi = track.produces
        /\ r.body.header = track.produces
    BY <1>0, <2>2, <2>3 DEF Output
  <2> QED BY <1>0, <1>1, <2>2, <2>4 DEF BodyLength, HeaderBytes
<1>2. CASE r.status = 206
  <2>1. /\ ask.is = "range" /\ ask.start \in Nat
        /\ r.range.end \in Nat /\ ask.start <= r.range.end
        /\ r.range.end < HeaderBytes + track.produces
        /\ r.length = r.range.end - ask.start + 1
        /\ r.body = Output(ClassicAiff, SeekMs(Served, ask.start))
    BY <1>0, <1>2, PartOfTranscode DEF AskTypes
  <2>2. SeekMs(Served, ask.start) = AiffSeek(ask.start)
    BY DEF SeekMs, ClassicAiff, Mp3, Alac
  <2> DEFINE lo == FirstSample(AiffSeek(ask.start))
  <2>3. /\ r.body.lo = lo /\ r.body.header = None
        /\ r.body.hi = IF lo > track.produces THEN lo ELSE track.produces
    BY <2>1, <2>2 DEF Output
  <2>4. SUFFICES ASSUME ask.start >= HeaderBytes
                 PROVE  BodyLength(r) >= r.length
    BY <1>2, <2>1, <2>3 DEF HeaderBytes
  <2>5. lo \in Nat /\ lo <= ask.start - HeaderBytes
    BY <2>1, <2>4, SeekArithmetic
  <2> HIDE DEF lo
  <2>6. BodyLength(r) = r.body.hi - lo
    BY <1>0, <2>3, <2>5 DEF BodyLength
  <2> QED BY <1>0, <2>1, <2>3, <2>4, <2>5, <2>6 DEF HeaderBytes
<1> QED BY <1>1, <1>2

\* An answer of the other two encoders has a length only as a part.
LEMMA EncodedPromise ==
  ASSUME Settings, Served \in {Mp3, Alac}, NEW r \in HandleStream, r.status \in {200, 206}
  PROVE  (r.length = None \/ r.status = 206) /\ r.body.header = None
<1>1. Served.kind # "passthrough" /\ Served # ClassicAiff
  BY DEF Mp3, Alac, ClassicAiff
<1>2. \A ms : Output(Served, ms).header = None
  BY <1>1 DEF Output
<1> QED BY <1>1, <1>2, TranscodedAnswers DEF TranscodeWhole, TranscodePart

\* A Content-Length is never more than the body that follows it: nobody waits
\* for bytes that do not come (serve_passthrough, serve_transcoded).
THEOREM PromisesAreKept == Spec => []PromiseIsKept
<1>1. Inv => PromiseIsKept
  <2> SUFFICES ASSUME Inv, Answered, WellFormed(ask), DefaultFits, Unchanged, Probed
               PROVE  /\ (resp.length # None /\ ~Estimated) => BodyLength(resp) >= resp.length
                      /\ (resp.body.header # None) => resp.body.header = resp.body.hi
    BY DEF PromiseIsKept
  <2>0. /\ Settings /\ AskTypes /\ resp \in HandleStream
        /\ resp.status \in {200, 206} /\ track.bytes \in Nat
    BY TrackTypes DEF Inv, Answered
  <2>1. CASE Served.kind = "passthrough"
    <3>1. resp.body.of = "source"
      BY <2>0, <2>1, ServedFromSource
    <3>2. /\ resp.status = 200 => Whole200(resp)
          /\ resp.status = 206 => Part206(resp)
          /\ resp.body.header = None
      BY <2>0, <3>1, SourceFacts
    <3>3. CASE resp.status = 200
      <4>1. BodyLength(resp) = track.bytes
        BY <2>0, <3>2, <3>3 DEF BodyLength, Whole200
      <4> QED BY <2>0, <3>2, <3>3, <4>1 DEF Whole200
    <3>4. CASE resp.status = 206
      <4>1. /\ ask.is = "range" /\ ask.start \in Nat /\ resp.range.end \in Nat
            /\ ask.start <= resp.range.end
            /\ resp.body.lo = ask.start /\ resp.body.hi = resp.range.end + 1
        BY <2>0, <2>1, <3>2, <3>4, PassthroughFits DEF Part206, Proper, AskTypes
      <4>2. resp.length = resp.range.end + 1 - ask.start
        <5>1. resp.length = Span(ask.start, resp.range.end)
          BY <3>2, <3>4 DEF Part206
        <5>2. ask.start <= resp.range.end + 1
          BY <4>1
        <5> QED BY <4>1, <5>1, <5>2, SpanInt
      <4> QED BY <3>2, <4>1, <4>2 DEF BodyLength
    <3> QED BY <2>0, <3>3, <3>4
  <2>2. CASE Served = ClassicAiff
    BY <2>0, <2>2, AiffPromise DEF Probed, Estimated
  <2>3. CASE Served \in {Mp3, Alac}
    BY <2>0, <2>3, EncodedPromise DEF Estimated
  <2> QED BY <2>0, <2>1, <2>2, <2>3, TranscodedFormats
<1> QED BY <1>1, Invariance, PTL

=============================================================================
