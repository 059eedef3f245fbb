------------------------------ MODULE Artwork ------------------------------
(***************************************************************************)
(* Album art: handle_artwork (http.rs) with its validation, and Artworker  *)
(* (artwork.rs) with its cache of encoded images.  Requests run side by    *)
(* side: between the answer of the media source, the look-up, the encoding *)
(* and the store others come in, and the artwork of a track may be         *)
(* replaced on disk at any time.                                           *)
(***************************************************************************)
EXTENDS Pict

CONSTANTS
  None,
  Albums,      \* [art, asks]: of each track its artwork, now and as it is
               \* replaced, and of each client the requests it makes
  CacheSize,   \* Config.cache_size
  MaxBox,      \* 1024: the largest mw and mh
  MaxJpegDim   \* 65535, scaled down: the longest side a JPEG can have

\* Artwork is an image [is, w, h, px], "broken" (bytes that do not decode) or
\* "absent".  A request is [track, mw, mh, depth, mode, accept].
ASSUME ArtworkAssumption ==
  /\ CacheSize \in Nat /\ MaxBox \in Nat \ {0} /\ MaxJpegDim \in Nat
  /\ None \notin {"jpeg", "pict", "original", "gray", "color"}
  /\ \A a \in Albums : \A c \in DOMAIN a.asks : \A q \in a.asks[c] : q.track \in DOMAIN a.art
  /\ \A a \in Albums : \A t \in DOMAIN a.art :
       /\ Len(a.art[t]) \in Nat \ {0}
       /\ \A i \in 1 .. Len(a.art[t]) :
            /\ a.art[t][i].is \in {"image", "broken", "absent"}
            /\ a.art[t][i].is = "image" => {a.art[t][i].w, a.art[t][i].h} \subseteq Nat \ {0}

\* The pixels of an image, row by row, are shades of eight bits.
ASSUME ImagesAssumption ==
  \A a \in Albums : \A t \in DOMAIN a.art : \A i \in 1 .. Len(a.art[t]) :
    a.art[t][i].is = "image" =>
      a.art[t][i].px \in [1 .. a.art[t][i].h -> [1 .. a.art[t][i].w -> 0 .. 255]]

VARIABLES
  album,       \* fixed
  at,          \* of each track, which of its artworks is there now
  cache,       \* LruCache: [key, file], the latest used first
  job          \* of each client: [stage, q, raw, answer]

vars == <<album, at, cache, job>>

Idle == [stage |-> "idle", q |-> None, raw |-> None, answer |-> None]

Clients == DOMAIN album.asks

Init ==
  /\ album \in Albums
  /\ at = [t \in DOMAIN album.art |-> 1]
  /\ cache = <<>>
  /\ job = [c \in Clients |-> Idle]

-----------------------------------------------------------------------------
(* Which picture is asked for *)

Jpeg == [kind |-> "jpeg", depth |-> None, mode |-> None]
PictOf(depth, mode) == [kind |-> "pict", depth |-> depth, mode |-> mode]

\* Fault: a mode beside a depth that has none is let through.
RejectedLeniently(q) ==
  \/ q.mw # None /\ q.mw \notin 1 .. MaxBox
  \/ q.mh # None /\ q.mh \notin 1 .. MaxBox
  \/ q.depth # None /\ q.depth \notin {1, 2, 4, 8, 24}
  \/ q.depth \in {2, 4, 8} /\ q.mode \notin {"gray", "color"}
  \/ q.depth = None /\ q.mode \notin {None, "gray", "color"}

\* The early returns of handle_artwork, all 400.
Rejected(q) ==
  \/ q.mw # None /\ q.mw \notin 1 .. MaxBox
  \/ q.mh # None /\ q.mh \notin 1 .. MaxBox
  \/ q.depth # None /\ q.depth \notin {1, 2, 4, 8, 24}
  \/ q.depth \in {1, 24} /\ q.mode # None
  \/ q.depth \in {2, 4, 8} /\ q.mode \notin {"gray", "color"}
  \/ q.depth = None /\ q.mode \notin {None, "gray", "color"}

VariantFromAccept(accept) ==
  CASE accept = "pict1" -> PictOf(1, None)
    [] accept = "pict"  -> PictOf(8, "color")
    [] OTHER            -> Jpeg

\* A mode without a depth is validated and then not used.
VariantOf(q) ==
  IF q.depth # None THEN PictOf(q.depth, q.mode) ELSE VariantFromAccept(q.accept)

\* Fault: the mode is left out.
KeyWithoutMode(q) ==
  [track |-> q.track, w |-> q.mw, h |-> q.mh, variant |-> [VariantOf(q) EXCEPT !.mode = None]]

\* CacheKey
KeyOf(q) == [track |-> q.track, w |-> q.mw, h |-> q.mh, variant |-> VariantOf(q)]

-----------------------------------------------------------------------------
(* Resizing and encoding *)

\* Fault: a thin image may lose its last pixel.
ScaleToNothing(a, b, c) == (2 * a * b + c) \div (2 * c)

\* a * b / c, rounded to the nearest, at least one pixel.
Scale(a, b, c) == Max({1, (2 * a * b + c) \div (2 * c)})

\* Fault: a small image is not left alone.
FitsUnasked(img, mw, mh) == mw = None /\ mh = None

Fits(img, mw, mh) == (mw = None \/ img.w <= mw) /\ (mh = None \/ img.h <= mh)

\* fit_within: the smaller of the ratios decides; None is u32::MAX.
FitWithin(img, mw, mh) ==
  IF Fits(img, mw, mh) THEN [w |-> img.w, h |-> img.h]
  ELSE IF mw # None /\ (mh = None \/ mw * img.h <= mh * img.w)
       THEN [w |-> mw, h |-> Scale(img.h, mw, img.w)]
       ELSE [w |-> Scale(img.w, mh, img.h), h |-> mh]

\* The filter is abstracted to taking the pixel at the place.
Resize(img, to) ==
  [w |-> to.w, h |-> to.h,
   px |-> [y \in 1 .. to.h |-> [x \in 1 .. to.w |->
             img.px[((y - 1) * img.h) \div to.h + 1][((x - 1) * img.w) \div to.w + 1]]]]

EncodeJpeg(img) == [op |-> "jpeg", w |-> img.w, h |-> img.h, px |-> img.px]

\* Where encode_pict returns no error: its last arm is for depths without a
\* palette for the mode.
PictEncodes(img, v) ==
  /\ ValidDims(img)
  /\ v.depth \in {1, 8, 24} \/ (v.depth \in {2, 4} /\ v.mode \in {"gray", "color"})

JpegEncodes(img) == img.w <= MaxJpegDim /\ img.h <= MaxJpegDim

EncodePict(img, v) ==
  CASE v.depth = 1  -> EncodeBitmap(img)
    [] v.depth = 24 -> EncodeDirect(img)
    [] OTHER        -> EncodePackBits(img, v.depth, v.mode)

\* decode_and_resize
Resized(art, q) == Resize(art, FitWithin(art, q.mw, q.mh))

\* An image that is decoded, in a size the encoder takes.
Encodes(art, q) ==
  /\ art.is = "image"
  /\ IF VariantOf(q).kind = "jpeg" THEN JpegEncodes(Resized(art, q))
     ELSE PictEncodes(Resized(art, q), VariantOf(q))

Encode(art, q) ==
  IF VariantOf(q).kind = "jpeg" THEN EncodeJpeg(Resized(art, q))
  ELSE EncodePict(Resized(art, q), VariantOf(q))

-----------------------------------------------------------------------------
(* Requests *)

Cached(key) == {i \in 1 .. Len(cache) : cache[i].key = key}
Without(i) == SubSeq(cache, 1, i - 1) \o SubSeq(cache, i + 1, Len(cache))
Entry(key, file) == [key |-> key, file |-> file]

\* An entry in front of those with other keys.
Fresh(key, file) ==
  <<Entry(key, file)>> \o
    (IF Cached(key) = {} THEN cache ELSE Without(CHOOSE i \in Cached(key) : TRUE))

\* Artworker::new keeps room for one at least.
Capacity == IF CacheSize = 0 THEN 1 ELSE CacheSize

\* LruCache::put
Put(key, file) ==
  IF Len(Fresh(key, file)) > Capacity THEN SubSeq(Fresh(key, file), 1, Capacity)
  ELSE Fresh(key, file)

Answer(status, type, file) == [status |-> status, type |-> type, file |-> file]

Reply(c, answer) == job' = [job EXCEPT ![c].stage = "answered", ![c].answer = answer]

ArtOf(c) == album.art[job[c].q.track][job[c].raw]

Ask(c) ==
  /\ job[c].stage \in {"idle", "answered"}
  /\ \E q \in album.asks[c] : job' = [job EXCEPT ![c] = [Idle EXCEPT !.stage = "asked", !.q = q]]
  /\ UNCHANGED <<album, at, cache>>

Refuse(c) ==
  /\ job[c].stage = "asked" /\ Rejected(job[c].q)
  /\ Reply(c, Answer(400, None, None))
  /\ UNCHANGED <<album, at, cache>>

\* The source has no artwork, or fails.
FetchNothing(c) ==
  /\ job[c].stage = "asked" /\ ~Rejected(job[c].q)
  /\ Reply(c, Answer(404, None, None))
  /\ UNCHANGED <<album, at, cache>>

Fetch(c) ==
  LET t == job[c].q.track
  IN  /\ job[c].stage = "asked" /\ ~Rejected(job[c].q)
      /\ album.art[t][at[t]].is # "absent"
      /\ job' = [job EXCEPT ![c].stage = "fetched", ![c].raw = at[t]]
      /\ UNCHANGED <<album, at, cache>>

\* prepare: the source was read, but a hit does not look at it.
Hit(c) ==
  LET q == job[c].q
  IN  /\ job[c].stage = "fetched"
      /\ \E i \in Cached(KeyOf(q)) :
           /\ Reply(c, Answer(200, VariantOf(q).kind, cache[i].file))
           /\ cache' = <<cache[i]>> \o Without(i)
      /\ UNCHANGED <<album, at>>

Miss(c) ==
  /\ job[c].stage = "fetched" /\ Cached(KeyOf(job[c].q)) = {}
  /\ job' = [job EXCEPT ![c].stage = "missed"]
  /\ UNCHANGED <<album, at, cache>>

Store(c) ==
  LET q == job[c].q
      file == Encode(ArtOf(c), q)
  IN  /\ job[c].stage = "missed" /\ Encodes(ArtOf(c), q)
      /\ cache' = Put(KeyOf(q), file)
      /\ Reply(c, Answer(200, VariantOf(q).kind, file))
      /\ UNCHANGED <<album, at>>

\* Prepared::Original, which is not cached.
FallBack(c) ==
  /\ job[c].stage = "missed" /\ ~Encodes(ArtOf(c), job[c].q)
  /\ Reply(c, Answer(200, "original", ArtOf(c)))
  /\ UNCHANGED <<album, at, cache>>

\* Somebody replaces the file or the image on the server.
Replace(t) ==
  /\ at[t] < Len(album.art[t])
  /\ at' = [at EXCEPT ![t] = @ + 1]
  /\ UNCHANGED <<album, cache, job>>

Next ==
  \/ \E c \in Clients : Ask(c) \/ Refuse(c) \/ FetchNothing(c) \/ Fetch(c)
                          \/ Hit(c) \/ Miss(c) \/ Store(c) \/ FallBack(c)
  \/ \E t \in DOMAIN album.art : Replace(t)

Spec == Init /\ [][Next]_vars

-----------------------------------------------------------------------------
\* Every variable keeps its type.
TypeOK ==
  /\ \A t \in DOMAIN at : at[t] \in 1 .. Len(album.art[t])
  /\ \A i \in 1 .. Len(cache) : cache[i].key.variant.kind \in {"jpeg", "pict"}
  /\ \A c \in Clients : job[c].stage \in {"idle", "asked", "fetched", "missed", "answered"}

\* Requests answered with a picture, and the artworks a track has had.
Pictured == {c \in Clients : job[c].answer # None /\ job[c].answer.type \in {"jpeg", "pict"}}
Versions(t) == {album.art[t][i] : i \in 1 .. at[t]}

\* Whatever else is encoded, stored or evicted meanwhile, the answer is the
\* picture that was asked for: of this track as it is or once was, in this
\* size, depth and mode (CacheKey, prepare).
AnswerIsForItsRequest ==
  \A c \in Pictured :
    LET q == job[c].q
    IN  /\ job[c].answer.type = VariantOf(q).kind
        /\ \E art \in Versions(q.track) :
             Encodes(art, q) /\ job[c].answer.file = Encode(art, q)

\* The original goes out only where it cannot be decoded or has a side that is
\* too long for the format: a request in range never makes an encoder fail
\* (prepare).
OriginalOnlyIfHopeless ==
  \A c \in Clients :
    (job[c].answer # None /\ job[c].answer.type = "original") =>
      LET longest == IF VariantOf(job[c].q).kind = "pict" THEN MaxDim ELSE MaxJpegDim
      IN  \/ ArtOf(c).is = "broken"
          \/ ArtOf(c).w > longest \/ ArtOf(c).h > longest

\* A Mac that reads the PICT sees the image: the rows are where their counts
\* say, they unpack to as many bytes as rowBytes says, and the pixels are in
\* place in them (encode_packbits, encode_bitmap, encode_direct_bits_rect_rgb).
\* Exempt are the two kinds of picture it misreads: those so wide that rowBytes
\* is cut off, and those so narrow that it takes their packed rows for unpacked.
PictShowsTheImage ==
  \A c \in Pictured :
    LET q == job[c].q
        file == job[c].answer.file
    IN  job[c].answer.type = "pict" /\ Representable(file) /\ LongEnough(file) =>
          \E art \in {v \in Versions(q.track) : v.is = "image"} :
            ReadImage(file) = AtDepth(Resized(art, q), file.size)

\* A picture fits the box, is no larger than the artwork, and keeps its
\* proportions to within a pixel (fit_within).
FitsTheBox ==
  \A c \in Pictured :
    LET q == job[c].q
        file == job[c].answer.file
    IN  /\ q.mw # None => file.w <= q.mw
        /\ q.mh # None => file.h <= q.mh
        /\ \E art \in {v \in Versions(q.track) : v.is = "image"} :
             /\ file.w \in 1 .. art.w /\ file.h \in 1 .. art.h
             /\ LET skew == file.w * art.h - file.h * art.w
                IN  Max({skew, -skew}) <= Max({art.w, art.h})

\* One picture has one key: depths 1 and 24 have no mode in it and the others
\* have one, so that the last arm of encode_pict is never reached and no
\* picture is encoded and held twice ("D1 and D24 always use mode=None in the
\* cache key").
KeysAreCanonical ==
  \A i \in 1 .. Len(cache) :
    LET v == cache[i].key.variant
    IN  v.kind = "pict" => (v.depth \in {1, 24} <=> v.mode = None)
=============================================================================
