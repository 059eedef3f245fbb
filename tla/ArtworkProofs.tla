--------------------------- MODULE ArtworkProofs ---------------------------
(***************************************************************************)
(* Proofs about Artwork and Pict, for every set of albums and any number   *)
(* of clients: an answer is the picture that was asked for, a key has one  *)
(* form, every picture fits its box, and a Mac reads back from a PICT the  *)
(* image it was made of, where its rows are neither too wide nor too short.*)
(*                                                                         *)
(* The inductive invariant says of every entry of the cache that it is     *)
(* what Encode makes, for some request with its key, of an artwork the     *)
(* track has had.  That is enough because the key decides the picture      *)
(* (KeyDecides): two requests with one key are encoded alike.              *)
(*                                                                         *)
(* The second half is about Pict alone.  Its recursive functions are       *)
(* related to their equations, and what they compute is shown by induction *)
(* over sets of numbers: PackBits unpacks to the row, rows that are laid   *)
(* end to end are found again, and so are pixels in the bits of a byte.    *)
(***************************************************************************)
EXTENDS Artwork, SequenceTheorems, NaturalsInduction, WellFoundedInduction, TLAPS

Asked == UNION {album.asks[c] : c \in Clients}

Pictures == {Encode(album.art[q.track][i], q) : q \in Asked, i \in Nat}
Entries == [key : {KeyOf(q) : q \in Asked}, file : Pictures]

\* A picture of the track of a request, as it is or once was.
PictureOf(q, file) ==
  \E i \in 1 .. at[q.track] :
    Encodes(album.art[q.track][i], q) /\ file = Encode(album.art[q.track][i], q)

\* An entry is the picture of an accepted request with its key.
Good(e) == \E q \in Asked : ~Rejected(q) /\ e.key = KeyOf(q) /\ PictureOf(q, e.file)

Fields == {"stage", "q", "raw", "answer"}

JobOK(c) ==
  LET j == job[c]
  IN  /\ DOMAIN j = Fields
      /\ j.stage \in {"idle", "asked", "fetched", "missed", "answered"}
      /\ j.stage # "idle" => j.q \in album.asks[c]
      /\ j.stage \in {"fetched", "missed"} =>
           /\ j.raw \in 1 .. at[j.q.track] /\ ~Rejected(j.q)
           /\ album.art[j.q.track][j.raw].is # "absent"
      /\ j.stage # "answered" => j.answer = None
      /\ j.answer # None /\ j.answer.type \in {"jpeg", "pict"} =>
           /\ j.answer.type = VariantOf(j.q).kind /\ PictureOf(j.q, j.answer.file)
           /\ ~Rejected(j.q)
      /\ j.answer # None /\ j.answer.type = "original" =>
           /\ j.raw \in 1 .. at[j.q.track] /\ ~Rejected(j.q)
           /\ album.art[j.q.track][j.raw].is # "absent"
           /\ ~Encodes(album.art[j.q.track][j.raw], j.q)

Settings ==
  /\ album \in Albums
  /\ at \in [DOMAIN album.art -> Nat \ {0}]
  /\ \A t \in DOMAIN album.art : at[t] <= Len(album.art[t])
  /\ cache \in Seq(Entries)
  /\ DOMAIN job = Clients

Inv ==
  /\ Settings
  /\ \A i \in 1 .. Len(cache) : Good(cache[i])
  /\ \A c \in Clients : JobOK(c)

-----------------------------------------------------------------------------
(* The key and the cache *)

\* Two requests with one key get one picture (CacheKey).
LEMMA KeyDecides ==
  ASSUME NEW q, NEW p, KeyOf(q) = KeyOf(p)
  PROVE  /\ q.track = p.track /\ VariantOf(q) = VariantOf(p)
         /\ \A art : Encode(art, q) = Encode(art, p) /\ (Encodes(art, q) <=> Encodes(art, p))
<1>1. q.track = p.track /\ q.mw = p.mw /\ q.mh = p.mh /\ VariantOf(q) = VariantOf(p)
  BY DEF KeyOf
<1> QED BY <1>1 DEF Encode, Encodes, Resized

\* A prepared picture is never taken for the original.
LEMMA VariantKind ==
  ASSUME NEW q
  PROVE  VariantOf(q).kind \in {"jpeg", "pict"}
BY DEF VariantOf, VariantFromAccept, PictOf, Jpeg

\* Leaving an entry out leaves entries.
LEMMA WithoutType ==
  ASSUME NEW S, cache \in Seq(S), NEW i \in 1 .. Len(cache)
  PROVE  /\ Without(i) \in Seq(S)
         /\ \A k \in 1 .. Len(Without(i)) : \E j \in 1 .. Len(cache) : Without(i)[k] = cache[j]
<1> DEFINE head == SubSeq(cache, 1, i - 1)
           tail == SubSeq(cache, i + 1, Len(cache))
<1>1. /\ head \in Seq(S) /\ Len(head) = i - 1
      /\ \A k \in 1 .. Len(head) : head[k] = cache[k]
  OBVIOUS
<1>2. /\ tail \in Seq(S) /\ Len(tail) = Len(cache) - i
      /\ \A k \in 1 .. Len(tail) : tail[k] = cache[i + k]
  OBVIOUS
<1>3. /\ head \o tail \in Seq(S)
      /\ \A k \in 1 .. Len(head \o tail) :
           (head \o tail)[k] = IF k <= i - 1 THEN head[k] ELSE tail[k - (i - 1)]
      /\ Len(head \o tail) = Len(cache) - 1
  <2> HIDE DEF head, tail
  <2>1. Len(cache) \in Nat /\ i \in 1 .. Len(cache)
    OBVIOUS
  <2>2. head \o tail \in Seq(S)
    BY <1>1, <1>2
  <2>3. Len(head \o tail) = Len(head) + Len(tail)
    BY <1>1, <1>2, ConcatProperties
  <2>4. \A k \in 1 .. Len(head) + Len(tail) :
          (head \o tail)[k] = IF k <= Len(head) THEN head[k] ELSE tail[k - Len(head)]
    BY <1>1, <1>2
  <2> QED BY SMTT(40), <1>1, <1>2, <2>1, <2>2, <2>3, <2>4
<1>4. ASSUME NEW k \in 1 .. Len(head \o tail)
      PROVE  \E j \in 1 .. Len(cache) : (head \o tail)[k] = cache[j]
  <2> HIDE DEF head, tail
  <2>1. CASE k <= i - 1
    BY <1>1, <1>3, <2>1
  <2>2. CASE k > i - 1
    <3>1. (head \o tail)[k] = tail[k - (i - 1)]
      BY <1>3, <2>2
    <3>2. k - (i - 1) \in 1 .. Len(tail)
      BY <1>2, <1>3, <2>2
    <3>3. tail[k - (i - 1)] = cache[i + (k - (i - 1))]
      BY <1>2, <3>2
    <3>4. i + (k - (i - 1)) \in 1 .. Len(cache)
      BY <1>2, <3>2
    <3> QED BY <3>1, <3>3, <3>4
  <2> QED BY <2>1, <2>2
<1> QED BY <1>3, <1>4 DEF Without

\* What put leaves: the new entry in front, and others of before.
LEMMA PutType ==
  ASSUME NEW S, cache \in Seq(S), NEW key, NEW file, Entry(key, file) \in S,
         CacheSize \in Nat
  PROVE  /\ Put(key, file) \in Seq(S)
         /\ \A k \in 1 .. Len(Put(key, file)) :
              \/ Put(key, file)[k] = Entry(key, file)
              \/ \E j \in 1 .. Len(cache) : Put(key, file)[k] = cache[j]
<1> DEFINE rest == IF Cached(key) = {} THEN cache ELSE Without(CHOOSE i \in Cached(key) : TRUE)
           e == Entry(key, file)
           all == <<e>> \o rest
<1>1. /\ rest \in Seq(S)
      /\ \A k \in 1 .. Len(rest) : \E j \in 1 .. Len(cache) : rest[k] = cache[j]
  <2>1. CASE Cached(key) = {}
    BY <2>1
  <2>2. CASE Cached(key) # {}
    <3>1. (CHOOSE i \in Cached(key) : TRUE) \in 1 .. Len(cache)
      BY <2>2 DEF Cached
    <3> QED BY <2>2, <3>1, WithoutType
  <2> QED BY <2>1, <2>2
<1>2. /\ all \in Seq(S) /\ Len(all) = Len(rest) + 1
      /\ all[1] = e
      /\ \A k \in 2 .. Len(all) : all[k] = rest[k - 1]
  <2> HIDE DEF rest, e
  <2>1. e \in S
    BY DEF e
  <2> QED BY <1>1, <2>1
<1>3. ASSUME NEW k \in 1 .. Len(all)
      PROVE  all[k] = e \/ \E j \in 1 .. Len(cache) : all[k] = cache[j]
  <2> HIDE DEF rest, e, all
  <2>1. CASE k = 1
    BY <1>2, <2>1
  <2>2. CASE k # 1
    <3>1. Len(rest) \in Nat /\ k \in 2 .. Len(all) /\ k - 1 \in 1 .. Len(rest)
      BY <1>1, <1>2, <2>2
    <3> QED BY <1>1, <1>2, <3>1
  <2> QED BY <2>1, <2>2
<1>4. Capacity \in Nat
  BY DEF Capacity
<1>5. CASE Len(all) > Capacity
  <2>1. Put(key, file) = SubSeq(all, 1, Capacity)
    BY <1>5 DEF Put, Fresh
  <2> HIDE DEF all
  <2>2. /\ SubSeq(all, 1, Capacity) \in Seq(S) /\ Len(SubSeq(all, 1, Capacity)) = Capacity
        /\ \A k \in 1 .. Capacity : SubSeq(all, 1, Capacity)[k] = all[k]
    BY <1>2, <1>4, <1>5
  <2>3. \A k \in 1 .. Capacity : k \in 1 .. Len(all)
    BY <1>2, <1>4, <1>5
  <2> QED BY <1>3, <2>1, <2>2, <2>3
<1>6. CASE ~(Len(all) > Capacity)
  <2>1. Put(key, file) = all
    BY <1>6 DEF Put, Fresh
  <2> HIDE DEF all
  <2> QED BY <1>2, <1>3, <2>1
<1> QED BY <1>5, <1>6

\* What EXCEPT makes of a job.
LEMMA JobUpdate ==
  ASSUME NEW j, NEW s, NEW r, NEW a, DOMAIN j = Fields
  PROVE  /\ LET k == [j EXCEPT !.stage = s]
            IN  DOMAIN k = Fields /\ k.stage = s /\ k.q = j.q /\ k.raw = j.raw /\ k.answer = j.answer
         /\ LET k == [j EXCEPT !.stage = s, !.raw = r]
            IN  DOMAIN k = Fields /\ k.stage = s /\ k.q = j.q /\ k.raw = r /\ k.answer = j.answer
         /\ LET k == [j EXCEPT !.stage = s, !.answer = a]
            IN  DOMAIN k = Fields /\ k.stage = s /\ k.q = j.q /\ k.raw = j.raw /\ k.answer = a
BY DEF Fields

-----------------------------------------------------------------------------
(* The invariant *)

\* At the start nobody has asked, every cover is its first and the cache is empty.
LEMMA InitInv == Init => Inv
<1> SUFFICES ASSUME Init PROVE Inv
  OBVIOUS
<1>1. /\ album \in Albums /\ at \in [DOMAIN album.art -> Nat \ {0}] /\ DOMAIN job = Clients
      /\ \A t \in DOMAIN album.art : at[t] <= Len(album.art[t])
      /\ cache = <<>>
  BY ArtworkAssumption DEF Init
<1>2. cache \in Seq(Entries) /\ Len(cache) = 0
  BY <1>1
<1>3. ASSUME NEW c \in Clients PROVE JobOK(c)
  <2>1. job[c] = Idle
    BY DEF Init
  <2> QED BY <2>1 DEF JobOK, Idle, Fields
<1> QED BY <1>1, <1>2, <1>3 DEF Inv, Settings

\* A picture of a track stays one when the artwork is replaced.
LEMMA PictureStays ==
  ASSUME Settings, UNCHANGED album, NEW q \in Asked, NEW file, PictureOf(q, file),
         at' \in [DOMAIN album.art -> Nat \ {0}],
         \A t \in DOMAIN album.art : at[t] <= at'[t]
  PROVE  PictureOf(q, file)'
<1>1. q.track \in DOMAIN album.art
  BY ArtworkAssumption DEF Asked, Clients, Settings
<1>2. PICK i \in 1 .. at[q.track] :
        Encodes(album.art[q.track][i], q) /\ file = Encode(album.art[q.track][i], q)
  BY DEF PictureOf
<1>3. at[q.track] \in Nat /\ at'[q.track] \in Nat /\ at[q.track] <= at'[q.track]
  BY <1>1 DEF Settings
<1>4. i \in 1 .. at'[q.track]
  BY <1>3
<1> QED BY <1>2, <1>4 DEF PictureOf

\* The steps that leave the cache alone and touch one job.
LEMMA JobStep ==
  ASSUME Inv, UNCHANGED <<album, at, cache>>, NEW c \in Clients, NEW j,
         job' = [job EXCEPT ![c] = j], JobOK(c)'
  PROVE  Inv'
<1>1. Clients' = Clients /\ Asked' = Asked /\ Entries' = Entries
  BY DEF Clients, Asked, Entries, Pictures
<1>2. Settings'
  BY <1>1 DEF Inv, Settings
<1>3. \A i \in 1 .. Len(cache') : Good(cache[i])'
  BY <1>1 DEF Inv, Good, PictureOf
<1>4. ASSUME NEW d \in Clients PROVE JobOK(d)'
  <2>1. CASE d = c
    BY <2>1
  <2>2. CASE d # c
    <3>1. job'[d] = job[d] /\ JobOK(d)
      BY <2>2 DEF Inv, Settings
    <3> QED BY <3>1 DEF JobOK, PictureOf
  <2> QED BY <2>1, <2>2
<1> QED BY <1>1, <1>2, <1>3, <1>4 DEF Inv

\* A step that changes the cache keeps its entries good.
LEMMA CacheStep ==
  ASSUME Inv, UNCHANGED <<album, at>>, NEW c \in Clients, NEW j,
         job' = [job EXCEPT ![c] = j], JobOK(c)',
         cache' \in Seq(Entries),
         \A k \in 1 .. Len(cache') :
           Good(cache'[k]) \/ \E i \in 1 .. Len(cache) : cache'[k] = cache[i]
  PROVE  Inv'
<1>1. Clients' = Clients /\ Asked' = Asked /\ Entries' = Entries
  BY DEF Clients, Asked, Entries, Pictures
<1>2. Settings'
  BY <1>1 DEF Inv, Settings
<1>3. ASSUME NEW k \in 1 .. Len(cache') PROVE Good(cache[k])'
  <2>1. Good(cache'[k])
    BY DEF Inv
  <2> QED BY <1>1, <2>1 DEF Good, PictureOf
<1>4. ASSUME NEW d \in Clients PROVE JobOK(d)'
  <2>1. CASE d = c
    BY <2>1
  <2>2. CASE d # c
    <3>1. job'[d] = job[d] /\ JobOK(d)
      BY <2>2 DEF Inv, Settings
    <3> QED BY <3>1 DEF JobOK, PictureOf
  <2> QED BY <2>1, <2>2
<1> QED BY <1>1, <1>2, <1>3, <1>4 DEF Inv

\* A hit gives the picture: whoever stored it had the same key.
LEMMA HitInv ==
  ASSUME Inv, NEW c \in Clients, Hit(c)
  PROVE  Inv'
<1> DEFINE q == job[c].q
<1>1. /\ JobOK(c) /\ cache \in Seq(Entries) /\ DOMAIN job = Clients
      /\ q \in album.asks[c] /\ job[c].stage = "fetched"
      /\ UNCHANGED <<album, at>>
  BY DEF Inv, Settings, JobOK, Hit
<1>2. PICK i \in Cached(KeyOf(q)) :
        /\ Reply(c, Answer(200, VariantOf(q).kind, cache[i].file))
        /\ cache' = <<cache[i]>> \o Without(i)
  BY DEF Hit
<1>3. i \in 1 .. Len(cache) /\ cache[i].key = KeyOf(q)
  BY <1>2 DEF Cached
<1>4. PictureOf(q, cache[i].file)
  <2>1. PICK p \in Asked :
          ~Rejected(p) /\ cache[i].key = KeyOf(p) /\ PictureOf(p, cache[i].file)
    BY <1>3 DEF Inv, Good
  <2>2. q.track = p.track /\ \A art : Encode(art, q) = Encode(art, p) /\ (Encodes(art, q) <=> Encodes(art, p))
    BY <1>3, <2>1, KeyDecides
  <2> QED BY <2>1, <2>2 DEF PictureOf
<1> DEFINE j == [job[c] EXCEPT !.stage = "answered",
                               !.answer = Answer(200, VariantOf(q).kind, cache[i].file)]
<1>5. job' = [job EXCEPT ![c] = j]
  BY <1>1, <1>2 DEF Reply
<1>6. JobOK(c)'
  <2>1. job'[c] = j
    BY <1>1, <1>5
  <2>2. /\ DOMAIN j = Fields /\ j.stage = "answered" /\ j.q = q
        /\ j.raw = job[c].raw /\ j.answer = Answer(200, VariantOf(q).kind, cache[i].file)
    <3>1. DOMAIN job[c] = Fields
      BY <1>1 DEF JobOK
    <3> QED BY <3>1, JobUpdate
  <2>3. j.answer.type = VariantOf(q).kind /\ j.answer.file = cache[i].file
    BY <2>2 DEF Answer
  <2>4. j.answer.type # "original" /\ ~Rejected(q)
    BY <1>1, <2>3, VariantKind DEF JobOK
  <2>5. \A p, f : PictureOf(p, f) => PictureOf(p, f)'
    BY <1>1 DEF PictureOf
  <2>6. j.q \in album'.asks[c]
    BY <1>1, <2>2
  <2> DEFINE file == cache[i].file
  <2>7. PictureOf(q, file) /\ j.answer.file = file
    BY <1>4, <2>3
  <2> HIDE DEF j, q, file
  <2> QED BY <2>1, <2>2, <2>3, <2>4, <2>5, <2>6, <2>7 DEF JobOK
<1>7. /\ cache' \in Seq(Entries)
      /\ \A k \in 1 .. Len(cache') : \E l \in 1 .. Len(cache) : cache'[k] = cache[l]
  <2>1. /\ Without(i) \in Seq(Entries)
        /\ \A k \in 1 .. Len(Without(i)) : \E l \in 1 .. Len(cache) : Without(i)[k] = cache[l]
    BY <1>1, <1>3, WithoutType
  <2>2. cache[i] \in Entries
    BY <1>1, <1>3
  <2> DEFINE rest == Without(i)
             e == cache[i]
  <2>3. cache' = <<e>> \o rest /\ e \in Entries /\ rest \in Seq(Entries)
    BY <1>2, <2>1, <2>2
  <2> HIDE DEF rest, e
  <2>4. /\ cache' \in Seq(Entries) /\ Len(cache') = Len(rest) + 1 /\ cache'[1] = e
        /\ \A k \in 2 .. Len(cache') : cache'[k] = rest[k - 1]
    BY <2>3
  <2>5. ASSUME NEW k \in 1 .. Len(cache')
        PROVE  \E l \in 1 .. Len(cache) : cache'[k] = cache[l]
    <3>1. CASE k = 1
      BY <1>3, <2>4, <3>1 DEF e
    <3>2. CASE k # 1
      <4>1. Len(rest) \in Nat /\ k \in 2 .. Len(cache') /\ k - 1 \in 1 .. Len(rest)
        BY <2>3, <2>4, <3>2
      <4>2. \E l \in 1 .. Len(cache) : rest[k - 1] = cache[l]
        BY <2>1, <4>1 DEF rest
      <4> QED BY <2>4, <4>1, <4>2
    <3> QED BY <3>1, <3>2
  <2> QED BY <2>4, <2>5
<1> HIDE DEF j
<1> QED BY <1>1, <1>5, <1>6, <1>7, CacheStep

\* What is stored is what was encoded for this key.
LEMMA StoreInv ==
  ASSUME Inv, NEW c \in Clients, Store(c)
  PROVE  Inv'
<1> DEFINE q == job[c].q
           file == Encode(ArtOf(c), q)
           j == [job[c] EXCEPT !.stage = "answered",
                               !.answer = Answer(200, VariantOf(q).kind, file)]
<1>1. /\ JobOK(c) /\ cache \in Seq(Entries) /\ DOMAIN job = Clients
      /\ q \in album.asks[c] /\ job[c].raw \in 1 .. at[q.track] /\ ~Rejected(q)
      /\ UNCHANGED <<album, at>> /\ Encodes(ArtOf(c), q)
      /\ cache' = Put(KeyOf(q), file) /\ job' = [job EXCEPT ![c] = j]
  BY DEF Inv, Settings, JobOK, Store, Reply
<1>2. PictureOf(q, file) /\ q \in Asked
  BY <1>1 DEF PictureOf, ArtOf, Asked
<1>3. Entry(KeyOf(q), file) \in Entries /\ Good(Entry(KeyOf(q), file))
  <2>1. q.track \in DOMAIN album.art /\ at[q.track] \in Nat
    BY <1>2, ArtworkAssumption DEF Asked, Clients, Inv, Settings
  <2>2. job[c].raw \in Nat
    BY <1>1, <2>1
  <2>3. file \in Pictures
    <3>1. file = Encode(album.art[q.track][job[c].raw], q)
      BY DEF ArtOf
    <3> HIDE DEF file, q
    <3>2. \E p \in Asked, i \in Nat : file = Encode(album.art[p.track][i], p)
      BY <1>2, <2>2, <3>1
    <3> QED BY <3>2 DEF Pictures
  <2> HIDE DEF file, q
  <2> QED BY <1>1, <1>2, <2>3 DEF Entry, Entries, Good
<1>4. JobOK(c)'
  <2>1. job'[c] = j
    BY <1>1
  <2>2. /\ DOMAIN j = Fields /\ j.stage = "answered" /\ j.q = q
        /\ j.raw = job[c].raw /\ j.answer = Answer(200, VariantOf(q).kind, file)
    <3>1. DOMAIN job[c] = Fields
      BY <1>1 DEF JobOK
    <3> QED BY <3>1, JobUpdate
  <2>3. \A p, f : PictureOf(p, f) => PictureOf(p, f)'
    BY <1>1 DEF PictureOf
  <2>4. j.answer.type = VariantOf(q).kind /\ j.answer.file = file
    BY <2>2 DEF Answer
  <2>5. j.q \in album'.asks[c]
    BY <1>1, <2>2
  <2>6. j.answer.type # "original"
    BY <2>4, VariantKind
  <2> HIDE DEF j, file, q
  <2> QED BY <1>1, <1>2, <2>1, <2>2, <2>3, <2>4, <2>5, <2>6 DEF JobOK
<1>5. /\ cache' \in Seq(Entries)
      /\ \A k \in 1 .. Len(cache') :
           Good(cache'[k]) \/ \E i \in 1 .. Len(cache) : cache'[k] = cache[i]
  <2> HIDE DEF file, q
  <2> QED BY <1>1, <1>3, PutType, ArtworkAssumption
<1> HIDE DEF j, file, q
<1> QED BY <1>1, <1>4, <1>5, CacheStep

\* A replaced artwork adds a version and takes none away.
LEMMA ReplaceInv ==
  ASSUME Inv, NEW t \in DOMAIN album.art, Replace(t)
  PROVE  Inv'
<1>1. /\ at' \in [DOMAIN album.art -> Nat \ {0}] /\ UNCHANGED <<album, cache, job>>
      /\ \A u \in DOMAIN album.art : at[u] <= at'[u] /\ at[u] \in Nat
      /\ \A u \in DOMAIN album.art : at'[u] <= Len(album.art[u])
  <2>1. album \in Albums /\ Len(album.art[t]) \in Nat
    BY ArtworkAssumption DEF Inv, Settings
  <2> QED BY <2>1 DEF Inv, Settings, Replace
<1>2. Clients' = Clients /\ Asked' = Asked /\ Entries' = Entries
  BY <1>1 DEF Clients, Asked, Entries, Pictures
<1>3. Settings /\ Settings'
  BY <1>1, <1>2 DEF Inv, Settings
<1>4. \A q \in Asked : \A file : PictureOf(q, file) => PictureOf(q, file)'
  BY <1>1, <1>3, PictureStays
<1>5. ASSUME NEW i \in 1 .. Len(cache') PROVE Good(cache[i])'
  <2>1. PICK q \in Asked :
          ~Rejected(q) /\ cache[i].key = KeyOf(q) /\ PictureOf(q, cache[i].file)
    BY <1>1 DEF Inv, Good
  <2>2. PictureOf(q, cache[i].file)'
    BY <1>1, <1>4, <2>1
  <2> QED BY <1>1, <1>2, <2>1, <2>2 DEF Good
<1>6. ASSUME NEW c \in Clients PROVE JobOK(c)'
  <2>1. JobOK(c) /\ job'[c] = job[c]
    BY <1>1 DEF Inv
  <2>2. job[c].stage # "idle" => job[c].q \in Asked
    BY <2>1 DEF JobOK, Asked
  <2>3. job[c].stage = "idle" => job[c].answer = None
    BY <2>1 DEF JobOK
  <2>4. job[c].answer # None => (PictureOf(job[c].q, job[c].answer.file)
                                   => PictureOf(job[c].q, job[c].answer.file)')
    BY <1>1, <1>4, <2>2, <2>3
  <2>5. job[c].stage # "idle" => at[job[c].q.track] \in Nat /\ at'[job[c].q.track] \in Nat
                                   /\ at[job[c].q.track] <= at'[job[c].q.track]
    BY <1>1, <2>2, ArtworkAssumption DEF Asked, Clients, Inv, Settings
  <2>6. album' = album
    BY <1>1
  <2>7. /\ DOMAIN job'[c] = Fields
        /\ job'[c].stage \in {"idle", "asked", "fetched", "missed", "answered"}
        /\ job'[c].stage # "idle" => job'[c].q \in album'.asks[c]
        /\ job'[c].stage # "answered" => job'[c].answer = None
    BY <2>1, <2>6 DEF JobOK
  <2>8. job'[c].stage \in {"fetched", "missed"} =>
          /\ job'[c].raw \in 1 .. at'[job'[c].q.track] /\ ~Rejected(job'[c].q)
          /\ album'.art[job'[c].q.track][job'[c].raw].is # "absent"
    BY <2>1, <2>5, <2>6 DEF JobOK
  <2>9. job'[c].answer # None /\ job'[c].answer.type \in {"jpeg", "pict"} =>
          /\ job'[c].answer.type = VariantOf(job'[c].q).kind /\ ~Rejected(job'[c].q)
          /\ PictureOf(job[c].q, job[c].answer.file)'
    <3>1. ASSUME job[c].answer # None, job[c].answer.type \in {"jpeg", "pict"}
          PROVE  /\ job[c].answer.type = VariantOf(job[c].q).kind /\ ~Rejected(job[c].q)
                 /\ PictureOf(job[c].q, job[c].answer.file)
      BY <2>1, <3>1 DEF JobOK
    <3> QED BY <2>1, <2>4, <3>1
  <2>10. job'[c].answer # None /\ job'[c].answer.type = "original" =>
          /\ job'[c].raw \in 1 .. at'[job'[c].q.track] /\ ~Rejected(job'[c].q)
          /\ album'.art[job'[c].q.track][job'[c].raw].is # "absent"
          /\ ~Encodes(album'.art[job'[c].q.track][job'[c].raw], job'[c].q)
    <3>1. ASSUME job[c].answer # None, job[c].answer.type = "original"
          PROVE  /\ job[c].raw \in 1 .. at[job[c].q.track] /\ ~Rejected(job[c].q)
                 /\ album.art[job[c].q.track][job[c].raw].is # "absent"
                 /\ ~Encodes(album.art[job[c].q.track][job[c].raw], job[c].q)
                 /\ job[c].stage # "idle"
      BY <2>1, <2>3, <3>1 DEF JobOK
    <3>2. ASSUME job[c].answer # None, job[c].answer.type = "original"
          PROVE  job[c].raw \in 1 .. at'[job[c].q.track]
      BY <2>5, <3>1, <3>2
    <3> QED BY <2>1, <2>6, <3>1, <3>2
  <2> QED BY <2>1, <2>7, <2>8, <2>9, <2>10 DEF JobOK
<1> QED BY <1>1, <1>2, <1>3, <1>5, <1>6 DEF Inv

\* Every step of a request, of the cache or of the library keeps the invariant.
LEMMA StepInv == Inv /\ [Next]_vars => Inv'
<1> SUFFICES ASSUME Inv, [Next]_vars PROVE Inv'
  OBVIOUS
<1>1. ASSUME NEW c \in Clients, Ask(c) PROVE Inv'
  <2>1. PICK q \in album.asks[c] : job' = [job EXCEPT ![c] = [Idle EXCEPT !.stage = "asked", !.q = q]]
    BY <1>1 DEF Ask
  <2>2. JobOK(c)'
    <3>1. job'[c] = [stage |-> "asked", q |-> q, raw |-> None, answer |-> None]
      BY <2>1 DEF Idle, Inv, Settings
    <3>2. album' = album /\ at' = at
      BY <1>1 DEF Ask
    <3>3. /\ DOMAIN job'[c] = Fields /\ job'[c].stage = "asked" /\ job'[c].q = q
          /\ job'[c].answer = None
      BY <3>1 DEF Fields
    <3>4. job'[c].q \in album'.asks[c]
      BY <2>1, <3>2, <3>3
    <3> QED BY <3>3, <3>4 DEF JobOK
  <2> QED BY <1>1, <2>1, <2>2, JobStep DEF Ask
<1>2. ASSUME NEW c \in Clients, NEW status, Reply(c, Answer(status, None, None)),
             job[c].stage = "asked", UNCHANGED <<album, at, cache>>
      PROVE  Inv'
  <2> DEFINE j == [job[c] EXCEPT !.stage = "answered", !.answer = Answer(status, None, None)]
  <2>1. job' = [job EXCEPT ![c] = j]
    BY <1>2 DEF Reply
  <2>2. JobOK(c)'
    <3>1. JobOK(c) /\ job'[c] = j
      BY <2>1 DEF Inv, Settings
    <3>2. /\ DOMAIN j = Fields /\ j.stage = "answered" /\ j.q = job[c].q
          /\ j.raw = job[c].raw /\ j.answer = Answer(status, None, None)
      BY <3>1 DEF JobOK
    <3> HIDE DEF j
    <3>3. /\ album' = album /\ at' = at /\ job[c].stage = "asked"
      BY <1>2
    <3>4. /\ DOMAIN job'[c] = Fields /\ job'[c].stage = "answered"
          /\ job'[c].q \in album'.asks[c]
      BY <3>1, <3>2, <3>3 DEF JobOK
    <3>5. job'[c].answer.type = None
      BY <3>1, <3>2 DEF Answer
    <3>6. job'[c].answer.type \notin {"jpeg", "pict", "original"}
      BY <3>5, ArtworkAssumption
    <3> QED BY <3>4, <3>6 DEF JobOK
  <2> HIDE DEF j
  <2> QED BY <1>2, <2>1, <2>2, JobStep
<1>3. ASSUME NEW c \in Clients, Fetch(c) PROVE Inv'
  <2> DEFINE q == job[c].q
             j == [job[c] EXCEPT !.stage = "fetched", !.raw = at[q.track]]
  <2>1. /\ job' = [job EXCEPT ![c] = j] /\ UNCHANGED <<album, at, cache>>
        /\ job[c].stage = "asked" /\ ~Rejected(q)
    BY <1>3 DEF Fetch, Inv, Settings
  <2>2. JobOK(c) /\ job'[c] = j
    BY <2>1 DEF Inv, Settings
  <2>3. /\ DOMAIN j = Fields /\ j.stage = "fetched" /\ j.q = q
        /\ j.raw = at[q.track] /\ j.answer = None
    <3>1. DOMAIN job[c] = Fields
      BY <2>2 DEF JobOK
    <3>2. job[c].answer = None
      BY <2>1, <2>2 DEF JobOK
    <3> QED BY <3>1, <3>2, JobUpdate
  <2>4. at[q.track] \in 1 .. at[q.track]
    <3>1. q \in Asked
      BY <2>1, <2>2 DEF JobOK, Asked
    <3>2. q.track \in DOMAIN album.art
      BY <3>1, ArtworkAssumption DEF Asked, Clients, Inv, Settings
    <3> HIDE DEF q
    <3> QED BY <3>2 DEF Inv, Settings
  <2>5. JobOK(c)'
    <3>1. album.art[q.track][at[q.track]].is # "absent"
      BY <1>3 DEF Fetch
    <3>2. /\ j.q \in album'.asks[c] /\ j.raw \in 1 .. at'[j.q.track] /\ ~Rejected(j.q)
          /\ album'.art[j.q.track][j.raw].is # "absent"
      <4>1. q \in album.asks[c]
        BY <2>1, <2>2 DEF JobOK
      <4> HIDE DEF j, q
      <4> QED BY <2>1, <2>3, <2>4, <3>1, <4>1
    <3> HIDE DEF j
    <3> QED BY <2>2, <2>3, <3>2 DEF JobOK
  <2> HIDE DEF j
  <2> QED BY <2>1, <2>5, JobStep
<1>4. ASSUME NEW c \in Clients, Miss(c) PROVE Inv'
  <2> DEFINE j == [job[c] EXCEPT !.stage = "missed"]
  <2>1. /\ job' = [job EXCEPT ![c] = j] /\ UNCHANGED <<album, at, cache>>
        /\ job[c].stage = "fetched" /\ JobOK(c) /\ job'[c] = j
    BY <1>4 DEF Miss, Inv, Settings
  <2>2. /\ DOMAIN j = Fields /\ j.stage = "missed" /\ j.q = job[c].q
        /\ j.raw = job[c].raw /\ j.answer = None
    <3>1. DOMAIN job[c] = Fields
      BY <2>1 DEF JobOK
    <3>2. job[c].answer = None
      BY <2>1 DEF JobOK
    <3> QED BY <3>1, <3>2, JobUpdate
  <2>3. JobOK(c)'
    <3> HIDE DEF j
    <3> QED BY <2>1, <2>2 DEF JobOK
  <2> HIDE DEF j
  <2> QED BY <2>1, <2>3, JobStep
<1>5. ASSUME NEW c \in Clients, FallBack(c) PROVE Inv'
  <2> DEFINE j == [job[c] EXCEPT !.stage = "answered", !.answer = Answer(200, "original", ArtOf(c))]
  <2>1. /\ job' = [job EXCEPT ![c] = j] /\ UNCHANGED <<album, at, cache>>
        /\ job[c].stage = "missed" /\ JobOK(c) /\ job'[c] = j
    BY <1>5 DEF FallBack, Reply, Inv, Settings
  <2>2. /\ DOMAIN j = Fields /\ j.stage = "answered" /\ j.q = job[c].q
        /\ j.raw = job[c].raw /\ j.answer = Answer(200, "original", ArtOf(c))
    <3>1. DOMAIN job[c] = Fields
      BY <2>1 DEF JobOK
    <3> QED BY <3>1, JobUpdate
  <2>3. JobOK(c)'
    <3> HIDE DEF j
    <3>1. ~Encodes(album.art[j.q.track][j.raw], j.q)
      BY <1>5, <2>2 DEF FallBack, ArtOf
    <3>2. j.answer.type = "original"
      BY <2>2 DEF Answer
    <3>3. /\ j.q \in album'.asks[c] /\ j.raw \in 1 .. at'[j.q.track] /\ ~Rejected(j.q)
          /\ album'.art[j.q.track][j.raw].is # "absent"
          /\ ~Encodes(album'.art[j.q.track][j.raw], j.q)
      BY <2>1, <2>2, <3>1 DEF JobOK
    <3> QED BY <2>1, <2>2, <3>2, <3>3 DEF JobOK
  <2> HIDE DEF j
  <2> QED BY <2>1, <2>3, JobStep
<1>6. CASE UNCHANGED vars
  <2>1. Clients' = Clients /\ Asked' = Asked /\ Entries' = Entries
    BY <1>6 DEF vars, Clients, Asked, Entries, Pictures
  <2> QED BY ZenonT(60), <1>6, <2>1 DEF vars, Inv, Settings, Good, JobOK, PictureOf
<1>7. CASE Next
  <2>1. ASSUME NEW c \in Clients,
               Ask(c) \/ Refuse(c) \/ FetchNothing(c) \/ Fetch(c)
                 \/ Hit(c) \/ Miss(c) \/ Store(c) \/ FallBack(c)
        PROVE  Inv'
    <3>1. CASE Refuse(c)
      BY <1>2, <3>1 DEF Refuse
    <3>2. CASE FetchNothing(c)
      BY <1>2, <3>2 DEF FetchNothing
    <3> QED BY <1>1, <1>3, <1>4, <1>5, <2>1, <3>1, <3>2, HitInv, StoreInv
  <2> QED BY <1>7, <2>1, ReplaceInv DEF Next
<1> QED BY <1>6, <1>7

\* Every cached file is the encoding, for an accepted request with its key, of
\* an artwork its track has had (Artworker::prepare).
THEOREM Invariance == Spec => []Inv
BY InitInv, StepInv, PTL DEF Spec

-----------------------------------------------------------------------------
(* What follows *)

\* The answers of the invariant are what was asked for.
LEMMA InvMatches == Inv => AnswerIsForItsRequest
<1> SUFFICES ASSUME Inv, NEW c \in Pictured
    PROVE  /\ job[c].answer.type = VariantOf(job[c].q).kind
           /\ \E art \in Versions(job[c].q.track) :
                Encodes(art, job[c].q) /\ job[c].answer.file = Encode(art, job[c].q)
  BY DEF AnswerIsForItsRequest
<1>1. /\ job[c].answer.type = VariantOf(job[c].q).kind
      /\ PictureOf(job[c].q, job[c].answer.file)
  BY DEF Inv, JobOK, Pictured
<1> QED BY <1>1 DEF PictureOf, Versions

\* Whatever is encoded, stored, evicted or replaced meanwhile, a client is
\* answered with the picture it asked for (CacheKey, prepare).
THEOREM AnswersMatch == Spec => []AnswerIsForItsRequest
BY Invariance, InvMatches, PTL

\* Two accepted requests for one picture have one key.
LEMMA InvCanonical == Inv => KeysAreCanonical
<1> SUFFICES ASSUME Inv, NEW i \in 1 .. Len(cache), cache[i].key.variant.kind = "pict"
    PROVE  cache[i].key.variant.depth \in {1, 24} <=> cache[i].key.variant.mode = None
  BY DEF KeysAreCanonical
<1>1. PICK q \in Asked : ~Rejected(q) /\ cache[i].key = KeyOf(q)
  BY DEF Inv, Good
<1>2. cache[i].key.variant = VariantOf(q)
  BY <1>1 DEF KeyOf
<1>3. CASE q.depth # None
  BY <1>1, <1>2, <1>3, ArtworkAssumption DEF Rejected, VariantOf, PictOf
<1>4. CASE q.depth = None
  BY <1>2, <1>4, ArtworkAssumption DEF VariantOf, VariantFromAccept, PictOf, Jpeg
<1> QED BY <1>3, <1>4

\* No accepted request leads to a second key for one picture, nor to the
\* depth and mode encode_pict refuses (handle_artwork).
THEOREM CanonicalKeys == Spec => []KeysAreCanonical
BY Invariance, InvCanonical, PTL

-----------------------------------------------------------------------------
(* Sizes.  A side scaled by b / c is the quotient of ScaleQuotient, or one  *)
(* pixel where that is none.                                               *)

\* Max of two numbers, as in max(1).
LEMMA MaxOfTwo ==
  ASSUME NEW x \in Int, NEW y \in Int
  PROVE  Max({x, y}) = IF x >= y THEN x ELSE y
<1> DEFINE m == IF x >= y THEN x ELSE y
<1>1. m \in {x, y} /\ \A z \in {x, y} : m >= z
  OBVIOUS
<1>2. \A n \in {x, y} : (\A z \in {x, y} : n >= z) => n = m
  OBVIOUS
<1> QED
  BY <1>1, <1>2 DEF Max

\* A quotient is the whole part of a division.
LEMMA Quotient ==
  ASSUME NEW n \in Nat, NEW d \in Nat \ {0}
  PROVE  /\ n \div d \in Nat
         /\ d * (n \div d) <= n /\ n < d * (n \div d) + d
OBVIOUS

\* A scaled side is the rounded quotient, or one pixel.
LEMMA ScaleQuotient ==
  ASSUME NEW a \in Nat \ {0}, NEW b \in Nat \ {0}, NEW c \in Nat \ {0}
  PROVE  \E k \in Nat : /\ Scale(a, b, c) = IF 1 >= k THEN 1 ELSE k
                        /\ 2 * (c * k) <= 2 * (a * b) + c
                        /\ 2 * (a * b) + c < 2 * (c * k) + 2 * c
<1> DEFINE n == 2 * a * b + c
           d == 2 * c
           k == n \div d
<1>1. n \in Nat /\ d \in Nat \ {0} /\ n = 2 * (a * b) + c
  OBVIOUS
<1>2. k \in Nat /\ d * k <= n /\ n < d * k + d
  <2> HIDE DEF n, d
  <2> QED BY <1>1, Quotient
<1>3. d * k = 2 * (c * k)
  <2> HIDE DEF k
  <2> QED BY <1>2
<1>4. Scale(a, b, c) = IF 1 >= k THEN 1 ELSE k
  BY <1>2, MaxOfTwo DEF Scale
<1> HIDE DEF n, d, k
<1> QED BY <1>1, <1>2, <1>3, <1>4 DEF d

\* A side that is scaled to at most m has at most m pixels, and one at least.
LEMMA ScaleBound ==
  ASSUME NEW a \in Nat \ {0}, NEW b \in Nat \ {0}, NEW c \in Nat \ {0}, NEW m \in Nat \ {0},
         a * b <= m * c
  PROVE  Scale(a, b, c) \in 1 .. m
<1>1. PICK k \in Nat : /\ Scale(a, b, c) = IF 1 >= k THEN 1 ELSE k
                       /\ 2 * (c * k) <= 2 * (a * b) + c
  BY ScaleQuotient
<1>2. k <= m
  <2> SUFFICES ASSUME k >= m + 1 PROVE FALSE
    BY <1>1
  <2>1. c * k >= c * (m + 1)
    OBVIOUS
  <2>2. c * (m + 1) = m * c + c
    OBVIOUS
  <2>3. 2 * (m * c + c) <= 2 * (m * c) + c
    BY <1>1, <2>1, <2>2
  <2> QED BY <2>3
<1> QED BY <1>1, <1>2

\* Rounding moves a side by at most a pixel.
LEMMA ScaleSkew ==
  ASSUME NEW a \in Nat \ {0}, NEW b \in Nat \ {0}, NEW c \in Nat \ {0}
  PROVE  a * b - c * Scale(a, b, c) <= c /\ c * Scale(a, b, c) - a * b <= c
<1>1. PICK k \in Nat : /\ Scale(a, b, c) = IF 1 >= k THEN 1 ELSE k
                       /\ 2 * (c * k) <= 2 * (a * b) + c
                       /\ 2 * (a * b) + c < 2 * (c * k) + 2 * c
  BY ScaleQuotient
<1>0. a * b \in Nat /\ c * k \in Nat
  OBVIOUS
<1>2. CASE k >= 1
  <2>1. Scale(a, b, c) = k
    BY <1>1, <1>2
  <2> QED BY <1>0, <1>1, <2>1
<1>3. CASE k = 0
  <2>1. Scale(a, b, c) = 1 /\ c * k = 0 /\ c * 1 = c
    BY <1>1, <1>3
  <2> QED BY <1>0, <1>1, <2>1
<1> QED BY <1>2, <1>3

\* The box: whichever ratio decides, both sides stay within it and within the
\* image, and neither is lost.
LEMMA FitIsWithin ==
  ASSUME NEW img, img.w \in Nat \ {0}, img.h \in Nat \ {0},
         NEW mw, mw = None \/ mw \in Nat \ {0}, NEW mh, mh = None \/ mh \in Nat \ {0}
  PROVE  LET to == FitWithin(img, mw, mh)
         IN  /\ to.w \in 1 .. img.w /\ to.h \in 1 .. img.h
             /\ mw # None => to.w <= mw
             /\ mh # None => to.h <= mh
             /\ LET skew == to.w * img.h - to.h * img.w
                IN  Max({skew, -skew}) <= Max({img.w, img.h})
<1> DEFINE w == img.w
           h == img.h
           to == FitWithin(img, mw, mh)
<1>m. ASSUME NEW x \in Int, NEW c \in {w, h}, x <= c, -x <= c
      PROVE  Max({x, -x}) <= Max({w, h})
  BY <1>m, MaxOfTwo
<1>1. CASE Fits(img, mw, mh)
  <2>1. to = [w |-> w, h |-> h]
    BY <1>1 DEF FitWithin
  <2>2. to.w * h - to.h * w = 0
    BY <2>1
  <2>3. Max({0, -0}) <= Max({w, h})
    BY MaxOfTwo
  <2>4. /\ to.w \in 1 .. w /\ to.h \in 1 .. h
        /\ mw # None => to.w <= mw
        /\ mh # None => to.h <= mh
    BY <1>1, <2>1 DEF Fits
  <2> QED BY <2>2, <2>3, <2>4
<1>2. CASE ~Fits(img, mw, mh) /\ mw # None /\ (mh = None \/ mw * h <= mh * w)
  <2>1. to = [w |-> mw, h |-> Scale(h, mw, w)]
    BY <1>2 DEF FitWithin
  <2>2. mw <= w
    <3> SUFFICES ASSUME mw > w PROVE FALSE
      BY <1>2
    <3>1. mh # None /\ mh \in Nat /\ mh < h /\ mw * h <= mh * w
      BY <1>2 DEF Fits
    <3>2. mh * w < h * w /\ w * h < mw * h /\ h * w = w * h
      BY <1>2, <3>1
    <3>3. mw * h < mw * h
      BY <1>2, <3>1, <3>2
    <3> QED BY <1>2, <3>3
  <2>3. Scale(h, mw, w) \in 1 .. h
    <3>1. h * mw <= h * w
      BY <1>2, <2>2
    <3> QED BY <1>2, <3>1, ScaleBound
  <2>4. mh # None => Scale(h, mw, w) \in 1 .. mh
    <3>1. mh # None => h * mw <= mh * w
      BY <1>2
    <3> QED BY <1>2, <3>1, ScaleBound
  <2>5. h * mw - w * Scale(h, mw, w) <= w /\ w * Scale(h, mw, w) - h * mw <= w
    BY <1>2, ScaleSkew
  <2> DEFINE x == mw * h - Scale(h, mw, w) * w
  <2>6. x \in Int /\ x <= w /\ -x <= w
    BY <1>2, <2>3, <2>5
  <2>7. Max({x, -x}) <= Max({w, h})
    <3> HIDE DEF x
    <3> QED BY <2>6, <1>m
  <2> QED BY <1>2, <2>1, <2>2, <2>3, <2>4, <2>7
<1>3. CASE ~Fits(img, mw, mh) /\ ~(mw # None /\ (mh = None \/ mw * h <= mh * w))
  <2>1. to = [w |-> Scale(w, mh, h), h |-> mh]
    BY <1>3 DEF FitWithin
  <2>2. mh # None /\ mh \in Nat \ {0} /\ (mw # None => mh * w < mw * h)
    BY <1>3 DEF Fits
  <2>3. mh <= h
    <3> SUFFICES ASSUME mh > h PROVE FALSE
      BY <2>2
    <3>1. mw # None /\ mw \in Nat /\ mw < w
      BY <1>3, <2>2 DEF Fits
    <3>2. mw * h < w * h /\ h * w < mh * w /\ h * w = w * h
      BY <2>2, <3>1
    <3>3. mw * h < mh * w
      BY <2>2, <3>1, <3>2
    <3> QED BY <2>2, <3>1, <3>3
  <2>4. Scale(w, mh, h) \in 1 .. w
    <3>1. w * mh <= w * h
      BY <2>2, <2>3
    <3> QED BY <2>2, <3>1, ScaleBound
  <2>5. mw # None => Scale(w, mh, h) \in 1 .. mw
    <3>1. mw # None => w * mh <= mw * h
      BY <2>2
    <3> QED BY <2>2, <3>1, ScaleBound
  <2>6. w * mh - h * Scale(w, mh, h) <= h /\ h * Scale(w, mh, h) - w * mh <= h
    BY <2>2, ScaleSkew
  <2> DEFINE x == Scale(w, mh, h) * h - mh * w
  <2>7. x \in Int /\ x <= h /\ -x <= h
    BY <2>2, <2>4, <2>6
  <2>8. Max({x, -x}) <= Max({w, h})
    <3> HIDE DEF x
    <3> QED BY <2>7, <1>m
  <2> QED BY <2>1, <2>2, <2>3, <2>4, <2>5, <2>8
<1> QED BY <1>1, <1>2, <1>3

\* No encoder changes the size.
LEMMA EncodeKeepsSize ==
  ASSUME NEW art, NEW q
  PROVE  /\ Encode(art, q).w = FitWithin(art, q.mw, q.mh).w
         /\ Encode(art, q).h = FitWithin(art, q.mw, q.mh).h
<1> DEFINE img == Resized(art, q)
<1>1. img.w = FitWithin(art, q.mw, q.mh).w /\ img.h = FitWithin(art, q.mw, q.mh).h
  BY DEF Resized, Resize
<1>2. Encode(art, q) = IF VariantOf(q).kind = "jpeg" THEN EncodeJpeg(img)
                       ELSE EncodePict(img, VariantOf(q))
  BY DEF Encode
<1> HIDE DEF img
<1>3. EncodeJpeg(img).w = img.w /\ EncodeJpeg(img).h = img.h
  BY DEF EncodeJpeg
<1>4. \A op, size, colors, rowBytes, data :
        LET f == File(op, img, size, colors, rowBytes, data) IN f.w = img.w /\ f.h = img.h
  BY DEF File
<1>5. /\ EncodeBitmap(img).w = img.w /\ EncodeBitmap(img).h = img.h
      /\ EncodeDirect(img).w = img.w /\ EncodeDirect(img).h = img.h
      /\ \A d, m : EncodePackBits(img, d, m).w = img.w /\ EncodePackBits(img, d, m).h = img.h
  BY <1>4 DEF EncodeBitmap, EncodeDirect, EncodePackBits
<1>6. \A v : EncodePict(img, v).w = img.w /\ EncodePict(img, v).h = img.h
  BY <1>5 DEF EncodePict
<1> QED BY <1>1, <1>2, <1>3, <1>6

\* The pictures of the invariant are within their image and their box.
LEMMA InvFits == Inv => FitsTheBox
<1> SUFFICES ASSUME Inv, NEW c \in Pictured
             PROVE  LET q == job[c].q
                        file == job[c].answer.file
                    IN  /\ q.mw # None => file.w <= q.mw
                        /\ q.mh # None => file.h <= q.mh
                        /\ \E art \in {v \in Versions(q.track) : v.is = "image"} :
                             /\ file.w \in 1 .. art.w /\ file.h \in 1 .. art.h
                             /\ LET skew == file.w * art.h - file.h * art.w
                                IN  Max({skew, -skew}) <= Max({art.w, art.h})
  BY DEF FitsTheBox
<1> DEFINE q == job[c].q
           file == job[c].answer.file
<1>1. /\ c \in Clients /\ PictureOf(q, file) /\ ~Rejected(q) /\ q \in album.asks[c]
  BY DEF Inv, JobOK, Pictured
<1>2. PICK i \in 1 .. at[q.track] :
        Encodes(album.art[q.track][i], q) /\ file = Encode(album.art[q.track][i], q)
  BY <1>1 DEF PictureOf
<1> DEFINE art == album.art[q.track][i]
<1>4. art.is = "image" /\ file.w = FitWithin(art, q.mw, q.mh).w
      /\ file.h = FitWithin(art, q.mw, q.mh).h
  BY <1>2, EncodeKeepsSize DEF Encodes
<1>5. album \in Albums /\ q.track \in DOMAIN album.art
  BY <1>1, ArtworkAssumption DEF Inv, Settings, Clients
<1>6. i \in 1 .. Len(album.art[q.track])
  BY <1>5, <1>2, ArtworkAssumption DEF Inv, Settings
<1>7. art.w \in Nat \ {0} /\ art.h \in Nat \ {0}
  BY <1>4, <1>5, <1>6, ArtworkAssumption
<1>8. (q.mw = None \/ q.mw \in Nat \ {0}) /\ (q.mh = None \/ q.mh \in Nat \ {0})
  BY <1>1, ArtworkAssumption DEF Rejected
<1>9. art \in {v \in Versions(q.track) : v.is = "image"}
  BY <1>2, <1>4 DEF Versions
<1> DEFINE to == FitWithin(art, q.mw, q.mh)
<1> HIDE DEF q, file, art
<1>10. /\ to.w \in 1 .. art.w /\ to.h \in 1 .. art.h
       /\ q.mw # None => to.w <= q.mw
       /\ q.mh # None => to.h <= q.mh
       /\ Max({to.w * art.h - to.h * art.w, -(to.w * art.h - to.h * art.w)})
            <= Max({art.w, art.h})
  BY <1>7, <1>8, FitIsWithin
<1>11. file.w = to.w /\ file.h = to.h
  BY <1>4
<1> HIDE DEF to
<1> QED BY <1>9, <1>10, <1>11 DEF q, file

\* For every image and every box: rounding neither exceeds the box, enlarges,
\* loses a side nor bends the picture by more than a pixel (fit_within).
THEOREM PicturesFit == Spec => []FitsTheBox
BY Invariance, InvFits, PTL

-----------------------------------------------------------------------------
(* The fallback *)

\* An accepted request never asks for the last arm of encode_pict.
LEMMA DepthHasMode ==
  ASSUME NEW q, ~Rejected(q), VariantOf(q).kind = "pict"
  PROVE  LET v == VariantOf(q)
         IN  v.depth \in {1, 8, 24} \/ (v.depth \in {2, 4} /\ v.mode \in {"gray", "color"})
<1>1. CASE q.depth # None
  BY <1>1 DEF Rejected, VariantOf, PictOf
<1>2. CASE q.depth = None
  BY <1>2 DEF VariantOf, VariantFromAccept, PictOf, Jpeg
<1> QED BY <1>1, <1>2

\* Originals of the invariant are of images no encoder takes.
LEMMA InvHopeless == Inv => OriginalOnlyIfHopeless
<1> SUFFICES ASSUME Inv, NEW c \in Clients,
                    job[c].answer # None, job[c].answer.type = "original",
                    ArtOf(c).is # "broken"
             PROVE  LET longest == IF VariantOf(job[c].q).kind = "pict" THEN MaxDim ELSE MaxJpegDim
                    IN  ArtOf(c).w > longest \/ ArtOf(c).h > longest
  BY DEF OriginalOnlyIfHopeless
<1> DEFINE q == job[c].q
           art == ArtOf(c)
           img == Resized(art, q)
<1>1. /\ q \in album.asks[c] /\ ~Rejected(q) /\ ~Encodes(art, q)
      /\ job[c].raw \in 1 .. at[q.track] /\ art.is # "absent"
  BY DEF Inv, JobOK, ArtOf
<1>2. album \in Albums /\ q.track \in DOMAIN album.art
  BY <1>1, ArtworkAssumption DEF Inv, Settings, Clients
<1>3. job[c].raw \in 1 .. Len(album.art[q.track])
  BY <1>1, <1>2, ArtworkAssumption DEF Inv, Settings
<1>4. art.is = "image" /\ art.w \in Nat \ {0} /\ art.h \in Nat \ {0}
  BY <1>1, <1>2, <1>3, ArtworkAssumption DEF ArtOf
<1>5. (q.mw = None \/ q.mw \in Nat \ {0}) /\ (q.mh = None \/ q.mh \in Nat \ {0})
  BY <1>1, ArtworkAssumption DEF Rejected
<1> HIDE DEF q, art
<1>6. img.w \in 1 .. art.w /\ img.h \in 1 .. art.h
  <2> DEFINE to == FitWithin(art, q.mw, q.mh)
  <2>1. to.w \in 1 .. art.w /\ to.h \in 1 .. art.h
    BY <1>4, <1>5, FitIsWithin
  <2>2. img.w = to.w /\ img.h = to.h
    BY DEF Resized, Resize
  <2> QED BY <2>1, <2>2
<1> HIDE DEF img
<1>7. MaxDim \in Nat /\ MaxJpegDim \in Nat
  BY PictAssumption, ArtworkAssumption
<1>8. CASE VariantOf(q).kind = "pict"
  <2>1. ~ValidDims(img)
    BY <1>1, <1>4, <1>8, DepthHasMode DEF Encodes, PictEncodes, img
  <2> QED BY <1>4, <1>6, <1>7, <1>8, <2>1 DEF ValidDims, q, art
<1>9. CASE VariantOf(q).kind = "jpeg"
  <2>1. ~JpegEncodes(img)
    BY <1>1, <1>4, <1>9 DEF Encodes, img
  <2> QED BY <1>4, <1>6, <1>7, <1>9, <2>1 DEF JpegEncodes, q, art
<1> QED BY <1>8, <1>9, VariantKind

\* The original goes out only where no encoder could help: for every image, box
\* and request in range, resizing leaves a size that the encoder takes unless the
\* image itself is too long (handle_artwork, fit_within, encode_pict).
THEOREM OnlyHopelessFallBack == Spec => []OriginalOnlyIfHopeless
BY Invariance, InvHopeless, PTL

-----------------------------------------------------------------------------
(***************************************************************************)
(* Induction over the naturals, in the form of sets.                       *)
(***************************************************************************)
\* The order of the naturals.
Below == {p \in Nat \X Nat : p[1] < p[2]}

\* The naturals are well founded.
LEMMA BelowWellFounded == IsWellFoundedOn(Below, Nat)
<1>1. Below = OpToRel(<, Nat)
  BY DEF Below, OpToRel
<1> QED
  BY <1>1, NatLessThanWellFounded

\* A set of naturals that is not empty has a least element.
LEMMA Least ==
  ASSUME NEW T, T \subseteq Nat, T # {}
  PROVE  \E x \in T : \A y \in T : x <= y
<1>1. PICK x \in T : \A y \in T : ~ (<<y, x>> \in Below)
  BY BelowWellFounded, WFMin, Zenon
<1>2. ASSUME NEW y \in T
      PROVE  x <= y
  <2>1. <<y, x>> \in Nat \X Nat /\ <<y, x>>[1] = y /\ <<y, x>>[2] = x
    OBVIOUS
  <2> QED
    BY <1>1, <2>1 DEF Below
<1> QED
  BY <1>2

\* A set of naturals with 0 and every successor is all of them.
LEMMA SetInduction ==
  ASSUME NEW G, 0 \in G, \A n \in Nat : n \in G => n + 1 \in G
  PROVE  Nat \subseteq G
<1> SUFFICES ASSUME ~ Nat \subseteq G
             PROVE  FALSE
  OBVIOUS
<1>1. PICK x \in Nat \ G : \A y \in Nat \ G : x <= y
  BY Least
<1>2. x # 0 /\ x - 1 \in Nat /\ x - 1 \in G
  BY <1>1
<1> QED
  BY <1>1, <1>2

-----------------------------------------------------------------------------
(* A recursion that goes up: from i it continues at next[i], or ends.      *)

Chains(f, n, head, next) ==
  f = [i \in 1 .. n |-> IF next[i] = 0 THEN <<>> ELSE head[i] \o f[next[i]]]

\* Such a recursion has a solution.
LEMMA ChainsExists ==
  ASSUME NEW n \in Nat, NEW head, NEW next,
         \A i \in 1 .. n : next[i] = 0 \/ next[i] \in i + 1 .. n
  PROVE  \E f : Chains(f, n, head, next)
<1> DEFINE Holds(f, i) == f[i] = IF next[i] = 0 THEN <<>> ELSE head[i] \o f[next[i]]
           P(m) == \E f : \A i \in n + 1 - m .. n : Holds(f, i)
           G == {m \in Nat : m <= n => P(m)}
<1>1. 0 \in G
  OBVIOUS
<1>2. ASSUME NEW m \in Nat, m \in G PROVE m + 1 \in G
  <2> HIDE DEF P
  <2> SUFFICES ASSUME m + 1 <= n PROVE P(m + 1)
    OBVIOUS
  <2>0. n + 1 - (m + 1) = n - m
    OBVIOUS
  <2>1. PICK f : \A i \in n + 1 - m .. n : Holds(f, i)
    BY <1>2 DEF P
  <2> DEFINE b == IF next[n - m] = 0 THEN <<>> ELSE head[n - m] \o f[next[n - m]]
             h == [i \in 1 .. n |-> IF i = n - m THEN b ELSE f[i]]
  <2>2. h[n - m] = b /\ \A i \in n + 1 - m .. n : h[i] = f[i]
    <3> HIDE DEF b
    <3>1. n - m \in 1 .. n /\ \A i \in n + 1 - m .. n : i \in 1 .. n /\ i # n - m
      OBVIOUS
    <3> QED BY <3>1
  <2> HIDE DEF h
  <2>3. ASSUME NEW i \in n - m .. n PROVE Holds(h, i)
    <3>1. i \in 1 .. n /\ (next[i] # 0 => next[i] \in n + 1 - m .. n)
      OBVIOUS
    <3>2. CASE i = n - m
      BY <2>2, <3>1, <3>2
    <3>3. CASE i # n - m
      BY <2>1, <2>2, <3>1, <3>3
    <3> QED BY <3>2, <3>3
  <2> HIDE DEF Holds
  <2> QED BY <2>0, <2>3 DEF P
<1>3. n \in G
  <2> HIDE DEF G
  <2> QED BY <1>1, <1>2, SetInduction
<1>4. PICK f : \A i \in 1 .. n : Holds(f, i)
  BY <1>3
<1> DEFINE h == [i \in 1 .. n |-> f[i]]
<1>5. \A i \in 1 .. n : h[i] = IF next[i] = 0 THEN <<>> ELSE head[i] \o h[next[i]]
  BY <1>4
<1>6. Chains(h, n, head, next)
  BY <1>5 DEF Chains
<1> QED BY <1>6

-----------------------------------------------------------------------------
(* PackBits                                                                *)

\* RunAt is a run within the row, and of three where three bytes are alike.
LEMMA Runs ==
  ASSUME NEW s, Len(s) \in Nat, NEW i \in 1 .. Len(s)
  PROVE  LET n == RunAt(s, i)
         IN  /\ n \in 1 .. MaxRun /\ i + n - 1 <= Len(s)
             /\ \A j \in i .. i + n - 1 : s[j] = s[i]
             /\ LooksLikeRun(s, i) => n >= 3
<1> DEFINE W == {n \in 1 .. MaxRun : i + n - 1 <= Len(s) /\ \A j \in i .. i + n - 1 : s[j] = s[i]}
           V == {m \in Nat : MaxRun - m \in W}
<1>1. MaxRun \in Nat /\ MaxRun >= 3
  BY PictAssumption
<1>2. 1 \in W
  BY <1>1
<1>3. MaxRun - 1 \in V /\ V \subseteq Nat
  BY <1>1, <1>2
<1>4. PICK m \in V : \A k \in V : m <= k
  BY <1>3, Least
<1>5. MaxRun - m \in W /\ \A n \in W : MaxRun - m >= n
  <2>1. MaxRun - m \in W
    BY <1>4
  <2>2. ASSUME NEW n \in W PROVE MaxRun - m >= n
    <3>1. n \in Nat /\ n <= MaxRun /\ MaxRun - n \in Nat /\ MaxRun - (MaxRun - n) = n
      BY <1>1
    <3>2. MaxRun - n \in V
      BY <3>1
    <3>3. m \in Nat /\ m <= MaxRun - n
      BY <1>4, <3>2
    <3> QED BY <1>1, <3>1, <3>3
  <2> QED BY <2>1, <2>2
<1>6. RunAt(s, i) \in W /\ \A n \in W : RunAt(s, i) >= n
  <2> HIDE DEF W
  <2>1. \E x \in W : \A y \in W : x >= y
    BY <1>5
  <2>2. RunAt(s, i) = CHOOSE x \in W : \A y \in W : x >= y
    BY DEF RunAt, Max, W
  <2> QED BY <2>1, <2>2
<1>7. ASSUME LooksLikeRun(s, i) PROVE RunAt(s, i) >= 3
  <2>1. 3 \in W
    <3>1. i + 3 - 1 <= Len(s) /\ s[i] = s[i + 1] /\ s[i] = s[i + 2]
      BY <1>7 DEF LooksLikeRun
    <3>2. ASSUME NEW j \in i .. i + 3 - 1 PROVE s[j] = s[i]
      <4>1. j = i \/ j = i + 1 \/ j = i + 2
        OBVIOUS
      <4> QED BY <3>1, <4>1
    <3> QED BY <1>1, <3>1, <3>2
  <2> QED BY <1>6, <2>1
<1> QED BY <1>6, <1>7

\* LiteralAt is within the row and ends at a run, the end or MaxRun.
LEMMA Literals ==
  ASSUME NEW s, Len(s) \in Nat, NEW i \in 1 .. Len(s)
  PROVE  LET n == LiteralAt(s, i)
         IN  /\ n \in 1 .. MaxRun /\ i + n - 1 <= Len(s)
             /\ n = MaxRun \/ i + n = Len(s) + 1 \/ (i + n <= Len(s) /\ LooksLikeRun(s, i + n))
<1> DEFINE W == {n \in 1 .. MaxRun : n = MaxRun \/ i + n > Len(s) \/ LooksLikeRun(s, i + n)}
           n == LiteralAt(s, i)
<1>1. MaxRun \in Nat /\ MaxRun >= 3
  BY PictAssumption
<1>2. MaxRun \in W /\ W \subseteq Nat
  BY <1>1
<1>3. n \in W /\ \A y \in W : n <= y
  <2> HIDE DEF W
  <2>1. \E x \in W : \A y \in W : x <= y
    BY <1>2, Least
  <2>2. LiteralAt(s, i) = CHOOSE x \in W : \A y \in W : x <= y
    BY DEF LiteralAt, Min, W
  <2> QED BY <2>1, <2>2
<1> HIDE DEF n
<1>4. n \in 1 .. MaxRun /\ n <= Len(s) + 1 - i
  <2>1. CASE Len(s) + 1 - i <= MaxRun
    <3>1. Len(s) + 1 - i \in W
      BY <2>1
    <3> QED BY <1>3, <3>1
  <2>2. CASE Len(s) + 1 - i > MaxRun
    BY <1>1, <1>3, <2>2
  <2> QED BY <2>1, <2>2, <1>1
<1>5. n = MaxRun \/ i + n = Len(s) + 1 \/ (i + n <= Len(s) /\ LooksLikeRun(s, i + n))
  BY <1>3, <1>4
<1> QED BY <1>4, <1>5 DEF n

\* The recursion of PackBits, as a relation.
Packs(f, s) ==
  f = [i \in 1 .. Len(s) + 1 |->
         CASE i > Len(s) -> <<>>
           [] i <= Len(s) /\ RunAt(s, i) >= 3 ->
                <<RunCount(RunAt(s, i)), s[i]>> \o f[i + RunAt(s, i)]
           [] OTHER ->
                <<LiteralAt(s, i) - 1>> \o SubSeq(s, i, i + LiteralAt(s, i) - 1)
                  \o f[i + LiteralAt(s, i)]]

Packed(s) == CHOOSE f : Packs(f, s)

\* PackBits is its recursion from the first byte on.
LEMMA PackBitsIs ==
  ASSUME NEW s
  PROVE  PackBits(s) = Packed(s)[1]
BY DEF PackBits, Packed, Packs

\* The recursion of PackBits has a solution.
LEMMA PacksExists ==
  ASSUME NEW s, Len(s) \in Nat
  PROVE  \E f : Packs(f, s)
<1> DEFINE N == Len(s) + 1
           head == [i \in 1 .. N |->
                      IF RunAt(s, i) >= 3 THEN <<RunCount(RunAt(s, i)), s[i]>>
                      ELSE <<LiteralAt(s, i) - 1>> \o SubSeq(s, i, i + LiteralAt(s, i) - 1)]
           next == [i \in 1 .. N |->
                      IF i > Len(s) THEN 0
                      ELSE IF RunAt(s, i) >= 3 THEN i + RunAt(s, i) ELSE i + LiteralAt(s, i)]
<1>1. ASSUME NEW i \in 1 .. N PROVE next[i] = 0 \/ next[i] \in i + 1 .. N
  <2>1. CASE i > Len(s)
    BY <2>1
  <2>2. CASE i <= Len(s)
    <3>1. i \in 1 .. Len(s)
      BY <2>2
    <3>2. RunAt(s, i) \in Nat /\ RunAt(s, i) >= 1 /\ i + RunAt(s, i) - 1 <= Len(s)
      BY <3>1, Runs, PictAssumption
    <3>3. LiteralAt(s, i) \in Nat /\ LiteralAt(s, i) >= 1 /\ i + LiteralAt(s, i) - 1 <= Len(s)
      BY <3>1, Literals, PictAssumption
    <3> QED BY <2>2, <3>2, <3>3
  <2> QED BY <2>1, <2>2
<1>2. PICK f : Chains(f, N, head, next)
  <2> HIDE DEF head, next
  <2> QED BY SMTT(40), <1>1, ChainsExists
<1>3. ASSUME NEW i \in 1 .. N
      PROVE  f[i] = CASE i > Len(s) -> <<>>
           [] i <= Len(s) /\ RunAt(s, i) >= 3 ->
                <<RunCount(RunAt(s, i)), s[i]>> \o f[i + RunAt(s, i)]
           [] OTHER ->
                <<LiteralAt(s, i) - 1>> \o SubSeq(s, i, i + LiteralAt(s, i) - 1)
                  \o f[i + LiteralAt(s, i)]
  <2>1. f[i] = IF next[i] = 0 THEN <<>> ELSE head[i] \o f[next[i]]
    <3> HIDE DEF head, next
    <3> QED BY <1>2 DEF Chains
  <2>2. CASE i > Len(s)
    BY <2>1, <2>2
  <2>3. CASE i <= Len(s) /\ RunAt(s, i) >= 3
    <3>1. next[i] = i + RunAt(s, i) /\ head[i] = <<RunCount(RunAt(s, i)), s[i]>>
      BY <2>3
    <3>2. next[i] # 0
      BY <2>3, <3>1, Runs, PictAssumption
    <3> HIDE DEF head, next
    <3> QED BY <2>1, <2>3, <3>1, <3>2
  <2>4. CASE i <= Len(s) /\ ~(RunAt(s, i) >= 3)
    <3>1. next[i] = i + LiteralAt(s, i)
      BY <2>4
    <3>2. head[i] = <<LiteralAt(s, i) - 1>> \o SubSeq(s, i, i + LiteralAt(s, i) - 1)
      BY <2>4, Zenon
    <3>3. i \in 1 .. Len(s)
      BY <2>4
    <3>4. LiteralAt(s, i) \in 1 .. MaxRun
      BY <3>3, Literals
    <3>5. next[i] # 0
      BY SMTT(40), <3>1, <3>3, <3>4, PictAssumption
    <3> HIDE DEF head, next
    <3>6. f[i] = head[i] \o f[i + LiteralAt(s, i)]
      BY <2>1, <3>1, <3>5
    <3>7. i <= Len(s) /\ ~(i > Len(s)) /\ ~(RunAt(s, i) >= 3)
      BY <2>4, <3>3
    <3>8. f[i] = <<LiteralAt(s, i) - 1>> \o SubSeq(s, i, i + LiteralAt(s, i) - 1)
                   \o f[i + LiteralAt(s, i)]
      BY <3>2, <3>6, Zenon
    <3> QED BY ONLY <3>7, <3>8, Zenon
  <2> QED BY <2>2, <2>3, <2>4
<1>4. f = [i \in 1 .. N |-> f[i]]
  <2> HIDE DEF head, next
  <2> QED BY <1>2 DEF Chains
<1>5. Packs(f, s)
  BY <1>3, <1>4 DEF Packs
<1> QED BY <1>5

\* So Packed satisfies its equation.
LEMMA PackedAt ==
  ASSUME NEW s, Len(s) \in Nat, NEW i \in 1 .. Len(s) + 1
  PROVE  Packed(s)[i] =
           CASE i > Len(s) -> <<>>
             [] i <= Len(s) /\ RunAt(s, i) >= 3 ->
                  <<RunCount(RunAt(s, i)), s[i]>> \o Packed(s)[i + RunAt(s, i)]
             [] OTHER ->
                  <<LiteralAt(s, i) - 1>> \o SubSeq(s, i, i + LiteralAt(s, i) - 1)
                    \o Packed(s)[i + LiteralAt(s, i)]
<1>1. Packs(Packed(s), s)
  BY PacksExists DEF Packed
<1> QED BY <1>1 DEF Packs

\* What comes of it at the end, at a run and elsewhere.
LEMMA PackedEnd ==
  ASSUME NEW s, Len(s) \in Nat
  PROVE  Packed(s)[Len(s) + 1] = <<>>
<1> DEFINE i == Len(s) + 1
           a == <<RunCount(RunAt(s, i)), s[i]>> \o Packed(s)[i + RunAt(s, i)]
           b == <<LiteralAt(s, i) - 1>> \o SubSeq(s, i, i + LiteralAt(s, i) - 1)
                  \o Packed(s)[i + LiteralAt(s, i)]
<1>1. i \in 1 .. Len(s) + 1 /\ i > Len(s) /\ ~(i <= Len(s))
  OBVIOUS
<1> HIDE DEF i
<1>2. Packed(s)[i] = CASE i > Len(s) -> <<>> [] i <= Len(s) /\ RunAt(s, i) >= 3 -> a [] OTHER -> b
  BY <1>1, PackedAt
<1>3. Packed(s)[i] = <<>>
  <2> HIDE DEF a, b
  <2> QED BY <1>1, <1>2
<1> QED BY <1>3 DEF i

\* Where a run starts, two bytes and what follows the run.
LEMMA PackedRun ==
  ASSUME NEW s, Len(s) \in Nat, NEW i \in 1 .. Len(s), RunAt(s, i) >= 3
  PROVE  Packed(s)[i] = <<RunCount(RunAt(s, i)), s[i]>> \o Packed(s)[i + RunAt(s, i)]
<1>1. i \in 1 .. Len(s) + 1 /\ i <= Len(s) /\ ~(i > Len(s))
  OBVIOUS
<1> QED BY <1>1, PackedAt

\* Elsewhere the literal, its count before it, and what follows.
LEMMA PackedLiteral ==
  ASSUME NEW s, Len(s) \in Nat, NEW i \in 1 .. Len(s), ~(RunAt(s, i) >= 3)
  PROVE  Packed(s)[i] = (<<LiteralAt(s, i) - 1>> \o SubSeq(s, i, i + LiteralAt(s, i) - 1))
                          \o Packed(s)[i + LiteralAt(s, i)]
<1>1. i \in 1 .. Len(s) + 1 /\ ~(i > Len(s))
  OBVIOUS
<1> DEFINE a == <<RunCount(RunAt(s, i)), s[i]>> \o Packed(s)[i + RunAt(s, i)]
           b == <<LiteralAt(s, i) - 1>> \o SubSeq(s, i, i + LiteralAt(s, i) - 1)
                  \o Packed(s)[i + LiteralAt(s, i)]
<1>2. Packed(s)[i] = CASE i > Len(s) -> <<>> [] i <= Len(s) /\ RunAt(s, i) >= 3 -> a [] OTHER -> b
  BY <1>1, PackedAt
<1>3. Packed(s)[i] = b
  <2> HIDE DEF a, b
  <2> QED BY <1>1, <1>2
<1> QED BY <1>3

\* The recursion of UnpackBits, as a relation.
Unpacks(f, s) ==
  f = [i \in 1 .. Len(s) + 1 |->
         IF i <= Len(s) /\ s[i] < MaxRun /\ i + s[i] + 1 <= Len(s)
         THEN SubSeq(s, i + 1, i + s[i] + 1) \o f[i + s[i] + 2]
         ELSE IF i < Len(s) /\ s[i] > MaxRun
         THEN Times(CountMod + 1 - s[i], s[i + 1]) \o f[i + 2]
         ELSE <<>>]

Unpacked(s) == CHOOSE f : Unpacks(f, s)

\* UnpackBits is its recursion from the first byte on.
LEMMA UnpackBitsIs ==
  ASSUME NEW s
  PROVE  UnpackBits(s) = Unpacked(s)[1]
BY DEF UnpackBits, Unpacked, Unpacks

\* The recursion of UnpackBits has a solution.
LEMMA UnpacksExists ==
  ASSUME NEW s, Len(s) \in Nat, \A i \in 1 .. Len(s) : s[i] \in Nat
  PROVE  \E f : Unpacks(f, s)
<1> DEFINE N == Len(s) + 1
           copied(i) == SubSeq(s, i + 1, i + s[i] + 1)
           run(i) == Times(CountMod + 1 - s[i], s[i + 1])
           A(i) == i <= Len(s) /\ s[i] < MaxRun /\ i + s[i] + 1 <= Len(s)
           B(i) == i < Len(s) /\ s[i] > MaxRun
           head == [i \in 1 .. N |-> IF A(i) THEN copied(i) ELSE run(i)]
           next == [i \in 1 .. N |-> IF A(i) THEN i + s[i] + 2 ELSE IF B(i) THEN i + 2 ELSE 0]
<1>0. MaxRun \in Nat
  BY PictAssumption
<1>1. ASSUME NEW i \in 1 .. N PROVE next[i] = 0 \/ next[i] \in i + 1 .. N
  <2>1. CASE A(i)
    <3>1. s[i] \in Nat /\ i <= Len(s)
      BY <2>1
    <3>2. i + s[i] + 2 \in i + 1 .. N
      BY <2>1, <3>1
    <3> HIDE DEF A, B
    <3> QED BY <2>1, <3>2
  <2>2. CASE ~A(i) /\ B(i)
    <3>1. i + 2 \in i + 1 .. N
      BY <2>2
    <3> HIDE DEF A, B
    <3> QED BY <2>2, <3>1
  <2>3. CASE ~A(i) /\ ~B(i)
    <3> HIDE DEF A, B
    <3> QED BY <2>3
  <2> QED BY <2>1, <2>2, <2>3
<1>2. PICK f : Chains(f, N, head, next)
  <2>1. N \in Nat
    OBVIOUS
  <2> HIDE DEF head, next, N
  <2> QED BY <1>1, <2>1, ChainsExists
<1>3. ASSUME NEW i \in 1 .. N
      PROVE  f[i] = IF A(i) THEN copied(i) \o f[i + s[i] + 2]
                    ELSE IF B(i) THEN run(i) \o f[i + 2] ELSE <<>>
  <2>1. f[i] = IF next[i] = 0 THEN <<>> ELSE head[i] \o f[next[i]]
    <3> HIDE DEF head, next
    <3> QED BY <1>2 DEF Chains
  <2>2. CASE A(i)
    <3>0. s[i] \in Nat /\ i + s[i] + 2 # 0
      BY <2>2
    <3> HIDE DEF A, B, copied, run
    <3>1. next[i] = i + s[i] + 2 /\ head[i] = copied(i)
      BY <2>2
    <3> HIDE DEF head, next
    <3> QED BY <2>1, <2>2, <3>0, <3>1
  <2>3. CASE ~A(i) /\ B(i)
    <3> HIDE DEF A, B, copied, run
    <3>1. next[i] = i + 2 /\ head[i] = run(i) /\ i + 2 # 0
      BY <2>3
    <3> HIDE DEF head, next
    <3> QED BY <2>1, <2>3, <3>1
  <2>4. CASE ~A(i) /\ ~B(i)
    <3> HIDE DEF head, A, B, copied, run
    <3> QED BY <2>1, <2>4
  <2> QED BY <2>2, <2>3, <2>4
<1>4. f = [i \in 1 .. N |-> f[i]]
  <2> HIDE DEF head, next
  <2> QED BY <1>2 DEF Chains
<1>5. Unpacks(f, s)
  BY <1>3, <1>4 DEF Unpacks
<1> QED BY <1>5

\* What comes of it at the end, at a literal and at a run.
LEMMA UnpackedAt ==
  ASSUME NEW s, Len(s) \in Nat, \A i \in 1 .. Len(s) : s[i] \in Nat, NEW i \in 1 .. Len(s) + 1
  PROVE  Unpacked(s)[i] =
           IF i <= Len(s) /\ s[i] < MaxRun /\ i + s[i] + 1 <= Len(s)
           THEN SubSeq(s, i + 1, i + s[i] + 1) \o Unpacked(s)[i + s[i] + 2]
           ELSE IF i < Len(s) /\ s[i] > MaxRun
           THEN Times(CountMod + 1 - s[i], s[i + 1]) \o Unpacked(s)[i + 2]
           ELSE <<>>
<1>1. Unpacks(Unpacked(s), s)
  BY UnpacksExists DEF Unpacked
<1> QED BY <1>1 DEF Unpacks

\* At the end nothing is left.
LEMMA UnpackedEnd ==
  ASSUME NEW s, Len(s) \in Nat, \A i \in 1 .. Len(s) : s[i] \in Nat
  PROVE  Unpacked(s)[Len(s) + 1] = <<>>
<1> DEFINE i == Len(s) + 1
<1>1. i \in 1 .. Len(s) + 1 /\ ~(i <= Len(s)) /\ ~(i < Len(s))
  OBVIOUS
<1> HIDE DEF i
<1>2. Unpacked(s)[i] = <<>>
  BY <1>1, UnpackedAt
<1> QED BY <1>2 DEF i

\* A count below MaxRun copies what follows it.
LEMMA UnpackedLiteral ==
  ASSUME NEW s, Len(s) \in Nat, \A i \in 1 .. Len(s) : s[i] \in Nat, NEW i \in 1 .. Len(s),
         s[i] < MaxRun, i + s[i] + 1 <= Len(s)
  PROVE  Unpacked(s)[i] = SubSeq(s, i + 1, i + s[i] + 1) \o Unpacked(s)[i + s[i] + 2]
<1>1. i \in 1 .. Len(s) + 1 /\ i <= Len(s)
  OBVIOUS
<1> QED BY <1>1, UnpackedAt

\* A count above MaxRun repeats the byte after it.
LEMMA UnpackedRun ==
  ASSUME NEW s, Len(s) \in Nat, \A i \in 1 .. Len(s) : s[i] \in Nat, NEW i \in 1 .. Len(s),
         s[i] > MaxRun, i < Len(s)
  PROVE  Unpacked(s)[i] = Times(CountMod + 1 - s[i], s[i + 1]) \o Unpacked(s)[i + 2]
<1>1. i \in 1 .. Len(s) + 1
  OBVIOUS
<1>2. MaxRun \in Nat /\ ~(s[i] < MaxRun)
  BY SMTT(40), PictAssumption
<1> QED BY <1>1, <1>2, UnpackedAt

\* One sequence after another.
LEMMA NatConcat ==
  ASSUME NEW a \in Seq(Nat), NEW b \in Seq(Nat)
  PROVE  /\ a \o b \in Seq(Nat) /\ Len(a \o b) = Len(a) + Len(b)
         /\ \A k \in 1 .. Len(a) + Len(b) :
              (a \o b)[k] = IF k <= Len(a) THEN a[k] ELSE b[k - Len(a)]
BY ConcatProperties

\* A part of a sequence.
LEMMA NatSubSeq ==
  ASSUME NEW s \in Seq(Nat), NEW i \in Nat \ {0}, NEW n \in Nat, i + n <= Len(s) + 1
  PROVE  /\ SubSeq(s, i, i + n - 1) \in Seq(Nat) /\ Len(SubSeq(s, i, i + n - 1)) = n
         /\ \A k \in 1 .. n : SubSeq(s, i, i + n - 1)[k] = s[i + k - 1]
<1> DEFINE j == i + n - 1
<1>1. i \in Int /\ j \in Int /\ j - i + 1 = n /\ (n > 0 <=> i <= j)
      /\ \A k \in i .. j : k \in 1 .. Len(s)
  OBVIOUS
<1> HIDE DEF j
<1>2. \A k \in i .. j : s[k] \in Nat
  BY <1>1
<1>3. /\ SubSeq(s, i, j) \in Seq(Nat) /\ Len(SubSeq(s, i, j)) = IF i <= j THEN j - i + 1 ELSE 0
      /\ \A k \in 1 .. j - i + 1 : SubSeq(s, i, j)[k] = s[i + k - 1]
  BY <1>1, <1>2, SubSeqProperties
<1> QED BY <1>1, <1>3 DEF j

\* What is left of a row from i on.
Rest(s, i) == [k \in 1 .. Len(s) + 1 - i |-> s[i + k - 1]]

\* The rest of a row is a sequence of the bytes that are left.
LEMMA RestType ==
  ASSUME NEW s \in Seq(Nat), NEW i \in 1 .. Len(s) + 1
  PROVE  Rest(s, i) \in Seq(Nat) /\ Len(Rest(s, i)) = Len(s) + 1 - i
<1> DEFINE n == Len(s) + 1 - i
<1>1. n \in Nat /\ \A k \in 1 .. n : i + k - 1 \in 1 .. Len(s)
  OBVIOUS
<1>2. Rest(s, i) \in [1 .. n -> Nat]
  BY <1>1 DEF Rest
<1> HIDE DEF n
<1>3. Rest(s, i) \in Seq(Nat) /\ Len(Rest(s, i)) = n
  <2>1. Rest(s, i) \in Seq(Nat)
    BY <1>1, <1>2, SeqDef
  <2> QED BY <1>1, <1>2, <2>1, LenProperties
<1> QED BY <1>3 DEF n

\* It is its first bytes and the rest after them.
LEMMA RestSplit ==
  ASSUME NEW s \in Seq(Nat), NEW i \in 1 .. Len(s), NEW n \in 1 .. Len(s) + 1 - i,
         NEW h \in Seq(Nat), Len(h) = n, \A k \in 1 .. n : h[k] = s[i + k - 1]
  PROVE  h \o Rest(s, i + n) = Rest(s, i)
<1>0. Len(s) \in Nat /\ i + n \in 1 .. Len(s) + 1 /\ i \in 1 .. Len(s) + 1 /\ n \in Nat
  OBVIOUS
<1>1. Rest(s, i + n) \in Seq(Nat) /\ Len(Rest(s, i + n)) = Len(s) + 1 - (i + n)
  BY <1>0, RestType
<1>2. Rest(s, i) \in Seq(Nat) /\ Len(Rest(s, i)) = Len(s) + 1 - i
  BY <1>0, RestType
<1> DEFINE g == Rest(s, i + n)
           a == h \o g
           b == Rest(s, i)
<1>3. a \in Seq(Nat) /\ Len(a) = Len(s) + 1 - i
      /\ \A k \in 1 .. Len(a) : a[k] = IF k <= n THEN h[k] ELSE g[k - n]
  <2> HIDE DEF g
  <2>1. a \in Seq(Nat) /\ Len(a) = Len(h) + Len(g)
        /\ \A k \in 1 .. Len(h) + Len(g) : a[k] = IF k <= Len(h) THEN h[k] ELSE g[k - Len(h)]
    <3>1. g \in Seq(Nat)
      BY <1>1 DEF g
    <3> QED BY <3>1, NatConcat
  <2>2. Len(g) = Len(s) + 1 - (i + n)
    BY <1>1 DEF g
  <2>3. Len(h) + Len(g) = Len(s) + 1 - i
    BY <1>0, <2>2
  <2> HIDE DEF a
  <2> QED BY <2>1, <2>3
<1>4. ASSUME NEW k \in 1 .. Len(a) PROVE a[k] = b[k]
  <2> HIDE DEF a, g
  <2>1. k \in 1 .. Len(s) + 1 - i
    BY <1>3
  <2>2. b[k] = s[i + k - 1]
    BY <2>1 DEF Rest
  <2>3. CASE k <= n
    <3>1. k \in 1 .. n
      BY <2>1, <2>3
    <3>2. a[k] = h[k]
      BY <1>3, <2>3
    <3> QED BY <2>2, <3>1, <3>2
  <2>4. CASE ~(k <= n)
    <3>1. k - n \in 1 .. Len(s) + 1 - (i + n)
      BY <1>0, <2>1, <2>4
    <3>2. g[k - n] = s[(i + n) + (k - n) - 1]
      BY <3>1 DEF g, Rest
    <3>3. (i + n) + (k - n) - 1 = i + k - 1
      BY <1>0, <2>1
    <3> QED BY <1>3, <2>2, <2>4, <3>2, <3>3
  <2> QED BY <2>3, <2>4
<1> HIDE DEF a, b
<1>5. a = b
  BY <1>2, <1>3, <1>4, SeqEqual DEF b
<1> QED BY <1>5 DEF a, b, g

\* t ends with f, which starts at p.
EndsWith(t, p, f) ==
  p - 1 + Len(f) = Len(t) /\ \A k \in 1 .. Len(f) : t[p - 1 + k] = f[k]

\* f is h and then g.
Joins(f, h, g) == f = h \o g

\* What joins two sequences is as long as both.
LEMMA JoinsLen ==
  ASSUME NEW h \in Seq(Nat), NEW g \in Seq(Nat), NEW f, Joins(f, h, g)
  PROVE  f \in Seq(Nat) /\ Len(f) = Len(h) + Len(g)
BY ConcatProperties DEF Joins

\* A file that ends with two sequences has the first at its place, and ends
\* with the second.
LEMMA EndSplit ==
  ASSUME NEW t, NEW p \in Nat, NEW h \in Seq(Nat), NEW g \in Seq(Nat),
         NEW f, Joins(f, h, g), EndsWith(t, p, f)
  PROVE  /\ EndsWith(t, p + Len(h), g)
         /\ p - 1 + (Len(h) + Len(g)) = Len(t)
         /\ \A k \in 1 .. Len(h) : t[p - 1 + k] = h[k]
<1> DEFINE n == Len(h)
           m == Len(g)
<1>1. n \in Nat /\ m \in Nat /\ Len(f) = n + m
      /\ \A k \in 1 .. n + m : f[k] = IF k <= n THEN h[k] ELSE g[k - n]
  BY ConcatProperties DEF Joins
<1> HIDE DEF n, m
<1>2. p - 1 + (n + m) = Len(t) /\ \A k \in 1 .. n + m : t[p - 1 + k] = f[k]
  BY <1>1 DEF EndsWith
<1>3. \A k \in 1 .. n : t[p - 1 + k] = h[k]
  <2> SUFFICES ASSUME NEW k \in 1 .. n PROVE t[p - 1 + k] = h[k]
    OBVIOUS
  <2>1. k \in 1 .. n + m /\ k <= n
    BY <1>1
  <2> QED BY <1>1, <1>2, <2>1
<1>4. \A k \in 1 .. m : t[p + n - 1 + k] = g[k]
  <2> SUFFICES ASSUME NEW k \in 1 .. m PROVE t[p + n - 1 + k] = g[k]
    OBVIOUS
  <2>1. n + k \in 1 .. n + m /\ ~(n + k <= n) /\ n + k - n = k /\ p - 1 + (n + k) = p + n - 1 + k
    BY <1>1
  <2>2. f[n + k] = g[k]
    BY <1>1, <2>1
  <2>3. t[p - 1 + (n + k)] = f[n + k]
    BY <1>2, <2>1
  <2> QED BY <2>1, <2>2, <2>3
<1>5. p + n - 1 + m = Len(t)
  BY <1>1, <1>2
<1> QED BY <1>2, <1>3, <1>4, <1>5 DEF EndsWith, n, m

\* The count of a run is that of no literal and gives the run back.
LEMMA RunCounts ==
  ASSUME NEW n \in Nat, n >= 3, n <= MaxRun
  PROVE  /\ RunCount(n) \in Nat /\ RunCount(n) > MaxRun /\ RunCount(n) < CountMod
         /\ CountMod + 1 - RunCount(n) = n
BY PictAssumption DEF RunCount

\* Packing gives numbers.
LEMMA PackedType ==
  ASSUME NEW s \in Seq(Nat), NEW i \in 1 .. Len(s) + 1
  PROVE  Packed(s)[i] \in Seq(Nat)
<1> DEFINE P(m) == \A j \in 1 .. Len(s) + 1 : Len(s) + 1 - j <= m => Packed(s)[j] \in Seq(Nat)
           G == {m \in Nat : P(m)}
<1>0. Len(s) \in Nat
  OBVIOUS
<1>1. 0 \in G
  <2>1. ASSUME NEW j \in 1 .. Len(s) + 1, Len(s) + 1 - j <= 0 PROVE Packed(s)[j] \in Seq(Nat)
    <3>1. j = Len(s) + 1
      BY <1>0, <2>1
    <3> QED BY <1>0, <3>1, PackedEnd, EmptySeq
  <2> QED BY <2>1
<1>2. ASSUME NEW m \in Nat, m \in G PROVE m + 1 \in G
  <2>0. P(m)
    BY <1>2
  <2>1. ASSUME NEW j \in 1 .. Len(s) + 1, Len(s) + 1 - j <= m + 1
        PROVE  Packed(s)[j] \in Seq(Nat)
    <3>1. CASE j = Len(s) + 1
      BY <1>0, <3>1, PackedEnd, EmptySeq
    <3>2. CASE j # Len(s) + 1 /\ RunAt(s, j) >= 3
      <4> DEFINE n == RunAt(s, j)
      <4>1. j \in 1 .. Len(s)
        BY <1>0, <3>2
      <4>2. n \in 1 .. MaxRun /\ j + n - 1 <= Len(s)
        BY <1>0, <4>1, Runs
      <4>3. n \in Nat /\ n >= 3 /\ n <= MaxRun
        BY <3>2, <4>2, PictAssumption
      <4>4. RunCount(n) \in Nat /\ s[j] \in Nat
        BY <4>1, <4>3, RunCounts
      <4>5. Packed(s)[j + n] \in Seq(Nat)
        <5>1. j + n \in 1 .. Len(s) + 1 /\ Len(s) + 1 - (j + n) <= m
          BY SMTT(40), <1>0, <2>1, <4>1, <4>2, <4>3
        <5> HIDE DEF n
        <5> QED BY <2>0, <5>1
      <4>6. Packed(s)[j] = <<RunCount(n), s[j]>> \o Packed(s)[j + n]
        BY <1>0, <3>2, <4>1, PackedRun
      <4> HIDE DEF n
      <4>7. <<RunCount(n), s[j]>> \in Seq(Nat)
        BY <4>4
      <4> QED BY <4>5, <4>6, <4>7, ConcatProperties
    <3>3. CASE j # Len(s) + 1 /\ ~(RunAt(s, j) >= 3)
      <4> DEFINE n == LiteralAt(s, j)
      <4>1. j \in 1 .. Len(s)
        BY <1>0, <3>3
      <4>2. n \in 1 .. MaxRun /\ j + n - 1 <= Len(s)
        BY <1>0, <4>1, Literals
      <4>3. n \in Nat /\ n >= 1
        BY <4>2, PictAssumption
      <4>5. Packed(s)[j + n] \in Seq(Nat)
        <5>1. j + n \in 1 .. Len(s) + 1 /\ Len(s) + 1 - (j + n) <= m
          BY <1>0, <2>1, <4>1, <4>2, <4>3
        <5> HIDE DEF n
        <5> QED BY <2>0, <5>1
      <4>6. Packed(s)[j] = (<<n - 1>> \o SubSeq(s, j, j + n - 1)) \o Packed(s)[j + n]
        BY <1>0, <3>3, <4>1, PackedLiteral
      <4> HIDE DEF n
      <4>7. <<n - 1>> \in Seq(Nat) /\ SubSeq(s, j, j + n - 1) \in Seq(Nat)
        <5>1. n - 1 \in Nat /\ j \in Nat \ {0} /\ j + n <= Len(s) + 1
          BY <1>0, <4>1, <4>2, <4>3
        <5> QED BY <4>3, <5>1, NatSubSeq
      <4>8. <<n - 1>> \o SubSeq(s, j, j + n - 1) \in Seq(Nat)
        BY <4>7, ConcatProperties
      <4> QED BY <4>5, <4>6, <4>8, ConcatProperties
    <3> QED BY <3>1, <3>2, <3>3
  <2> QED BY <2>1
<1>3. Len(s) + 1 - i \in G
  <2> HIDE DEF G
  <2>1. Nat \subseteq G
    BY <1>1, <1>2, SetInduction
  <2>2. Len(s) + 1 - i \in Nat
    BY <1>0
  <2> QED BY <2>1, <2>2
<1>4. P(Len(s) + 1 - i)
  BY <1>3
<1> QED BY <1>0, <1>4

\* Unpacking what packing left from i on gives the row from i on.
LEMMA UnpackFrom ==
  ASSUME NEW s \in Seq(Nat), NEW t \in Seq(Nat), NEW i \in 1 .. Len(s) + 1,
         NEW p \in Nat \ {0}, EndsWith(t, p, Packed(s)[i])
  PROVE  Unpacked(t)[p] = Rest(s, i)
<1> DEFINE P(m) == \A j \in 1 .. Len(s) + 1 : \A q \in Nat \ {0} :
                     Len(s) + 1 - j <= m /\ EndsWith(t, q, Packed(s)[j])
                       => Unpacked(t)[q] = Rest(s, j)
           G == {m \in Nat : P(m)}
<1>0. Len(s) \in Nat /\ Len(t) \in Nat /\ \A k \in 1 .. Len(t) : t[k] \in Nat
  OBVIOUS
<1>e. ASSUME NEW q \in Nat \ {0}, EndsWith(t, q, Packed(s)[Len(s) + 1])
      PROVE  Unpacked(t)[q] = Rest(s, Len(s) + 1)
  <2>1. Packed(s)[Len(s) + 1] = <<>> /\ Len(<<>>) = 0
    BY <1>0, PackedEnd
  <2>2. q = Len(t) + 1
    BY <1>0, <1>e, <2>1 DEF EndsWith
  <2>3. Unpacked(t)[q] = <<>>
    BY <1>0, <2>2, UnpackedEnd
  <2>4. Len(s) + 1 \in 1 .. Len(s) + 1 /\ Len(s) + 1 - (Len(s) + 1) = 0
    BY <1>0
  <2>5. Rest(s, Len(s) + 1) \in Seq(Nat) /\ Len(Rest(s, Len(s) + 1)) = 0
    BY <2>4, RestType
  <2> QED BY <2>3, <2>5, EmptySeq
<1>1. 0 \in G
  <2>1. ASSUME NEW j \in 1 .. Len(s) + 1, NEW q \in Nat \ {0},
               Len(s) + 1 - j <= 0, EndsWith(t, q, Packed(s)[j])
        PROVE  Unpacked(t)[q] = Rest(s, j)
    <3>1. j = Len(s) + 1
      BY <1>0, <2>1
    <3> QED BY <1>e, <2>1, <3>1
  <2> QED BY <2>1
<1>2. ASSUME NEW m \in Nat, m \in G PROVE m + 1 \in G
  <2>0. P(m)
    BY <1>2
  <2>1. ASSUME NEW j \in 1 .. Len(s) + 1, NEW q \in Nat \ {0},
               Len(s) + 1 - j <= m + 1, EndsWith(t, q, Packed(s)[j])
        PROVE  Unpacked(t)[q] = Rest(s, j)
    <3>1. CASE j = Len(s) + 1
      BY <1>e, <2>1, <3>1
    <3>2. CASE j # Len(s) + 1 /\ RunAt(s, j) >= 3
      <4> DEFINE n == RunAt(s, j)
                 c == RunCount(n)
      <4>1. j \in 1 .. Len(s)
        BY <1>0, <3>2
      <4>2. n \in 1 .. MaxRun /\ j + n - 1 <= Len(s) /\ \A k \in j .. j + n - 1 : s[k] = s[j]
        BY <1>0, <4>1, Runs
      <4>3. n \in Nat /\ n >= 3 /\ n <= MaxRun
        BY <3>2, <4>2, PictAssumption
      <4>4. c \in Nat /\ c > MaxRun /\ CountMod + 1 - c = n /\ s[j] \in Nat
        BY <4>1, <4>3, RunCounts
      <4>6. Packed(s)[j] = <<c, s[j]>> \o Packed(s)[j + n]
        BY <1>0, <3>2, <4>1, PackedRun
      <4> HIDE DEF n, c
      <4>5. j + n \in 1 .. Len(s) + 1 /\ Len(s) + 1 - (j + n) <= m /\ n \in 1 .. Len(s) + 1 - j
        BY <1>0, <2>1, <4>1, <4>2, <4>3
      <4>7. Packed(s)[j + n] \in Seq(Nat)
        BY <4>5, PackedType
      <4> DEFINE h == <<c, s[j]>>
      <4>8. h \in Seq(Nat) /\ Len(h) = 2 /\ h[1] = c /\ h[2] = s[j]
        BY <4>4
      <4> DEFINE g == Packed(s)[j + n]
      <4> DEFINE f == Packed(s)[j]
      <4>9. EndsWith(t, q, f) /\ f = h \o g /\ g \in Seq(Nat)
        BY <2>1, <4>6, <4>7
      <4> HIDE DEF h, g, f
      <4>10. /\ EndsWith(t, q + Len(h), g)
             /\ q - 1 + (Len(h) + Len(g)) = Len(t)
             /\ \A k \in 1 .. Len(h) : t[q - 1 + k] = h[k]
        <5>1. q \in Nat
          OBVIOUS
        <5>2. h \in Seq(Nat)
          BY <4>8, <4>9
        <5>3. g \in Seq(Nat)
          BY <4>8, <4>9
        <5>4. Joins(f, h, g)
          BY <4>8, <4>9 DEF Joins
        <5>5. EndsWith(t, q, f)
          BY <4>8, <4>9
        <5> QED BY <5>1, <5>2, <5>3, <5>4, <5>5, EndSplit
      <4>11. t[q] = c /\ t[q + 1] = s[j]
        <5>1. 1 \in 1 .. Len(h) /\ 2 \in 1 .. Len(h) /\ q - 1 + 1 = q /\ q - 1 + 2 = q + 1
          BY <4>8
        <5> QED BY <4>8, <4>10, <5>1
      <4>12. q \in 1 .. Len(t) /\ q < Len(t)
        <5>1. Len(g) \in Nat
          BY <4>9
        <5>2. q - 1 + (2 + Len(g)) = Len(t)
          BY <4>8, <4>10
        <5> QED BY <1>0, <5>1, <5>2
      <4>13. Unpacked(t)[q] = Times(n, s[j]) \o Unpacked(t)[q + 2]
        <5>1. t[q] > MaxRun /\ CountMod + 1 - t[q] = n
          BY <4>4, <4>11
        <5>2. Unpacked(t)[q] = Times(CountMod + 1 - t[q], t[q + 1]) \o Unpacked(t)[q + 2]
          BY <1>0, <4>12, <5>1, UnpackedRun
        <5> QED BY <4>11, <5>1, <5>2
      <4>14. Unpacked(t)[q + 2] = Rest(s, j + n)
        <5>1. q + 2 \in Nat \ {0} /\ EndsWith(t, q + 2, Packed(s)[j + n])
          <6>1. q + 2 \in Nat \ {0}
            OBVIOUS
          <6>2. EndsWith(t, q + 2, g)
            BY <4>8, <4>10
          <6> QED BY <6>1, <6>2 DEF g
        <5> QED BY <2>0, <4>5, <5>1
      <4> DEFINE r == Times(n, s[j])
      <4>15. r \in Seq(Nat) /\ Len(r) = n /\ \A k \in 1 .. n : r[k] = s[j + k - 1]
        <5>1. r \in [1 .. n -> Nat] /\ \A k \in 1 .. n : r[k] = s[j]
          BY <4>4 DEF Times
        <5> HIDE DEF r
        <5>2. r \in Seq(Nat)
          BY <4>3, <5>1, SeqDef
        <5>3. Len(r) = n
          BY <4>3, <5>1, <5>2, LenProperties
        <5>4. ASSUME NEW k \in 1 .. n PROVE s[j + k - 1] = s[j]
          <6>1. j + k - 1 \in j .. j + n - 1
            BY <4>1, <4>3
          <6> QED BY <4>2, <6>1
        <5> QED BY <5>1, <5>2, <5>3, <5>4
      <4> HIDE DEF r
      <4>16. r \o Rest(s, j + n) = Rest(s, j)
        BY <4>1, <4>5, <4>15, RestSplit
      <4> QED BY <4>13, <4>14, <4>16 DEF r
    <3>3. CASE j # Len(s) + 1 /\ ~(RunAt(s, j) >= 3)
      <4> DEFINE n == LiteralAt(s, j)
      <4>1. j \in 1 .. Len(s)
        BY <1>0, <3>3
      <4>2. n \in 1 .. MaxRun /\ j + n - 1 <= Len(s)
        BY <1>0, <4>1, Literals
      <4>3. n \in Nat /\ n >= 1 /\ n - 1 \in Nat /\ n - 1 < MaxRun
        <5> HIDE DEF n
        <5> QED BY SMTT(40), <4>2, PictAssumption
      <4>6. Packed(s)[j] = (<<n - 1>> \o SubSeq(s, j, j + n - 1)) \o Packed(s)[j + n]
        BY <1>0, <3>3, <4>1, PackedLiteral
      <4> HIDE DEF n
      <4>5. j + n \in 1 .. Len(s) + 1 /\ Len(s) + 1 - (j + n) <= m /\ n \in 1 .. Len(s) + 1 - j
        BY <1>0, <2>1, <4>1, <4>2, <4>3
      <4>7. Packed(s)[j + n] \in Seq(Nat)
        BY <4>5, PackedType
      <4> DEFINE g == Packed(s)[j + n]
                 o == <<n - 1>>
                 a == SubSeq(s, j, j + n - 1)
                 h == o \o a
      <4>8. o \in Seq(Nat) /\ Len(o) = 1 /\ o[1] = n - 1
        BY <4>3
      <4>9. a \in Seq(Nat) /\ Len(a) = n /\ \A k \in 1 .. n : a[k] = s[j + k - 1]
        <5>1. j \in Nat \ {0} /\ j + n <= Len(s) + 1
          BY <1>0, <4>1, <4>2, <4>3
        <5> QED BY <4>3, <5>1, NatSubSeq
      <4> HIDE DEF g, o, a
      <4>10. h \in Seq(Nat) /\ Len(h) = n + 1 /\ h[1] = n - 1
             /\ \A k \in 1 .. n : h[k + 1] = s[j + k - 1]
        <5>1. /\ h \in Seq(Nat) /\ Len(h) = 1 + n
              /\ \A k \in 1 .. 1 + n : h[k] = IF k <= 1 THEN o[k] ELSE a[k - 1]
          <6>1. /\ h \in Seq(Nat) /\ Len(h) = Len(o) + Len(a)
                /\ \A k \in 1 .. Len(o) + Len(a) : h[k] = IF k <= Len(o) THEN o[k] ELSE a[k - Len(o)]
            BY <4>8, <4>9, NatConcat
          <6> HIDE DEF h
          <6> QED BY <4>8, <4>9, <6>1
        <5> HIDE DEF h
        <5>2. h[1] = n - 1
          BY <4>3, <4>8, <5>1
        <5>3. ASSUME NEW k \in 1 .. n PROVE h[k + 1] = s[j + k - 1]
          <6>1. k + 1 \in 1 .. 1 + n /\ ~(k + 1 <= 1) /\ k + 1 - 1 = k
            BY <4>3
          <6>2. h[k + 1] = a[k]
            BY <5>1, <6>1
          <6> QED BY <4>9, <6>2
        <5> QED BY <4>3, <5>1, <5>2, <5>3
      <4> DEFINE f == Packed(s)[j]
      <4>11. EndsWith(t, q, f) /\ f = h \o g /\ g \in Seq(Nat)
        BY <2>1, <4>6, <4>7 DEF g, o, a
      <4> HIDE DEF h, f
      <4>12. /\ EndsWith(t, q + Len(h), g)
             /\ q - 1 + (Len(h) + Len(g)) = Len(t)
             /\ \A k \in 1 .. Len(h) : t[q - 1 + k] = h[k]
        <5>1. q \in Nat
          OBVIOUS
        <5>2. h \in Seq(Nat)
          BY <4>10, <4>11
        <5>3. g \in Seq(Nat)
          BY <4>10, <4>11
        <5>4. Joins(f, h, g)
          BY <4>10, <4>11 DEF Joins
        <5>5. EndsWith(t, q, f)
          BY <4>10, <4>11
        <5> QED BY <5>1, <5>2, <5>3, <5>4, <5>5, EndSplit
      <4>13. /\ q \in 1 .. Len(t) /\ q + n <= Len(t)
             /\ t[q] = n - 1
             /\ \A k \in 1 .. n : t[q + k] = s[j + k - 1]
        <5>1. Len(g) \in Nat
          BY <4>11
        <5>2. q \in 1 .. Len(t) /\ q + n <= Len(t)
          <6>1. q - 1 + (n + 1 + Len(g)) = Len(t)
            BY <4>10, <4>12
          <6> QED BY <1>0, <4>3, <5>1, <6>1
        <5>3. t[q] = n - 1
          <6>1. 1 \in 1 .. Len(h) /\ q - 1 + 1 = q
            BY <4>3, <4>10
          <6> QED BY <4>10, <4>12, <6>1
        <5>4. ASSUME NEW k \in 1 .. n PROVE t[q + k] = s[j + k - 1]
          <6>1. k + 1 \in 1 .. Len(h) /\ q - 1 + (k + 1) = q + k
            BY <4>3, <4>10
          <6>2. t[q - 1 + (k + 1)] = h[k + 1]
            BY <4>12, <6>1
          <6>3. h[k + 1] = s[j + k - 1]
            BY <4>10
          <6> QED BY <6>1, <6>2, <6>3
        <5> QED BY <5>2, <5>3, <5>4
      <4> DEFINE b == SubSeq(t, q + 1, q + n)
      <4>14. b \in Seq(Nat) /\ Len(b) = n /\ \A k \in 1 .. n : b[k] = s[j + k - 1]
        <5>1. q + 1 \in Nat \ {0} /\ q + 1 + n <= Len(t) + 1 /\ q + 1 + n - 1 = q + n
          BY <1>0, <4>3, <4>13
        <5>2. b \in Seq(Nat) /\ Len(b) = n /\ \A k \in 1 .. n : b[k] = t[(q + 1) + k - 1]
          <6>1. /\ SubSeq(t, q + 1, q + 1 + n - 1) \in Seq(Nat)
                /\ Len(SubSeq(t, q + 1, q + 1 + n - 1)) = n
                /\ \A k \in 1 .. n : SubSeq(t, q + 1, q + 1 + n - 1)[k] = t[(q + 1) + k - 1]
            BY <4>3, <5>1, NatSubSeq
          <6> QED BY <5>1, <6>1
        <5> HIDE DEF b
        <5>3. ASSUME NEW k \in 1 .. n PROVE b[k] = s[j + k - 1]
          <6>1. (q + 1) + k - 1 = q + k
            BY <4>3
          <6>2. b[k] = t[(q + 1) + k - 1]
            BY <5>1, <5>2
          <6> QED BY <4>13, <6>1, <6>2
        <5> QED BY <5>1, <5>2, <5>3
      <4>15. Unpacked(t)[q] = b \o Unpacked(t)[q + n + 1]
        <5>1. t[q] < MaxRun /\ q + t[q] + 1 = q + n /\ q + t[q] + 2 = q + n + 1
          BY <4>3, <4>13
        <5>2. q + t[q] + 1 <= Len(t)
          BY <4>13, <5>1
        <5>3. Unpacked(t)[q] = SubSeq(t, q + 1, q + t[q] + 1) \o Unpacked(t)[q + t[q] + 2]
          BY <1>0, <4>13, <5>1, <5>2, UnpackedLiteral
        <5> QED BY <5>1, <5>3
      <4>16. Unpacked(t)[q + n + 1] = Rest(s, j + n)
        <5>1. q + n + 1 \in Nat \ {0} /\ q + Len(h) = q + n + 1
          BY <4>3, <4>10
        <5>2. EndsWith(t, q + n + 1, Packed(s)[j + n])
          BY <4>12, <5>1 DEF g
        <5> QED BY <2>0, <4>5, <5>1, <5>2
      <4> HIDE DEF b
      <4>17. b \o Rest(s, j + n) = Rest(s, j)
        BY <4>1, <4>5, <4>14, RestSplit
      <4> QED BY <4>15, <4>16, <4>17
    <3> QED BY <3>1, <3>2, <3>3
  <2> QED BY <2>1
<1>3. Len(s) + 1 - i \in G
  <2> HIDE DEF G
  <2>1. Nat \subseteq G
    BY <1>1, <1>2, SetInduction
  <2>2. Len(s) + 1 - i \in Nat
    BY <1>0
  <2> QED BY <2>1, <2>2
<1>4. P(Len(s) + 1 - i)
  BY <1>3
<1> QED BY <1>0, <1>4

\* Whatever a row of bytes is, a Mac that unpacks it has it again (pack_bits).
THEOREM PackBitsUnpacks ==
  ASSUME NEW s \in Seq(Nat)
  PROVE  UnpackBits(PackBits(s)) = s
<1> DEFINE t == Packed(s)[1]
<1>1. Len(s) \in Nat /\ 1 \in 1 .. Len(s) + 1
  OBVIOUS
<1>2. t \in Seq(Nat)
  BY <1>1, PackedType
<1>3. EndsWith(t, 1, t)
  <2> HIDE DEF t
  <2>1. Len(t) \in Nat /\ 1 - 1 + Len(t) = Len(t)
    BY <1>2
  <2>2. \A k \in 1 .. Len(t) : 1 - 1 + k = k
    OBVIOUS
  <2> QED BY <2>1, <2>2 DEF EndsWith
<1>4. Unpacked(t)[1] = Rest(s, 1)
  <2>1. EndsWith(t, 1, Packed(s)[1])
    BY <1>3
  <2> HIDE DEF t
  <2> QED BY <1>1, <1>2, <2>1, UnpackFrom
<1>5. Rest(s, 1) = s
  <2>1. Rest(s, 1) \in Seq(Nat) /\ Len(Rest(s, 1)) = Len(s)
    BY <1>1, RestType
  <2>2. ASSUME NEW k \in 1 .. Len(s) PROVE Rest(s, 1)[k] = s[k]
    BY <1>1 DEF Rest
  <2> QED BY <2>1, <2>2, SeqEqual
<1> QED BY <1>4, <1>5, PackBitsIs, UnpackBitsIs

\* A row grows by at most a byte for every MaxRun bytes of it, and a run that
\* follows a literal pays for the literal's count.
Grows(s, j, k) ==
  /\ Len(Packed(s)[j]) <= Len(s) + 1 - j + k
  /\ j <= Len(s) /\ LooksLikeRun(s, j) => Len(Packed(s)[j]) + 1 <= Len(s) + 1 - j + k

\* What is packed of k runs or less grows by at most k counts.
LEMMA PackedShort ==
  ASSUME NEW s \in Seq(Nat), NEW i \in 1 .. Len(s) + 1, NEW k0 \in Nat,
         Len(s) + 1 - i <= k0 * MaxRun
  PROVE  Grows(s, i, k0)
<1> DEFINE P(m) == \A j \in 1 .. Len(s) + 1 : \A k \in Nat :
                     Len(s) + 1 - j <= m /\ Len(s) + 1 - j <= k * MaxRun => Grows(s, j, k)
           G == {m \in Nat : P(m)}
<1>0. Len(s) \in Nat
  OBVIOUS
<1>m. MaxRun \in Nat /\ MaxRun >= 3
  BY PictAssumption
<1>e. ASSUME NEW k \in Nat PROVE Grows(s, Len(s) + 1, k)
  <2>1. Packed(s)[Len(s) + 1] = <<>> /\ Len(<<>>) = 0
    BY <1>0, PackedEnd
  <2> QED BY <1>0, <2>1 DEF Grows
<1>1. 0 \in G
  <2>1. ASSUME NEW j \in 1 .. Len(s) + 1, NEW k \in Nat, Len(s) + 1 - j <= 0
        PROVE  Grows(s, j, k)
    <3>1. j = Len(s) + 1
      BY <1>0, <2>1
    <3> QED BY <1>e, <3>1
  <2> QED BY <2>1
<1>2. ASSUME NEW m \in Nat, m \in G PROVE m + 1 \in G
  <2>0. P(m)
    BY <1>2
  <2>1. ASSUME NEW j \in 1 .. Len(s) + 1, NEW k \in Nat,
               Len(s) + 1 - j <= m + 1, Len(s) + 1 - j <= k * MaxRun
        PROVE  Grows(s, j, k)
    <3>1. CASE j = Len(s) + 1
      BY <1>e, <3>1
    <3>2. CASE j # Len(s) + 1 /\ RunAt(s, j) >= 3
      <4> DEFINE n == RunAt(s, j)
                 c == RunCount(n)
      <4>1. j \in 1 .. Len(s)
        BY <1>0, <3>2
      <4>2. n \in 1 .. MaxRun /\ j + n - 1 <= Len(s)
        BY <1>0, <4>1, Runs
      <4>3. n \in Nat /\ n >= 3 /\ n <= MaxRun
        BY SMTT(40), <3>2, <4>2, PictAssumption
      <4>4. c \in Nat /\ s[j] \in Nat
        BY <4>1, <4>3, RunCounts
      <4>5. Packed(s)[j] = <<c, s[j]>> \o Packed(s)[j + n]
        BY <1>0, <3>2, <4>1, PackedRun
      <4> HIDE DEF n, c
      <4>6. j + n \in 1 .. Len(s) + 1 /\ Len(s) + 1 - (j + n) <= m
        BY <1>0, <2>1, <4>1, <4>2, <4>3
      <4>7. Len(s) + 1 - (j + n) <= k * MaxRun
        <5>1. k * MaxRun \in Nat
          BY <1>m
        <5> QED BY <1>0, <2>1, <4>1, <4>3, <5>1
      <4>8. Grows(s, j + n, k)
        BY <2>0, <4>6, <4>7
      <4> DEFINE h == <<c, s[j]>>
                 g == Packed(s)[j + n]
      <4>9. h \in Seq(Nat) /\ Len(h) = 2 /\ g \in Seq(Nat)
        BY <4>4, <4>6, PackedType
      <4> HIDE DEF h, g
      <4>10. Joins(Packed(s)[j], h, g) /\ Len(g) \in Nat
        BY <4>5, <4>9 DEF Joins, h, g
      <4>11. Len(Packed(s)[j]) = 2 + Len(g)
        BY ZenonT(60), <4>9, <4>10, JoinsLen
      <4>12. Len(g) <= Len(s) + 1 - (j + n) + k
        BY <4>8 DEF Grows, g
      <4>13. Len(Packed(s)[j]) + 1 <= Len(s) + 1 - j + k
        BY <1>0, <4>1, <4>3, <4>10, <4>11, <4>12
      <4> QED BY <1>0, <4>1, <4>10, <4>11, <4>13 DEF Grows
    <3>3. CASE j # Len(s) + 1 /\ ~(RunAt(s, j) >= 3)
      <4> DEFINE n == LiteralAt(s, j)
      <4>1. j \in 1 .. Len(s)
        BY <1>0, <3>3
      <4>2. /\ n \in 1 .. MaxRun /\ j + n - 1 <= Len(s)
            /\ n = MaxRun \/ j + n = Len(s) + 1 \/ (j + n <= Len(s) /\ LooksLikeRun(s, j + n))
        BY <1>0, <4>1, Literals
      <4>3. ~LooksLikeRun(s, j)
        BY <1>0, <3>3, <4>1, Runs
      <4>4. Packed(s)[j] = (<<n - 1>> \o SubSeq(s, j, j + n - 1)) \o Packed(s)[j + n]
        BY <1>0, <3>3, <4>1, PackedLiteral
      <4> HIDE DEF n
      <4>5. n \in Nat /\ n >= 1 /\ n - 1 \in Nat
        BY <1>m, <4>2
      <4>6. j + n \in 1 .. Len(s) + 1 /\ Len(s) + 1 - (j + n) <= m /\ j \in Nat \ {0}
            /\ j + n <= Len(s) + 1
        BY <1>0, <2>1, <4>1, <4>2, <4>5
      <4> DEFINE o == <<n - 1>>
                 a == SubSeq(s, j, j + n - 1)
                 g == Packed(s)[j + n]
      <4>7. /\ o \in Seq(Nat) /\ Len(o) = 1
            /\ a \in Seq(Nat) /\ Len(a) = n
            /\ g \in Seq(Nat) /\ Len(g) \in Nat
        <5>1. a \in Seq(Nat) /\ Len(a) = n
          BY <4>5, <4>6, NatSubSeq
        <5>2. g \in Seq(Nat)
          BY <4>6, PackedType
        <5> HIDE DEF a, g
        <5> QED BY <4>5, <5>1, <5>2
      <4> HIDE DEF o, a, g
      <4> DEFINE h == o \o a
      <4>8. Joins(h, o, a)
        BY DEF Joins
      <4>9. Joins(Packed(s)[j], h, g)
        BY <4>4 DEF Joins, o, a, g
      <4> HIDE DEF h
      <4>10. h \in Seq(Nat) /\ Len(h) = 1 + n
        <5>1. o \in Seq(Nat) /\ a \in Seq(Nat)
          BY <4>7
        <5>2. h \in Seq(Nat) /\ Len(h) = Len(o) + Len(a)
          BY <4>8, <5>1, JoinsLen
        <5> QED BY <4>7, <5>2
      <4>11. Len(Packed(s)[j]) = 1 + n + Len(g)
        BY ZenonT(60), <4>7, <4>9, <4>10, JoinsLen
      <4>12. k >= 1
        <5>1. k = 0 => k * MaxRun = 0
          BY <1>m
        <5> QED BY <1>0, <2>1, <4>1, <5>1
      <4>13. k - 1 \in Nat /\ (k - 1) * MaxRun = k * MaxRun - MaxRun /\ k * MaxRun \in Nat
        BY <1>m, <4>12
      <4>14. 1 + n + Len(g) <= Len(s) + 1 - j + k
        <5>1. CASE n = MaxRun
          <6>1. Len(s) + 1 - (j + n) <= (k - 1) * MaxRun
            BY <1>0, <1>m, <2>1, <4>1, <4>13, <5>1
          <6>2. Grows(s, j + n, k - 1)
            BY <2>0, <4>6, <4>13, <6>1
          <6>3. Len(g) <= Len(s) + 1 - (j + n) + (k - 1)
            BY <6>2 DEF Grows, g
          <6> QED BY <1>0, <4>1, <4>5, <4>7, <6>3
        <5>2. CASE j + n = Len(s) + 1
          <6>1. Len(g) = 0
            BY <1>0, <5>2, PackedEnd DEF g
          <6> QED BY <1>0, <4>1, <4>5, <4>12, <5>2, <6>1
        <5>3. CASE j + n <= Len(s) /\ LooksLikeRun(s, j + n)
          <6>1. Len(s) + 1 - (j + n) <= k * MaxRun
            BY <1>0, <1>m, <2>1, <4>1, <4>5, <4>13
          <6>2. Grows(s, j + n, k)
            BY <2>0, <4>6, <6>1
          <6>3. Len(g) + 1 <= Len(s) + 1 - (j + n) + k
            BY <5>3, <6>2 DEF Grows, g
          <6> QED BY <1>0, <4>1, <4>5, <4>7, <6>3
        <5> QED BY <4>2, <5>1, <5>2, <5>3
      <4> QED BY <4>3, <4>11, <4>14 DEF Grows
    <3> QED BY <3>1, <3>2, <3>3
  <2> QED BY <2>1
<1>3. Len(s) + 1 - i \in G
  <2> HIDE DEF G
  <2>1. Nat \subseteq G
    BY <1>1, <1>2, SetInduction
  <2>2. Len(s) + 1 - i \in Nat
    BY <1>0
  <2> QED BY <2>1, <2>2
<1>4. P(Len(s) + 1 - i)
  BY <1>3
<1>5. Len(s) + 1 - i <= Len(s) + 1 - i
  BY <1>0
<1> QED BY <1>4, <1>5

\* Quotient and remainder make the number again.
LEMMA DivMod ==
  ASSUME NEW n \in Nat, NEW d \in Nat \ {0}
  PROVE  /\ n \div d \in Nat /\ n % d \in 0 .. d - 1
         /\ n = (n \div d) * d + (n % d)
OBVIOUS

\* A short row has its count in one byte.
LEMMA ShortCount ==
  ASSUME NEW s \in Seq(Nat), Len(s) <= LongRow
  PROVE  Len(PackBits(s)) < CountMod
<1> DEFINE k == (LongRow + MaxRun - 1) \div MaxRun
           n == LongRow + MaxRun - 1
<1>1. MaxRun \in Nat \ {0} /\ LongRow \in Nat /\ LongRow + k < CountMod /\ CountMod \in Nat
      /\ n \in Nat
  <2>1. MaxRun \in Nat \ {0} /\ LongRow \in Nat /\ CountMod \in Nat /\ LongRow + k < CountMod
    <3> HIDE DEF k
    <3> QED BY PictAssumption DEF k
  <2> QED BY <2>1
<1>2. k \in Nat /\ n % MaxRun \in 0 .. MaxRun - 1 /\ n = k * MaxRun + (n % MaxRun)
  <2> HIDE DEF n
  <2>1. n \div MaxRun \in Nat /\ n % MaxRun \in 0 .. MaxRun - 1
        /\ n = (n \div MaxRun) * MaxRun + (n % MaxRun)
    BY <1>1, DivMod
  <2> QED BY <2>1 DEF n
<1> HIDE DEF k
<1>3. Len(s) + 1 - 1 <= k * MaxRun
  <2>1. k * MaxRun \in Nat
    BY <1>1, <1>2
  <2>2. LongRow <= k * MaxRun
    <3>1. n = LongRow + MaxRun - 1
      OBVIOUS
    <3> HIDE DEF n
    <3> QED BY <1>1, <1>2, <2>1, <3>1
  <2> QED BY <1>1, <2>1, <2>2
<1>4. Grows(s, 1, k)
  <2>1. 1 \in 1 .. Len(s) + 1
    OBVIOUS
  <2> QED BY <1>2, <1>3, <2>1, PackedShort
<1>5. PackBits(s) = Packed(s)[1]
  BY PackBitsIs
<1>6. Packed(s)[1] \in Seq(Nat)
  <2>1. 1 \in 1 .. Len(s) + 1
    OBVIOUS
  <2> QED BY <2>1, PackedType
<1> DEFINE t == Packed(s)[1]
<1>7. Len(t) <= Len(s) + 1 - 1 + k /\ Len(t) \in Nat
  BY <1>4, <1>6 DEF Grows
<1> HIDE DEF t
<1>8. Len(t) < CountMod
  BY <1>1, <1>2, <1>7
<1> QED BY <1>5, <1>8 DEF t

-----------------------------------------------------------------------------
(* Rows laid end to end                                                    *)

\* The recursion of FlattenSeq, as a relation.
Flattens(f, n, seqs) ==
  f = [i \in 1 .. n |-> IF i = 1 THEN seqs[i] ELSE f[i - 1] \o seqs[i]]

\* The recursion of FlattenSeq has a solution.
LEMMA FlattensExists ==
  ASSUME NEW seqs, NEW N \in Nat
  PROVE  \E f : Flattens(f, N, seqs)
<1> DEFINE G == {m \in Nat : \E f : Flattens(f, m, seqs)}
<1>1. 0 \in G
  <2>1. Flattens([i \in 1 .. 0 |-> <<>>], 0, seqs)
    BY DEF Flattens
  <2> QED BY <2>1
<1>2. ASSUME NEW m \in Nat, m \in G PROVE m + 1 \in G
  <2>1. PICK f : Flattens(f, m, seqs)
    BY <1>2
  <2> DEFINE h == [i \in 1 .. m + 1 |->
               IF i <= m THEN f[i] ELSE IF i = 1 THEN seqs[i] ELSE f[i - 1] \o seqs[i]]
  <2>2. \A i \in 1 .. m : h[i] = f[i]
    OBVIOUS
  <2>3. \A i \in 1 .. m : f[i] = IF i = 1 THEN seqs[i] ELSE f[i - 1] \o seqs[i]
    BY <2>1 DEF Flattens
  <2>4. \A i \in 1 .. m + 1 : h[i] = IF i = 1 THEN seqs[i] ELSE h[i - 1] \o seqs[i]
    BY <2>2, <2>3
  <2>5. Flattens(h, m + 1, seqs)
    BY <2>4 DEF Flattens
  <2> QED BY <2>5
<1> QED BY <1>1, <1>2, SetInduction

Flat(seqs) == CHOOSE f : Flattens(f, Len(seqs), seqs)

\* FlattenSeq is its value for all of the sequences.
LEMMA FlattenIsLast ==
  ASSUME NEW seqs
  PROVE  FlattenSeq(seqs) = IF Len(seqs) = 0 THEN seqs ELSE Flat(seqs)[Len(seqs)]
BY DEF FlattenSeq, Flat, Flattens

\* Where the first y rows end.
Offset(seqs, y) == IF y = 0 THEN 0 ELSE Len(Flat(seqs)[y])

\* The first m rows, laid end to end.
Laid(seqs, m) ==
  /\ Flat(seqs)[m] \in Seq(Nat)
  /\ \A y \in 1 .. m : Offset(seqs, y - 1) \in Nat
                         /\ Offset(seqs, y) = Offset(seqs, y - 1) + Len(seqs[y])
                         /\ Offset(seqs, y) <= Offset(seqs, m)
  /\ \A y \in 1 .. m : \A k \in 1 .. Len(seqs[y]) :
       Flat(seqs)[m][Offset(seqs, y - 1) + k] = seqs[y][k]

\* In the first m sequences, every row is where the ones before it end.
LEMMA FlatLaid ==
  ASSUME NEW seqs, Len(seqs) \in Nat, \A y \in 1 .. Len(seqs) : seqs[y] \in Seq(Nat),
         NEW m0 \in 1 .. Len(seqs)
  PROVE  Laid(seqs, m0)
<1> DEFINE f == Flat(seqs)
           O(y) == Offset(seqs, y)
           P(m) == m + 1 <= Len(seqs) => Laid(seqs, m + 1)
           G == {m \in Nat : P(m)}
<1>0. Flattens(f, Len(seqs), seqs)
  BY FlattensExists DEF Flat
<1>f. /\ 1 <= Len(seqs) => f[1] = seqs[1]
      /\ \A i \in 2 .. Len(seqs) : f[i] = f[i - 1] \o seqs[i]
  <2> HIDE DEF f
  <2>1. \A i \in 1 .. Len(seqs) : f[i] = IF i = 1 THEN seqs[i] ELSE f[i - 1] \o seqs[i]
    BY <1>0 DEF Flattens
  <2>2. 1 <= Len(seqs) => 1 \in 1 .. Len(seqs)
    OBVIOUS
  <2>3. \A i \in 2 .. Len(seqs) : i \in 1 .. Len(seqs) /\ i # 1
    OBVIOUS
  <2> QED BY <2>1, <2>2, <2>3
<1>1. 0 \in G
  <2> SUFFICES ASSUME 0 + 1 <= Len(seqs) PROVE Laid(seqs, 0 + 1)
    OBVIOUS
  <2>1. f[1] = seqs[1] /\ seqs[1] \in Seq(Nat)
    BY <1>f
  <2>2. O(0) = 0 /\ O(1) = Len(seqs[1])
    BY <2>1 DEF Offset
  <2>3. Len(seqs[1]) \in Nat
    BY <2>1
  <2>4. ASSUME NEW y \in 1 .. 1
        PROVE  /\ O(y - 1) \in Nat /\ O(y) = O(y - 1) + Len(seqs[y]) /\ O(y) <= O(1)
               /\ \A k \in 1 .. Len(seqs[y]) : f[1][O(y - 1) + k] = seqs[y][k]
    <3>1. y = 1 /\ y - 1 = 0
      OBVIOUS
    <3> HIDE DEF O, f
    <3>2. \A k \in 1 .. Len(seqs[1]) : 0 + k = k
      OBVIOUS
    <3> QED BY <2>1, <2>2, <2>3, <3>1, <3>2
  <2> QED BY <2>1, <2>4 DEF Laid
<1>2. ASSUME NEW m \in Nat, m \in G PROVE m + 1 \in G
  <2> SUFFICES ASSUME m + 1 + 1 <= Len(seqs) PROVE Laid(seqs, m + 1 + 1)
    OBVIOUS
  <2> DEFINE i == m + 1
             j == m + 1 + 1
             h == f[i]
             r == seqs[j]
             g == f[j]
  <2>0. i \in Nat /\ i >= 1 /\ j = i + 1 /\ j \in 2 .. Len(seqs) /\ j \in 1 .. Len(seqs)
        /\ i <= Len(seqs) /\ j - 1 = i
    OBVIOUS
  <2>1. Laid(seqs, i)
    BY <1>2, <2>0
  <2> HIDE DEF i, j, f
  <2>2. h \in Seq(Nat) /\ r \in Seq(Nat) /\ Joins(g, h, r)
    BY <1>f, <2>0, <2>1 DEF Laid, Joins, f
  <2> HIDE DEF h, r, g
  <2>3. g \in Seq(Nat) /\ Len(g) = Len(h) + Len(r)
    BY <2>2, JoinsLen
  <2>4. \A k \in 1 .. Len(h) + Len(r) : g[k] = IF k <= Len(h) THEN h[k] ELSE r[k - Len(h)]
    BY <2>2, NatConcat DEF Joins
  <2>5. O(i) = Len(h) /\ O(j) = Len(g)
    BY <2>0 DEF Offset, h, g, f
  <2>6. Len(h) \in Nat /\ Len(r) \in Nat
    BY <2>2
  <2>7. ASSUME NEW y \in 1 .. j
        PROVE  /\ O(y - 1) \in Nat /\ O(y) = O(y - 1) + Len(seqs[y]) /\ O(y) <= O(j)
               /\ \A k \in 1 .. Len(seqs[y]) : g[O(y - 1) + k] = seqs[y][k]
    <3>1. CASE y = j
      <4>1. y - 1 = i /\ seqs[y] = r
        BY <2>0, <3>1 DEF r
      <4> HIDE DEF O
      <4>2. O(y - 1) = Len(h) /\ O(y) = Len(h) + Len(r)
        BY <2>3, <2>5, <3>1, <4>1
      <4>3. ASSUME NEW k \in 1 .. Len(r) PROVE g[Len(h) + k] = r[k]
        <5>1. Len(h) + k \in 1 .. Len(h) + Len(r) /\ ~(Len(h) + k <= Len(h))
              /\ Len(h) + k - Len(h) = k
          BY <2>6
        <5> QED BY <2>4, <5>1
      <4>4. O(y) <= O(j)
        BY <2>3, <2>5, <2>6, <4>2
      <4>5. \A k \in 1 .. Len(seqs[y]) : g[O(y - 1) + k] = seqs[y][k]
        BY <4>1, <4>2, <4>3
      <4> QED BY <2>6, <4>1, <4>2, <4>4, <4>5
    <3>2. CASE y # j
      <4>1. y \in 1 .. i
        BY <2>0, <3>2
      <4>2. /\ O(y - 1) \in Nat /\ O(y) = O(y - 1) + Len(seqs[y]) /\ O(y) <= O(i)
            /\ \A k \in 1 .. Len(seqs[y]) : h[O(y - 1) + k] = seqs[y][k]
        BY <2>1, <4>1 DEF Laid, h, f
      <4>3. Len(seqs[y]) \in Nat
        <5>1. y \in 1 .. Len(seqs)
          BY <2>0, <4>1
        <5> QED BY <5>1
      <4> HIDE DEF O
      <4>4. O(i) <= O(j)
        BY <2>3, <2>5, <2>6
      <4>5. ASSUME NEW k \in 1 .. Len(seqs[y]) PROVE g[O(y - 1) + k] = seqs[y][k]
        <5>1. O(y - 1) + k \in 1 .. Len(h) + Len(r) /\ O(y - 1) + k <= Len(h)
          BY SMTT(40), <2>5, <2>6, <4>2, <4>3
        <5>2. g[O(y - 1) + k] = h[O(y - 1) + k]
          BY <2>4, <5>1
        <5> QED BY <4>2, <5>2
      <4>6. O(y) <= O(j)
        BY <2>3, <2>5, <2>6, <4>2, <4>3, <4>4
      <4> QED BY <4>2, <4>5, <4>6
    <3> QED BY <3>1, <3>2
  <2>8. Laid(seqs, j)
    BY <2>3, <2>7 DEF Laid, g, f
  <2> QED BY <2>8 DEF j
<1>3. m0 - 1 \in G
  <2> HIDE DEF G
  <2>1. Nat \subseteq G
    BY <1>1, <1>2, SetInduction
  <2>2. m0 - 1 \in Nat
    OBVIOUS
  <2> QED BY <2>1, <2>2
<1> QED BY <1>3

\* In all of them, every row is where the ones before it end.
LEMMA FlattenLaid ==
  ASSUME NEW seqs, Len(seqs) \in Nat \ {0}, \A y \in 1 .. Len(seqs) : seqs[y] \in Seq(Nat)
  PROVE  LET data == FlattenSeq(seqs)
         IN  /\ data \in Seq(Nat) /\ Offset(seqs, 0) = 0
             /\ \A y \in 1 .. Len(seqs) :
                  /\ Offset(seqs, y - 1) \in Nat
                  /\ Offset(seqs, y) = Offset(seqs, y - 1) + Len(seqs[y])
                  /\ Offset(seqs, y) <= Len(data)
                  /\ \A k \in 1 .. Len(seqs[y]) : data[Offset(seqs, y - 1) + k] = seqs[y][k]
             /\ Len(data) = Offset(seqs, Len(seqs))
<1> DEFINE n == Len(seqs)
<1>1. n \in Nat /\ n # 0 /\ n \in 1 .. n
  OBVIOUS
<1>2. FlattenSeq(seqs) = Flat(seqs)[n]
  BY <1>1, FlattenIsLast
<1>3. Laid(seqs, n)
  BY <1>1, FlatLaid
<1>4. Offset(seqs, n) = Len(Flat(seqs)[n]) /\ Offset(seqs, 0) = 0
  BY <1>1 DEF Offset
<1> HIDE DEF n
<1> QED BY <1>2, <1>3, <1>4 DEF Laid, n

-----------------------------------------------------------------------------
(* The reader finds the rows                                               *)

\* The recursion of ReadRows, as a relation.
Ends(e, file) ==
  e = [y \in 0 .. file.h |-> IF y = 0 THEN 1 ELSE RowAt(file, e[y - 1]).to]

\* The recursion of ReadRows has a solution.
LEMMA EndsExists ==
  ASSUME NEW file, file.h \in Nat
  PROVE  \E e : Ends(e, file)
<1> DEFINE next(i) == RowAt(file, i).to
           E(e, n) == e = [y \in 0 .. n |-> IF y = 0 THEN 1 ELSE next(e[y - 1])]
           G == {m \in Nat : \E e : E(e, m)}
<1> HIDE DEF next
<1>1. 0 \in G
  <2> DEFINE h == [y \in 0 .. 0 |-> 1]
  <2>1. \A y \in 0 .. 0 : h[y] = IF y = 0 THEN 1 ELSE next(h[y - 1])
    OBVIOUS
  <2>2. E(h, 0)
    BY <2>1
  <2> QED BY <2>2
<1>2. ASSUME NEW m \in Nat, m \in G PROVE m + 1 \in G
  <2>1. PICK e : E(e, m)
    BY <1>2
  <2> DEFINE h == [y \in 0 .. m + 1 |->
                     IF y <= m THEN e[y] ELSE IF y = 0 THEN 1 ELSE next(e[y - 1])]
  <2>2. \A y \in 0 .. m : h[y] = e[y]
    OBVIOUS
  <2>3. \A y \in 0 .. m : e[y] = IF y = 0 THEN 1 ELSE next(e[y - 1])
    BY <2>1
  <2>4. ASSUME NEW y \in 0 .. m + 1
        PROVE  h[y] = IF y = 0 THEN 1 ELSE next(h[y - 1])
    <3>1. CASE y <= m
      <4>1. y \in 0 .. m /\ (y # 0 => y - 1 \in 0 .. m)
        BY <3>1
      <4> HIDE DEF h
      <4> QED BY <2>2, <2>3, <4>1
    <3>2. CASE ~(y <= m)
      <4>1. y # 0 /\ y - 1 \in 0 .. m
        BY <3>2
      <4>2. h[y] = next(e[y - 1])
        BY <3>2, <4>1
      <4> HIDE DEF h
      <4> QED BY <2>2, <4>1, <4>2
    <3> QED BY <3>1, <3>2
  <2>5. E(h, m + 1)
    BY <2>4
  <2> HIDE DEF E, h
  <2>6. \E d : E(d, m + 1)
    BY <2>5
  <2> QED BY <2>6
<1>3. \E e : E(e, file.h)
  <2> HIDE DEF E
  <2>1. Nat \subseteq G
    <3> HIDE DEF G
    <3> QED BY <1>1, <1>2, SetInduction
  <2> QED BY <2>1
<1> QED BY <1>3 DEF Ends, next

EndsOf(file) == CHOOSE e : Ends(e, file)

\* If each row ends where the offsets say, so do the ends the reader counts.
LEMMA EndsAre ==
  ASSUME NEW file, file.h \in Nat, NEW o, o[0] = 0,
         \A y \in 1 .. file.h : RowAt(file, o[y - 1] + 1).to = o[y] + 1,
         NEW y0 \in 0 .. file.h
  PROVE  EndsOf(file)[y0] = o[y0] + 1
<1> DEFINE e == EndsOf(file)
           P(m) == m <= file.h => e[m] = o[m] + 1
           G == {m \in Nat : P(m)}
<1>1. Ends(e, file)
  BY EndsExists DEF EndsOf
<1> HIDE DEF e
<1>2. \A y \in 0 .. file.h : e[y] = IF y = 0 THEN 1 ELSE RowAt(file, e[y - 1]).to
  BY <1>1 DEF Ends
<1>3. 0 \in G
  <2>1. 0 \in 0 .. file.h
    OBVIOUS
  <2>2. e[0] = 1
    BY <1>2, <2>1
  <2> QED BY <2>2
<1>4. ASSUME NEW m \in Nat, m \in G PROVE m + 1 \in G
  <2> SUFFICES ASSUME m + 1 <= file.h PROVE e[m + 1] = o[m + 1] + 1
    OBVIOUS
  <2>1. m + 1 \in 0 .. file.h /\ m + 1 # 0 /\ m + 1 - 1 = m /\ m + 1 \in 1 .. file.h /\ m <= file.h
    OBVIOUS
  <2>2. e[m + 1] = RowAt(file, e[m]).to
    BY <1>2, <2>1
  <2>3. e[m] = o[m] + 1
    BY <1>4, <2>1
  <2>4. RowAt(file, o[m] + 1).to = o[m + 1] + 1
    BY <2>1
  <2> QED BY <2>2, <2>3, <2>4
<1>5. y0 \in G
  <2> HIDE DEF G
  <2>1. Nat \subseteq G
    BY <1>3, <1>4, SetInduction
  <2> QED BY <2>1
<1> QED BY <1>5 DEF e

\* ReadRows in terms of EndsOf.
LEMMA ReadRowsIs ==
  ASSUME NEW file
  PROVE  ReadRows(file) = [y \in 1 .. file.h |-> ReadRow(file, EndsOf(file)[y - 1])]
BY DEF ReadRows, EndsOf, Ends

\* Then a row is read from its offset.
LEMMA RowRead ==
  ASSUME NEW file, file.h \in Nat, NEW o, o[0] = 0,
         \A y \in 1 .. file.h : RowAt(file, o[y - 1] + 1).to = o[y] + 1,
         NEW y0 \in 1 .. file.h
  PROVE  ReadRows(file)[y0] = ReadRow(file, o[y0 - 1] + 1)
<1>1. EndsOf(file)[y0 - 1] = o[y0 - 1] + 1
  <2>1. y0 - 1 \in 0 .. file.h
    OBVIOUS
  <2> QED BY <2>1, EndsAre
<1> QED BY <1>1, ReadRowsIs

-----------------------------------------------------------------------------
(* A row, read from where it starts                                        *)

\* A counted row is the count, in one byte or two, and what PackBits makes.
LEMMA CountedRowIs ==
  ASSUME NEW b \in Seq(Nat)
  PROVE  LET p == PackBits(b)
             c == CountedRow(b)
         IN  /\ p \in Seq(Nat) /\ c \in Seq(Nat) /\ Len(b) \in Nat /\ Len(p) \in Nat
             /\ Len(b) > LongRow =>
                  /\ Len(c) = 2 + Len(p) /\ c[1] = Len(p) \div CountMod /\ c[2] = Len(p) % CountMod
                  /\ \A k \in 1 .. Len(p) : c[2 + k] = p[k]
             /\ ~(Len(b) > LongRow) =>
                  /\ Len(c) = 1 + Len(p) /\ c[1] = Len(p)
                  /\ \A k \in 1 .. Len(p) : c[1 + k] = p[k]
<1> DEFINE p == PackBits(b)
           c == CountedRow(b)
           n == Len(p)
<1>1. p \in Seq(Nat)
  <2>1. 1 \in 1 .. Len(b) + 1
    OBVIOUS
  <2>2. Packed(b)[1] \in Seq(Nat)
    BY <2>1, PackedType
  <2> QED BY <2>2, PackBitsIs
<1>2. CountMod \in Nat \ {0} /\ LongRow \in Nat
  BY PictAssumption
<1>3. Len(b) \in Nat
  OBVIOUS
<1>4. ~(Len(b) > LongRow) => n < CountMod
  BY <1>2, <1>3, ShortCount
<1>5. Len(b) > LongRow => Joins(c, <<n \div CountMod, n % CountMod>>, p)
  BY DEF CountedRow, Joins
<1>6. ~(Len(b) > LongRow) => Joins(c, <<n % CountMod>>, p)
  BY DEF CountedRow, Joins
<1> HIDE DEF p, c
<1>7. n \in Nat
  BY <1>1
<1>8. CASE Len(b) > LongRow
  <2> DEFINE h == <<n \div CountMod, n % CountMod>>
  <2>1. n \div CountMod \in Nat /\ n % CountMod \in Nat
    <3>1. n \div CountMod \in Nat /\ n % CountMod \in 0 .. CountMod - 1
      BY <1>2, <1>7, DivMod
    <3> QED BY <1>2, <3>1
  <2>2. h \in Seq(Nat) /\ Len(h) = 2 /\ h[1] = n \div CountMod /\ h[2] = n % CountMod
    <3> HIDE DEF n
    <3> QED BY <2>1
  <2>3. Joins(c, h, p)
    BY <1>5, <1>8
  <2> HIDE DEF h, n
  <2>4. c \in Seq(Nat) /\ Len(c) = 2 + n
        /\ \A k \in 1 .. 2 + n : c[k] = IF k <= 2 THEN h[k] ELSE p[k - 2]
    <3>1. Len(p) = n
      BY DEF n
    <3>2. c \in Seq(Nat) /\ Len(c) = Len(h) + Len(p)
      BY <1>1, <2>2, <2>3, JoinsLen
    <3>3. \A k \in 1 .. Len(h) + Len(p) : c[k] = IF k <= Len(h) THEN h[k] ELSE p[k - Len(h)]
      BY <1>1, <2>2, <2>3, NatConcat DEF Joins
    <3> QED BY <2>2, <3>1, <3>2, <3>3
  <2>5. c[1] = h[1] /\ c[2] = h[2]
    <3>1. 1 \in 1 .. 2 + n /\ 2 \in 1 .. 2 + n
      BY <1>7
    <3> QED BY <2>4, <3>1
  <2>6. ASSUME NEW k \in 1 .. n PROVE c[2 + k] = p[k]
    <3>1. 2 + k \in 1 .. 2 + n /\ ~(2 + k <= 2) /\ 2 + k - 2 = k
      BY <1>7
    <3> QED BY <2>4, <3>1
  <2> QED BY <1>1, <1>3, <1>7, <1>8, <2>2, <2>4, <2>5, <2>6 DEF p, c, n
<1>9. CASE ~(Len(b) > LongRow)
  <2> DEFINE h == <<n % CountMod>>
  <2>1. n % CountMod = n
    BY <1>2, <1>4, <1>7, <1>9
  <2>2. h \in Seq(Nat) /\ Len(h) = 1 /\ h[1] = n
    <3> HIDE DEF n
    <3> QED BY <1>7, <2>1
  <2>3. Joins(c, h, p)
    BY <1>6, <1>9
  <2> HIDE DEF h, n
  <2>4. c \in Seq(Nat) /\ Len(c) = 1 + n
        /\ \A k \in 1 .. 1 + n : c[k] = IF k <= 1 THEN h[k] ELSE p[k - 1]
    <3>1. Len(p) = n
      BY DEF n
    <3>2. c \in Seq(Nat) /\ Len(c) = Len(h) + Len(p)
      BY <1>1, <2>2, <2>3, JoinsLen
    <3>3. \A k \in 1 .. Len(h) + Len(p) : c[k] = IF k <= Len(h) THEN h[k] ELSE p[k - Len(h)]
      BY <1>1, <2>2, <2>3, NatConcat DEF Joins
    <3> QED BY <2>2, <3>1, <3>2, <3>3
  <2>5. c[1] = h[1]
    <3>1. 1 \in 1 .. 1 + n
      BY <1>7
    <3> QED BY <2>4, <3>1
  <2>6. ASSUME NEW k \in 1 .. n PROVE c[1 + k] = p[k]
    <3>1. 1 + k \in 1 .. 1 + n /\ ~(1 + k <= 1) /\ 1 + k - 1 = k
      BY <1>7
    <3> QED BY <2>4, <3>1
  <2> QED BY <1>1, <1>3, <1>7, <1>9, <2>2, <2>4, <2>5, <2>6 DEF p, c, n
<1> QED BY <1>8, <1>9 DEF p, c

\* A counted row is read wherever it lies in a file, and to its end.
LEMMA CountedRowRead ==
  ASSUME NEW b \in Seq(Nat), NEW file, NEW o \in Nat,
         TakenAsPacked(file), file.rowBytes = Len(b),
         \A k \in 1 .. Len(CountedRow(b)) : ByteAt(file, o + k) = CountedRow(b)[k]
  PROVE  /\ RowAt(file, o + 1).to = o + Len(CountedRow(b)) + 1
         /\ ReadRow(file, o + 1) = b
<1> DEFINE p == PackBits(b)
           c == CountedRow(b)
           n == Len(p)
<1>1. /\ p \in Seq(Nat) /\ n \in Nat
      /\ Len(b) > LongRow =>
           /\ Len(c) = 2 + n /\ c[1] = n \div CountMod /\ c[2] = n % CountMod
           /\ \A k \in 1 .. n : c[2 + k] = p[k]
      /\ ~(Len(b) > LongRow) =>
           /\ Len(c) = 1 + n /\ c[1] = n
           /\ \A k \in 1 .. n : c[1 + k] = p[k]
  BY CountedRowIs
<1>2. CountMod \in Nat \ {0}
  BY PictAssumption
<1>3. \A k \in 1 .. Len(c) : ByteAt(file, o + k) = c[k]
  OBVIOUS
<1>4. UnpackBits(p) = b
  BY PackBitsUnpacks
<1> HIDE DEF p, c
<1> DEFINE r == RowAt(file, o + 1)
<1>5. r.from \in Nat /\ r.to = r.from + n /\ r.to = o + Len(c) + 1
      /\ \A k \in 1 .. n : ByteAt(file, r.from + k - 1) = p[k]
  <2>1. CASE Len(b) > LongRow
    <3>1. ByteAt(file, o + 1) = n \div CountMod /\ ByteAt(file, o + 2) = n % CountMod
      <4>1. 1 \in 1 .. Len(c) /\ 2 \in 1 .. Len(c)
        BY <1>1, <2>1
      <4> QED BY <1>1, <1>3, <2>1, <4>1
    <3>2. r = [from |-> o + 1 + 2, to |-> o + 1 + 2 + ByteAt(file, o + 1) * CountMod + ByteAt(file, o + 1 + 1)]
      BY <2>1 DEF RowAt
    <3>3. o + 1 + 1 = o + 2
      OBVIOUS
    <3>4. r.from = o + 3 /\ r.to = o + 3 + (n \div CountMod) * CountMod + (n % CountMod)
      <4> HIDE DEF r
      <4>1. r.from = o + 1 + 2 /\ r.to = o + 1 + 2 + ByteAt(file, o + 1) * CountMod + ByteAt(file, o + 2)
        BY <3>2, <3>3
      <4>2. o + 1 + 2 = o + 3
        OBVIOUS
      <4> QED BY <3>1, <4>1, <4>2
    <3> HIDE DEF r, n
    <3>5. n \div CountMod \in Nat /\ n % CountMod \in 0 .. CountMod - 1
          /\ n = (n \div CountMod) * CountMod + (n % CountMod)
      BY <1>1, <1>2, DivMod
    <3>6. r.to = o + 3 + n
      <4> DEFINE x == (n \div CountMod) * CountMod
                 y == n % CountMod
      <4>1. x \in Nat /\ y \in Nat /\ n = x + y
        <5> DEFINE q == n \div CountMod
        <5>1. q \in Nat /\ CountMod \in Nat
          BY <1>2, <3>5
        <5> HIDE DEF q
        <5>2. q * CountMod \in Nat
          BY <5>1
        <5>3. x \in Nat
          BY <5>2 DEF q
        <5>4. y \in Nat
          BY <1>2, <3>5
        <5> QED BY <3>5, <5>3, <5>4
      <4>2. r.to = o + 3 + x + y
        BY <3>4
      <4> HIDE DEF x, y
      <4> QED BY <4>1, <4>2
    <3>7. Len(c) = 2 + n
      BY <1>1, <2>1
    <3>8. ASSUME NEW k \in 1 .. n PROVE ByteAt(file, r.from + k - 1) = p[k]
      <4>1. r.from + k - 1 = o + (2 + k) /\ 2 + k \in 1 .. Len(c)
        BY <1>1, <3>4, <3>7
      <4> QED BY <1>1, <1>3, <2>1, <4>1
    <3> QED BY <1>1, <3>4, <3>6, <3>7, <3>8
  <2>2. CASE ~(Len(b) > LongRow)
    <3>1. ByteAt(file, o + 1) = n
      <4>1. 1 \in 1 .. Len(c)
        BY <1>1, <2>2
      <4> QED BY <1>1, <1>3, <2>2, <4>1
    <3>2. r = [from |-> o + 1 + 1, to |-> o + 1 + 1 + ByteAt(file, o + 1)]
      BY <2>2 DEF RowAt
    <3> HIDE DEF r, n
    <3>3. r.from = o + 1 + 1 /\ r.to = o + 1 + 1 + n
      BY <3>1, <3>2
    <3>4. Len(c) = 1 + n
      BY <1>1, <2>2
    <3>5. ASSUME NEW k \in 1 .. n PROVE ByteAt(file, r.from + k - 1) = p[k]
      <4>1. r.from + k - 1 = o + (1 + k) /\ 1 + k \in 1 .. Len(c)
        BY <1>1, <3>3, <3>4
      <4> QED BY <1>1, <1>3, <2>2, <4>1
    <3> QED BY <1>1, <3>3, <3>4, <3>5
  <2> QED BY <2>1, <2>2
<1>6. RowBytes(file, o + 1) = p
  <2> DEFINE a == RowBytes(file, o + 1)
  <2>1. a = [k \in 1 .. r.to - r.from |-> ByteAt(file, r.from + k - 1)]
    BY DEF RowBytes
  <2> HIDE DEF a, r, n
  <2>2. r.to - r.from = n
    BY <1>1, <1>5
  <2>3. a = [k \in 1 .. n |-> p[k]]
    BY <1>5, <2>1, <2>2
  <2>4. p = [k \in 1 .. n |-> p[k]]
    BY <1>1 DEF n
  <2> QED BY <2>3, <2>4 DEF a
<1>7. ReadRow(file, o + 1) = b
  BY <1>4, <1>6 DEF ReadRow
<1> QED BY <1>5, <1>7 DEF c

\* A row that is not packed.
LEMMA PlainRowRead ==
  ASSUME NEW b \in Seq(Nat), NEW file, NEW o \in Nat,
         ~TakenAsPacked(file), file.rowBytes = Len(b),
         \A k \in 1 .. Len(b) : ByteAt(file, o + k) = b[k]
  PROVE  /\ RowAt(file, o + 1).to = o + Len(b) + 1
         /\ ReadRow(file, o + 1) = b
<1> DEFINE n == Len(b)
           r == RowAt(file, o + 1)
           a == RowBytes(file, o + 1)
<1>1. n \in Nat
  OBVIOUS
<1>2. r = [from |-> o + 1, to |-> o + 1 + n]
  BY DEF RowAt
<1>3. a = [k \in 1 .. r.to - r.from |-> ByteAt(file, r.from + k - 1)]
  BY DEF RowBytes
<1>4. b = [k \in 1 .. n |-> b[k]]
  OBVIOUS
<1>5. ReadRow(file, o + 1) = a
  BY DEF ReadRow
<1> HIDE DEF a, r, n
<1>6. r.to - r.from = n /\ r.from = o + 1 /\ r.to = o + n + 1
  BY <1>1, <1>2
<1>7. ASSUME NEW k \in 1 .. n PROVE ByteAt(file, r.from + k - 1) = b[k]
  <2>1. r.from + k - 1 = o + k
    BY <1>6
  <2> QED BY <2>1 DEF n
<1>8. a = [k \in 1 .. n |-> b[k]]
  BY <1>3, <1>6, <1>7
<1> QED BY <1>4, <1>5, <1>6, <1>8 DEF r, n

\* The data of a file are the rows, each as its opcode stores it.
Stored(file, rows, seqs) ==
  /\ file.h \in Nat \ {0} /\ Len(seqs) = file.h /\ file.data = FlattenSeq(seqs)
  /\ \A y \in 1 .. file.h :
       /\ rows[y] \in Seq(Nat) /\ Len(rows[y]) = file.rowBytes
       /\ TakenAsPacked(file) => seqs[y] = CountedRow(rows[y])
       /\ ~TakenAsPacked(file) => seqs[y] = rows[y]

\* From a file of such rows, each in its place, all are read.
LEMMA FileRead ==
  ASSUME NEW file, NEW rows, NEW seqs, Stored(file, rows, seqs), NEW y1 \in 1 .. file.h
  PROVE  ReadRows(file)[y1] = rows[y1]
<1> DEFINE O(y) == Offset(seqs, y)
           o == [y \in 0 .. file.h |-> O(y)]
<1>1. /\ file.h \in Nat \ {0} /\ Len(seqs) = file.h
      /\ file.data = FlattenSeq(seqs)
      /\ \A y \in 1 .. file.h :
           /\ rows[y] \in Seq(Nat) /\ Len(rows[y]) = file.rowBytes
           /\ TakenAsPacked(file) => seqs[y] = CountedRow(rows[y])
           /\ ~TakenAsPacked(file) => seqs[y] = rows[y]
  BY DEF Stored
<1>2. \A y \in 1 .. file.h : seqs[y] \in Seq(Nat)
  <2> SUFFICES ASSUME NEW y \in 1 .. file.h PROVE seqs[y] \in Seq(Nat)
    OBVIOUS
  <2>1. CountedRow(rows[y]) \in Seq(Nat)
    BY <1>1, CountedRowIs
  <2> QED BY <1>1, <2>1
<1> DEFINE data == FlattenSeq(seqs)
<1>3. /\ data \in Seq(Nat) /\ O(0) = 0
      /\ \A y \in 1 .. file.h :
           /\ O(y - 1) \in Nat /\ O(y) = O(y - 1) + Len(seqs[y]) /\ O(y) <= Len(data)
           /\ \A k \in 1 .. Len(seqs[y]) : data[O(y - 1) + k] = seqs[y][k]
  <2> HIDE DEF O, data
  <2>1. Len(seqs) \in Nat \ {0} /\ \A y \in 1 .. Len(seqs) : seqs[y] \in Seq(Nat)
    BY <1>1, <1>2
  <2>2. /\ FlattenSeq(seqs) \in Seq(Nat) /\ Offset(seqs, 0) = 0
        /\ \A y \in 1 .. Len(seqs) :
             /\ Offset(seqs, y - 1) \in Nat
             /\ Offset(seqs, y) = Offset(seqs, y - 1) + Len(seqs[y])
             /\ Offset(seqs, y) <= Len(FlattenSeq(seqs))
             /\ \A k \in 1 .. Len(seqs[y]) : FlattenSeq(seqs)[Offset(seqs, y - 1) + k] = seqs[y][k]
    BY <2>1, FlattenLaid
  <2> QED BY <1>1, <2>2 DEF O, data
<1>4. file.data = data
  BY <1>1
<1> HIDE DEF O, data
<1>5. ASSUME NEW y \in 1 .. file.h
      PROVE  \A k \in 1 .. Len(seqs[y]) : ByteAt(file, O(y - 1) + k) = seqs[y][k]
  <2> SUFFICES ASSUME NEW k \in 1 .. Len(seqs[y]) PROVE ByteAt(file, O(y - 1) + k) = seqs[y][k]
    OBVIOUS
  <2>1. Len(seqs[y]) \in Nat /\ Len(data) \in Nat
    BY SMTT(40), <1>2, <1>3
  <2>2. O(y - 1) + k <= Len(data)
    BY <1>3, <2>1
  <2> QED BY <1>3, <1>4, <2>2 DEF ByteAt
<1>6. ASSUME NEW y \in 1 .. file.h
      PROVE  /\ RowAt(file, O(y - 1) + 1).to = O(y) + 1
             /\ ReadRow(file, O(y - 1) + 1) = rows[y]
  <2>1. O(y - 1) \in Nat /\ O(y) = O(y - 1) + Len(seqs[y])
    BY <1>3
  <2>2. rows[y] \in Seq(Nat) /\ Len(rows[y]) = file.rowBytes
    BY <1>1
  <2>3. \A k \in 1 .. Len(seqs[y]) : ByteAt(file, O(y - 1) + k) = seqs[y][k]
    BY <1>5
  <2>4. CASE TakenAsPacked(file)
    <3>1. seqs[y] = CountedRow(rows[y])
      BY <1>1, <2>4
    <3>2. \A k \in 1 .. Len(CountedRow(rows[y])) :
            ByteAt(file, O(y - 1) + k) = CountedRow(rows[y])[k]
      BY <2>3, <3>1
    <3>3. /\ RowAt(file, O(y - 1) + 1).to = O(y - 1) + Len(CountedRow(rows[y])) + 1
          /\ ReadRow(file, O(y - 1) + 1) = rows[y]
      BY <2>1, <2>2, <2>4, <3>2, CountedRowRead
    <3> QED BY <2>1, <3>1, <3>3
  <2>5. CASE ~TakenAsPacked(file)
    <3>1. seqs[y] = rows[y]
      BY <1>1, <2>5
    <3>2. \A k \in 1 .. Len(rows[y]) : ByteAt(file, O(y - 1) + k) = rows[y][k]
      BY <2>3, <3>1
    <3>3. /\ RowAt(file, O(y - 1) + 1).to = O(y - 1) + Len(rows[y]) + 1
          /\ ReadRow(file, O(y - 1) + 1) = rows[y]
      BY <2>1, <2>2, <2>5, <3>2, PlainRowRead
    <3> QED BY <2>1, <3>1, <3>3
  <2> QED BY <2>4, <2>5
<1>7. y1 - 1 \in 0 .. file.h /\ 0 \in 0 .. file.h
      /\ \A y \in 1 .. file.h : y \in 0 .. file.h /\ y - 1 \in 0 .. file.h
  BY <1>1
<1>8. o[0] = 0 /\ o[y1 - 1] = O(y1 - 1)
      /\ \A y \in 1 .. file.h : RowAt(file, o[y - 1] + 1).to = o[y] + 1
  <2>1. \A y \in 0 .. file.h : o[y] = O(y)
    OBVIOUS
  <2> HIDE DEF o
  <2> QED BY <1>3, <1>6, <1>7, <2>1
<1> HIDE DEF o
<1>9. ReadRows(file)[y1] = ReadRow(file, o[y1 - 1] + 1)
  BY ZenonT(60), <1>1, <1>8, RowRead
<1> QED BY <1>6, <1>8, <1>9

-----------------------------------------------------------------------------
(* Pixels in bytes                                                         *)

Sizes == {1, 2, 4, 8}
Bits == {1, 2, 4, 8, 16, 32, 64, 128}

\* The powers of two of a byte.
LEMMA BitIs ==
  /\ Bit(0) = 1 /\ Bit(1) = 2 /\ Bit(2) = 4 /\ Bit(3) = 8 /\ Bit(4) = 16
  /\ Bit(5) = 32 /\ Bit(6) = 64 /\ Bit(7) = 128 /\ Bit(8) = 256
BY DEF Bit

\* What is put below a pixel does not change it.
LEMMA Below2 ==
  ASSUME NEW D \in Bits, NEW T \in Bits, T % D = 0, NEW B \in Nat, B % D = 0, NEW r \in 0 .. D - 1
  PROVE  (B + r) \div T = B \div T
<1>1. CASE D = 1
  BY <1>1 DEF Bits
<1>2. CASE D = 2
  BY <1>2 DEF Bits
<1>3. CASE D = 4
  BY <1>3 DEF Bits
<1>4. CASE D = 8
  BY <1>4 DEF Bits
<1>5. CASE D = 16
  BY <1>5 DEF Bits
<1>6. CASE D = 32
  BY <1>6 DEF Bits
<1>7. CASE D = 64
  BY <1>7 DEF Bits
<1>8. CASE D = 128
  BY <1>8 DEF Bits
<1> QED BY <1>1, <1>2, <1>3, <1>4, <1>5, <1>6, <1>7, <1>8 DEF Bits

\* The bits of a byte that a pixel is put in, and what is below them, are free.
Free(B, P, S) == B % (P * S) = 0

Written(B, i, P, S) == ((B + i * P) \div P) % S = i /\ (B + i * P) % P = 0

\* What is put in free bits is read again.
LEMMA Above ==
  ASSUME NEW P \in Bits, NEW S \in {2, 4, 16, 256}, NEW B \in Nat, NEW i \in 0 .. S - 1, Free(B, P, S)
  PROVE  Written(B, i, P, S)
<1>1. CASE S = 2
  <2>1. CASE P = 1
    BY <1>1, <2>1 DEF Free, Written
  <2>2. CASE P = 2
    BY <1>1, <2>2 DEF Free, Written
  <2>3. CASE P = 4
    BY <1>1, <2>3 DEF Free, Written
  <2>4. CASE P = 8
    BY <1>1, <2>4 DEF Free, Written
  <2>5. CASE P = 16
    BY <1>1, <2>5 DEF Free, Written
  <2>6. CASE P = 32
    BY <1>1, <2>6 DEF Free, Written
  <2>7. CASE P = 64
    BY <1>1, <2>7 DEF Free, Written
  <2>8. CASE P = 128
    BY <1>1, <2>8 DEF Free, Written
  <2> QED BY <2>1, <2>2, <2>3, <2>4, <2>5, <2>6, <2>7, <2>8 DEF Bits
<1>2. CASE S = 4
  <2>1. CASE P = 1
    BY <1>2, <2>1 DEF Free, Written
  <2>2. CASE P = 2
    BY <1>2, <2>2 DEF Free, Written
  <2>3. CASE P = 4
    BY <1>2, <2>3 DEF Free, Written
  <2>4. CASE P = 8
    BY <1>2, <2>4 DEF Free, Written
  <2>5. CASE P = 16
    BY <1>2, <2>5 DEF Free, Written
  <2>6. CASE P = 32
    BY <1>2, <2>6 DEF Free, Written
  <2>7. CASE P = 64
    BY <1>2, <2>7 DEF Free, Written
  <2>8. CASE P = 128
    BY <1>2, <2>8 DEF Free, Written
  <2> QED BY <2>1, <2>2, <2>3, <2>4, <2>5, <2>6, <2>7, <2>8 DEF Bits
<1>3. CASE S = 16
  <2>1. CASE P = 1
    BY <1>3, <2>1 DEF Free, Written
  <2>2. CASE P = 2
    BY <1>3, <2>2 DEF Free, Written
  <2>3. CASE P = 4
    BY <1>3, <2>3 DEF Free, Written
  <2>4. CASE P = 8
    BY <1>3, <2>4 DEF Free, Written
  <2>5. CASE P = 16
    BY <1>3, <2>5 DEF Free, Written
  <2>6. CASE P = 32
    BY <1>3, <2>6 DEF Free, Written
  <2>7. CASE P = 64
    BY <1>3, <2>7 DEF Free, Written
  <2>8. CASE P = 128
    BY <1>3, <2>8 DEF Free, Written
  <2> QED BY <2>1, <2>2, <2>3, <2>4, <2>5, <2>6, <2>7, <2>8 DEF Bits
<1>4. CASE S = 256
  <2>1. CASE P = 1
    BY <1>4, <2>1 DEF Free, Written
  <2>2. CASE P = 2
    BY <1>4, <2>2 DEF Free, Written
  <2>3. CASE P = 4
    BY <1>4, <2>3 DEF Free, Written
  <2>4. CASE P = 8
    BY <1>4, <2>4 DEF Free, Written
  <2>5. CASE P = 16
    BY <1>4, <2>5 DEF Free, Written
  <2>6. CASE P = 32
    BY <1>4, <2>6 DEF Free, Written
  <2>7. CASE P = 64
    BY <1>4, <2>7 DEF Free, Written
  <2>8. CASE P = 128
    BY <1>4, <2>8 DEF Free, Written
  <2> QED BY <2>1, <2>2, <2>3, <2>4, <2>5, <2>6, <2>7, <2>8 DEF Bits
<1> QED BY <1>1, <1>2, <1>3, <1>4

\* Powers multiply by adding their exponents.
LEMMA BitSum ==
  ASSUME NEW size \in Sizes, NEW k \in 0 .. 8 - size
  PROVE  /\ Bit(k) \in Bits /\ Bit(size) \in {2, 4, 16, 256} /\ Bit(k + size) = Bit(k) * Bit(size)
<1>1. CASE size = 1
  <2>1. k \in {0, 1, 2, 3, 4, 5, 6, 7}
    BY <1>1
  <2> QED BY <1>1, <2>1, BitIs DEF Bits
<1>2. CASE size = 2
  <2>1. k \in {0, 1, 2, 3, 4, 5, 6}
    BY <1>2
  <2> QED BY <1>2, <2>1, BitIs DEF Bits
<1>3. CASE size = 4
  <2>1. k \in {0, 1, 2, 3, 4}
    BY <1>3
  <2> QED BY <1>3, <2>1, BitIs DEF Bits
<1>4. CASE size = 8
  <2>1. k = 0
    BY <1>4
  <2> QED BY <1>4, <2>1, BitIs DEF Bits
<1> QED BY <1>1, <1>2, <1>3, <1>4 DEF Sizes

\* A higher power is a multiple of a lower.
LEMMA BitDivides ==
  ASSUME NEW j \in 0 .. 7, NEW l \in 0 .. j
  PROVE  Bit(j) \in Bits /\ Bit(l) \in Bits /\ Bit(j) % Bit(l) = 0
<1>1. j \in {0, 1, 2, 3, 4, 5, 6, 7} /\ l \in {0, 1, 2, 3, 4, 5, 6, 7} /\ l <= j
  OBVIOUS
<1>2. /\ l = 0 => Bit(j) % Bit(l) = 0
      /\ l = 1 => Bit(j) % Bit(l) = 0
      /\ l = 2 => Bit(j) % Bit(l) = 0
      /\ l = 3 => Bit(j) % Bit(l) = 0
      /\ l = 4 => Bit(j) % Bit(l) = 0
      /\ l = 5 => Bit(j) % Bit(l) = 0
      /\ l = 6 => Bit(j) % Bit(l) = 0
      /\ l = 7 => Bit(j) % Bit(l) = 0
  BY <1>1, BitIs
<1>3. Bit(j) \in Bits /\ Bit(l) \in Bits
  BY <1>1, BitIs DEF Bits
<1> QED BY <1>1, <1>2, <1>3

\* The lowest bit of a pixel.
Shift(x, size) == 8 - size - (((x - 1) * size) % 8)

\* PlaceOf in terms of Shift.
LEMMA PlaceIs ==
  ASSUME NEW x, NEW size
  PROVE  PlaceOf(x, size) = Bit(Shift(x, size))
BY DEF PlaceOf, Shift

\* An earlier pixel is in an earlier byte, or in higher bits of its byte.
LEMMA Positions ==
  ASSUME NEW size \in Sizes, NEW x \in Nat \ {0}, NEW y \in Nat, x < y
  PROVE  /\ Shift(x, size) \in 0 .. 8 - size /\ ByteOf(x, size) \in Nat \ {0}
         /\ ByteOf(x, size) <= ByteOf(y, size)
         /\ ByteOf(x, size) = ByteOf(y, size) => Shift(x, size) >= Shift(y, size) + size
<1>1. CASE size = 1
  BY <1>1 DEF Shift, ByteOf
<1>2. CASE size = 2
  BY <1>2 DEF Shift, ByteOf
<1>3. CASE size = 4
  BY <1>3 DEF Shift, ByteOf
<1>4. CASE size = 8
  BY <1>4 DEF Shift, ByteOf
<1> QED BY <1>1, <1>2, <1>3, <1>4 DEF Sizes

\* The next pixel is in the bits below, or in the next byte.
LEMMA NextPosition ==
  ASSUME NEW size \in Sizes, NEW x \in Nat \ {0}
  PROVE  \/ ByteOf(x + 1, size) = ByteOf(x, size) /\ Shift(x, size) = Shift(x + 1, size) + size
         \/ ByteOf(x + 1, size) = ByteOf(x, size) + 1
<1>1. CASE size = 1
  BY <1>1 DEF Shift, ByteOf
<1>2. CASE size = 2
  BY <1>2 DEF Shift, ByteOf
<1>3. CASE size = 4
  BY <1>3 DEF Shift, ByteOf
<1>4. CASE size = 8
  BY <1>4 DEF Shift, ByteOf
<1> QED BY <1>1, <1>2, <1>3, <1>4 DEF Sizes

\* A row has a byte for its last pixel (pixmap_row_bytes).
LEMMA RowHolds ==
  ASSUME NEW size \in Sizes, NEW w \in Nat \ {0}
  PROVE  /\ PixmapRowBytes(w, size) \in Nat \ {0}
         /\ ByteOf(w, size) \in 1 .. PixmapRowBytes(w, size)
         /\ Shift(w, size) \in 0 .. 8 - size
<1>1. CASE size = 1
  BY <1>1 DEF Shift, ByteOf, PixmapRowBytes, DivCeil
<1>2. CASE size = 2
  BY <1>2 DEF Shift, ByteOf, PixmapRowBytes, DivCeil
<1>3. CASE size = 4
  BY <1>3 DEF Shift, ByteOf, PixmapRowBytes, DivCeil
<1>4. CASE size = 8
  BY <1>4 DEF Shift, ByteOf, PixmapRowBytes, DivCeil
<1> QED BY <1>1, <1>2, <1>3, <1>4 DEF Sizes

\* An index has as many bits as the depth.
LEMMA IndexIs ==
  ASSUME NEW size \in Sizes, NEW shade \in 0 .. 255
  PROVE  Index(shade, size) \in 0 .. Bit(size) - 1
<1>1. CASE size = 1
  BY <1>1, BitIs DEF Index
<1>2. CASE size = 2
  BY <1>2, BitIs DEF Index
<1>3. CASE size = 4
  BY <1>3, BitIs DEF Index
<1>4. CASE size = 8
  BY <1>4, BitIs DEF Index
<1> QED BY <1>1, <1>2, <1>3, <1>4 DEF Sizes

\* The first m pixels are in place, and below the last of them nothing.
Drawn(bytes, row, size, m, n) ==
  /\ bytes \in [1 .. n -> Nat]
  /\ \A b \in 1 .. n : m = 0 \/ b > ByteOf(m, size) => bytes[b] = 0
  /\ m # 0 => bytes[ByteOf(m, size)] % PlaceOf(m, size) = 0
  /\ \A x \in 1 .. m :
       (bytes[ByteOf(x, size)] \div PlaceOf(x, size)) % Bit(size) = Index(row[x], size)

\* A pixel changes the byte it is in, and no other.
LEMMA PutPixelIs ==
  ASSUME NEW n \in Nat, NEW bytes \in [1 .. n -> Nat], NEW x, NEW size, NEW shade,
         ByteOf(x, size) \in 1 .. n, Index(shade, size) * PlaceOf(x, size) \in Nat
  PROVE  LET g == PutPixel(bytes, x, size, shade)
             c == ByteOf(x, size)
         IN  /\ g \in [1 .. n -> Nat]
             /\ g[c] = bytes[c] + Index(shade, size) * PlaceOf(x, size)
             /\ \A b \in 1 .. n : b # c => g[b] = bytes[b]
<1> DEFINE c == ByteOf(x, size)
           v == Index(shade, size) * PlaceOf(x, size)
           g == PutPixel(bytes, x, size, shade)
<1>1. g = [bytes EXCEPT ![c] = bytes[c] + v]
  BY DEF PutPixel
<1>2. c \in 1 .. n /\ v \in Nat
  OBVIOUS
<1> HIDE DEF c, v, g
<1>3. bytes[c] + v \in Nat
  BY <1>2
<1> QED BY <1>1, <1>2, <1>3 DEF c, v, g

\* A pixel put into free bits can be read, and so can those before it.
LEMMA DrawPixel ==
  ASSUME NEW size \in Sizes, NEW n \in Nat, NEW m \in Nat, NEW bytes, NEW row,
         Drawn(bytes, row, size, m, n),
         ByteOf(m + 1, size) \in 1 .. n, row[m + 1] \in 0 .. 255
  PROVE  Drawn(PutPixel(bytes, m + 1, size, row[m + 1]), row, size, m + 1, n)
<1> DEFINE c == ByteOf(m + 1, size)
           k == Shift(m + 1, size)
           P == PlaceOf(m + 1, size)
           S == Bit(size)
           i == Index(row[m + 1], size)
           g == PutPixel(bytes, m + 1, size, row[m + 1])
           B == bytes[c]
<1>1. k \in 0 .. 8 - size
  <2>1. m + 1 \in Nat \ {0} /\ m + 2 \in Nat /\ m + 1 < m + 2
    OBVIOUS
  <2> QED BY <2>1, Positions
<1>2. P = Bit(k) /\ P \in Bits /\ S \in {2, 4, 16, 256} /\ Bit(k + size) = P * S /\ i \in 0 .. S - 1
  BY <1>1, PlaceIs, BitSum, IndexIs
<1>3. /\ bytes \in [1 .. n -> Nat]
      /\ \A b \in 1 .. n : m = 0 \/ b > ByteOf(m, size) => bytes[b] = 0
      /\ m # 0 => bytes[ByteOf(m, size)] % PlaceOf(m, size) = 0
      /\ \A x \in 1 .. m :
           (bytes[ByteOf(x, size)] \div PlaceOf(x, size)) % S = Index(row[x], size)
  BY DEF Drawn
<1>4. c \in 1 .. n /\ B \in Nat
  BY <1>3
<1>5. P \in Nat /\ S \in Nat /\ P * S \in Nat \ {0} /\ i * P \in Nat
  <2> HIDE DEF P, S, i
  <2>1. P \in Nat \ {0} /\ S \in Nat \ {0} /\ i \in Nat
    BY <1>2 DEF Bits
  <2> QED BY <2>1
<1>6. B % (P * S) = 0
  <2>1. CASE m = 0
    <3>1. B = 0
      BY <1>3, <1>4, <2>1
    <3> HIDE DEF B, P, S
    <3> QED BY <1>5, <3>1
  <2>2. CASE m # 0
    <3>0. m \in Nat \ {0} /\ m + 1 \in Nat /\ m < m + 1
      BY <2>2
    <3>1. ByteOf(m, size) \in Nat \ {0}
      BY <3>0, Positions
    <3>2. CASE c = ByteOf(m, size) /\ Shift(m, size) = k + size
      <4>1. PlaceOf(m, size) = P * S
        BY <1>2, <3>2, PlaceIs
      <4> QED BY <1>3, <2>2, <3>2, <4>1
    <3>3. CASE c = ByteOf(m, size) + 1
      <4>1. c > ByteOf(m, size)
        BY <3>1, <3>3
      <4>2. B = 0
        BY <1>3, <1>4, <4>1
      <4> HIDE DEF B, P, S
      <4> QED BY <1>5, <4>2
    <3> QED BY <3>0, <3>2, <3>3, NextPosition
  <2> QED BY <2>1, <2>2
<1>7. /\ g \in [1 .. n -> Nat] /\ g[c] = B + i * P
      /\ \A b \in 1 .. n : b # c => g[b] = bytes[b]
  BY SMTT(40), <1>3, <1>4, <1>5, PutPixelIs
<1>8. /\ (g[c] \div P) % S = i
      /\ g[c] % P = 0
  <2> HIDE DEF P, S, B, i, c, g
  <2>1. ((B + i * P) \div P) % S = i /\ (B + i * P) % P = 0
    <3>1. P \in Bits
      BY <1>2
    <3>2. S \in {2, 4, 16, 256}
      BY <1>2
    <3>3. i \in 0 .. S - 1
      BY <1>2
    <3>4. B \in Nat
      BY <1>4
    <3>5. Free(B, P, S)
      BY <1>6 DEF Free
    <3>6. Written(B, i, P, S)
      BY <3>1, <3>2, <3>3, <3>4, <3>5, Above
    <3> QED BY <3>6 DEF Written
  <2> QED BY <1>7, <2>1
<1>9. ASSUME NEW x \in 1 .. m
      PROVE  (g[ByteOf(x, size)] \div PlaceOf(x, size)) % S = Index(row[x], size)
  <2>0. x \in Nat \ {0} /\ m + 1 \in Nat /\ x < m + 1
    OBVIOUS
  <2>1. /\ Shift(x, size) \in 0 .. 8 - size /\ ByteOf(x, size) \in Nat \ {0}
        /\ ByteOf(x, size) <= c
        /\ ByteOf(x, size) = c => Shift(x, size) >= k + size
    BY <2>0, Positions
  <2>2. ByteOf(x, size) \in 1 .. n
    BY <1>4, <2>1
  <2>3. CASE ByteOf(x, size) # c
    BY <1>3, <1>7, <2>2, <2>3
  <2>4. CASE ByteOf(x, size) = c
    <3> DEFINE T == PlaceOf(x, size)
               D == P * S
               j == Shift(x, size)
    <3>1. size \in Nat \ {0} /\ j \in 0 .. 7 /\ k + size \in 0 .. j
      BY <1>1, <2>1, <2>4 DEF Sizes
    <3>2. Bit(j) \in Bits /\ Bit(k + size) \in Bits /\ Bit(j) % Bit(k + size) = 0
      <4> HIDE DEF j, k
      <4> QED BY <3>1, BitDivides
    <3>3. T \in Bits /\ D \in Bits /\ T % D = 0
      BY <1>2, <3>2, PlaceIs
    <3>4. i * P \in 0 .. D - 1
      <4> HIDE DEF i, P, S, D, T
      <4>1. P \in Nat /\ i \in 0 .. S - 1 /\ S \in Nat \ {0} /\ P # 0
        BY <1>2 DEF Bits
      <4>2. /\ P = 1 => i * P \in 0 .. P * S - 1
            /\ P = 2 => i * P \in 0 .. P * S - 1
            /\ P = 4 => i * P \in 0 .. P * S - 1
            /\ P = 8 => i * P \in 0 .. P * S - 1
            /\ P = 16 => i * P \in 0 .. P * S - 1
            /\ P = 32 => i * P \in 0 .. P * S - 1
            /\ P = 64 => i * P \in 0 .. P * S - 1
            /\ P = 128 => i * P \in 0 .. P * S - 1
        BY <4>1
      <4>3. i * P \in 0 .. P * S - 1
        BY <1>2, <4>2 DEF Bits
      <4> QED BY <4>3 DEF D
    <3>5. (B + i * P) \div T = B \div T
      <4> DEFINE r == i * P
      <4>1. r \in 0 .. D - 1 /\ B % D = 0
        BY <1>6, <3>4
      <4> HIDE DEF B, r, D, T
      <4>2. (B + r) \div T = B \div T
        BY <1>4, <3>3, <4>1, Below2
      <4> QED BY <4>2 DEF r
    <3>6. (B \div T) % S = Index(row[x], size)
      BY <1>3, <2>4
    <3>7. g[ByteOf(x, size)] = B + i * P
      BY <1>7, <2>4
    <3> HIDE DEF B, T, S, g
    <3> QED BY <3>5, <3>6, <3>7 DEF T
  <2> QED BY <2>3, <2>4
<1>10. ASSUME NEW x \in 1 .. m + 1
       PROVE  (g[ByteOf(x, size)] \div PlaceOf(x, size)) % Bit(size) = Index(row[x], size)
  <2>1. x = m + 1 \/ x \in 1 .. m
    OBVIOUS
  <2>2. CASE x = m + 1
    BY <1>8, <2>2
  <2>3. CASE x \in 1 .. m
    BY <1>9, <2>3
  <2> QED BY <2>1, <2>2, <2>3
<1>11. ASSUME NEW b \in 1 .. n, m + 1 = 0 \/ b > c PROVE g[b] = 0
  <2>1. b > c /\ b # c
    BY <1>4, <1>11
  <2>2. m = 0 \/ b > ByteOf(m, size)
    <3> SUFFICES ASSUME m # 0 PROVE b > ByteOf(m, size)
      OBVIOUS
    <3>1. m \in Nat \ {0} /\ m + 1 \in Nat /\ m < m + 1
      OBVIOUS
    <3>2. ByteOf(m, size) <= c /\ ByteOf(m, size) \in Nat
      BY <3>1, Positions
    <3> QED BY <1>4, <2>1, <3>2
  <2> QED BY <1>3, <1>7, <2>1, <2>2
<1>12. g[ByteOf(m + 1, size)] % PlaceOf(m + 1, size) = 0
  BY <1>8
<1> HIDE DEF g
<1> QED BY <1>7, <1>10, <1>11, <1>12 DEF Drawn, g

\* The recursion of PackPixels, as a relation.
Draws(buf, row, size, n, w) ==
  buf = [x \in 0 .. w |-> IF x = 0 THEN Times(n, 0) ELSE PutPixel(buf[x - 1], x, size, row[x])]

\* The recursion of PackPixels has a solution.
LEMMA DrawsExists ==
  ASSUME NEW row, NEW size, NEW n, NEW w \in Nat
  PROVE  \E buf : Draws(buf, row, size, n, w)
<1> DEFINE D(buf, m) == Draws(buf, row, size, n, m)
           G == {m \in Nat : \E buf : D(buf, m)}
           first == Times(n, 0)
           next(bytes, x) == PutPixel(bytes, x, size, row[x])
<1>0. \A buf : \A m \in Nat :
        D(buf, m) <=> buf = [x \in 0 .. m |-> IF x = 0 THEN first ELSE next(buf[x - 1], x)]
  BY DEF Draws
<1> HIDE DEF D, first, next
<1>1. 0 \in G
  <2> DEFINE h == [x \in 0 .. 0 |-> first]
  <2>1. h = [x \in 0 .. 0 |-> IF x = 0 THEN first ELSE next(h[x - 1], x)]
    OBVIOUS
  <2> HIDE DEF h
  <2>2. D(h, 0)
    BY <1>0, <2>1
  <2> QED BY <2>2
<1>2. ASSUME NEW m \in Nat, m \in G PROVE m + 1 \in G
  <2>1. PICK e : D(e, m)
    BY <1>2
  <2> DEFINE h == [x \in 0 .. m + 1 |->
                     IF x <= m THEN e[x] ELSE IF x = 0 THEN first ELSE next(e[x - 1], x)]
  <2>2. \A x \in 0 .. m : h[x] = e[x]
    OBVIOUS
  <2>3. \A x \in 0 .. m : e[x] = IF x = 0 THEN first ELSE next(e[x - 1], x)
    BY <1>0, <2>1
  <2>4. ASSUME NEW x \in 0 .. m + 1
        PROVE  h[x] = IF x = 0 THEN first ELSE next(h[x - 1], x)
    <3>1. CASE x <= m
      <4>1. x \in 0 .. m /\ (x # 0 => x - 1 \in 0 .. m)
        BY <3>1
      <4> HIDE DEF h
      <4> QED BY <2>2, <2>3, <4>1
    <3>2. CASE ~(x <= m)
      <4>1. x # 0 /\ x - 1 \in 0 .. m
        BY <3>2
      <4>2. h[x] = next(e[x - 1], x)
        BY <3>2, <4>1
      <4> HIDE DEF h
      <4> QED BY <2>2, <4>1, <4>2
    <3> QED BY <3>1, <3>2
  <2>5. h = [x \in 0 .. m + 1 |-> IF x = 0 THEN first ELSE next(h[x - 1], x)]
    BY <2>4
  <2> HIDE DEF h
  <2>6. D(h, m + 1)
    BY <1>0, <2>5
  <2> QED BY <2>6
<1>3. w \in G
  <2> HIDE DEF G
  <2> QED BY <1>1, <1>2, SetInduction
<1> QED BY <1>3 DEF D

Bufs(row, size) == CHOOSE buf : Draws(buf, row, size, PixmapRowBytes(Len(row), size), Len(row))

\* PackPixels is its value for the whole row.
LEMMA PackPixelsIs ==
  ASSUME NEW row, NEW size
  PROVE  PackPixels(row, size) = Bufs(row, size)[Len(row)]
BY DEF PackPixels, Bufs, Draws

\* A pixel that was put in a row is read from it again.
LEMMA PixelsPacked ==
  ASSUME NEW size \in Sizes, NEW w \in Nat \ {0}, NEW row \in [1 .. w -> 0 .. 255]
  PROVE  LET bytes == PackPixels(row, size)
         IN  /\ bytes \in Seq(Nat) /\ Len(bytes) = PixmapRowBytes(w, size)
             /\ \A x \in 1 .. w : ReadPixel(bytes, x, size) = Index(row[x], size)
<1> DEFINE n == PixmapRowBytes(w, size)
           buf == Bufs(row, size)
           P(m) == m <= w => Drawn(buf[m], row, size, m, n)
           G == {m \in Nat : P(m)}
<1>1. row \in Seq(0 .. 255) /\ Len(row) = w
  OBVIOUS
<1>2. n \in Nat \ {0} /\ ByteOf(w, size) \in 1 .. n
  BY RowHolds
<1>3. Draws(buf, row, size, n, w)
  BY <1>1, DrawsExists DEF Bufs
<1> HIDE DEF buf, n
<1>4. \A x \in 0 .. w : buf[x] = IF x = 0 THEN Times(n, 0) ELSE PutPixel(buf[x - 1], x, size, row[x])
  BY <1>3 DEF Draws
<1>5. 0 \in G
  <2>1. buf[0] = Times(n, 0)
    <3>1. 0 \in 0 .. w
      OBVIOUS
    <3> QED BY <1>4, <3>1
  <2>2. Times(n, 0) \in [1 .. n -> Nat] /\ \A b \in 1 .. n : Times(n, 0)[b] = 0
    BY DEF Times
  <2>3. Drawn(buf[0], row, size, 0, n)
    BY <2>1, <2>2 DEF Drawn
  <2> QED BY <2>3
<1>6. ASSUME NEW m \in Nat, m \in G PROVE m + 1 \in G
  <2> SUFFICES ASSUME m + 1 <= w PROVE Drawn(buf[m + 1], row, size, m + 1, n)
    OBVIOUS
  <2>1. m + 1 \in 0 .. w /\ m + 1 # 0 /\ m + 1 - 1 = m /\ m + 1 \in 1 .. w /\ m <= w
        /\ m + 1 \in Nat \ {0}
    OBVIOUS
  <2>2. buf[m + 1] = PutPixel(buf[m], m + 1, size, row[m + 1])
    BY <1>4, <2>1
  <2>3. Drawn(buf[m], row, size, m, n)
    BY <1>6, <2>1
  <2>4. ByteOf(m + 1, size) \in 1 .. n
    <3>1. CASE m + 1 = w
      BY <1>2, <3>1
    <3>2. CASE m + 1 # w
      <4>1. m + 1 < w
        BY <2>1, <3>2
      <4>2. ByteOf(m + 1, size) \in Nat \ {0} /\ ByteOf(m + 1, size) <= ByteOf(w, size)
        BY <2>1, <4>1, Positions
      <4> QED BY <1>2, <4>2
    <3> QED BY <3>1, <3>2
  <2>5. row[m + 1] \in 0 .. 255
    BY <2>1
  <2>6. n \in Nat
    BY <1>2
  <2> DEFINE e == buf[m]
  <2>7. Drawn(e, row, size, m, n)
    BY <2>3
  <2> HIDE DEF P, G, e
  <2>8. Drawn(PutPixel(e, m + 1, size, row[m + 1]), row, size, m + 1, n)
    BY <2>4, <2>5, <2>6, <2>7, DrawPixel
  <2> QED BY <2>2, <2>8 DEF e
<1>7. w \in G
  <2> HIDE DEF G
  <2>1. Nat \subseteq G
    BY <1>5, <1>6, SetInduction
  <2> QED BY <2>1
<1> DEFINE bytes == PackPixels(row, size)
<1>8. Drawn(bytes, row, size, w, n)
  BY <1>1, <1>7, PackPixelsIs DEF buf
<1> HIDE DEF bytes
<1>9. bytes \in [1 .. n -> Nat]
  BY <1>8 DEF Drawn
<1>10. bytes \in Seq(Nat) /\ Len(bytes) = n
  BY <1>2, <1>9
<1>11. ASSUME NEW x \in 1 .. w PROVE ReadPixel(bytes, x, size) = Index(row[x], size)
  <2>1. size # 32
    BY DEF Sizes
  <2> QED BY <1>8, <2>1 DEF Drawn, ReadPixel
<1> QED BY <1>10, <1>11 DEF n, bytes

\* A pixel of a direct row.
Quad(p) == <<0, p, p, p>>

\* Of four bytes a pixel, the second is its shade.
LEMMA DirectRowIs ==
  ASSUME NEW w \in Nat \ {0}, NEW row \in [1 .. w -> 0 .. 255]
  PROVE  LET bytes == DirectRow(row)
         IN  /\ bytes \in Seq(Nat) /\ Len(bytes) = w * 4
             /\ \A x \in 1 .. w : ReadPixel(bytes, x, 32) = row[x]
<1> DEFINE seqs == [x \in 1 .. w |-> Quad(row[x])]
           bytes == DirectRow(row)
           O(x) == Offset(seqs, x)
           P(m) == m <= w => O(m) = 4 * m
           G == {m \in Nat : P(m)}
<1>1. Len(row) = w
  OBVIOUS
<1>2. bytes = FlattenSeq(seqs)
  BY <1>1 DEF DirectRow, Quad
<1>3. Len(seqs) = w
  OBVIOUS
<1>4. \A x \in 1 .. w : /\ seqs[x] \in Seq(Nat) /\ Len(seqs[x]) = 4
                        /\ seqs[x][2] = row[x]
  <2> SUFFICES ASSUME NEW x \in 1 .. w
               PROVE  seqs[x] \in Seq(Nat) /\ Len(seqs[x]) = 4 /\ seqs[x][2] = row[x]
    OBVIOUS
  <2>1. row[x] \in Nat
    <3>1. row[x] \in 0 .. 255
      OBVIOUS
    <3> DEFINE z == row[x]
    <3> HIDE DEF z
    <3>2. z \in 0 .. 255
      BY <3>1 DEF z
    <3>3. z \in Nat
      BY <3>2
    <3> QED BY <3>3 DEF z
  <2>2. seqs[x] = Quad(row[x])
    OBVIOUS
  <2> HIDE DEF seqs
  <2> DEFINE p == row[x]
  <2>3. p \in Nat
    BY <2>1
  <2>4. seqs[x] = <<0, p, p, p>>
    BY <2>2 DEF Quad
  <2> HIDE DEF p
  <2>5. seqs[x] \in Seq(Nat) /\ Len(seqs[x]) = 4 /\ seqs[x][2] = p
    BY <2>3, <2>4
  <2> QED BY <2>5 DEF p
<1> HIDE DEF seqs, bytes
<1>5. /\ bytes \in Seq(Nat) /\ O(0) = 0
      /\ \A x \in 1 .. w : /\ O(x - 1) \in Nat /\ O(x) = O(x - 1) + 4
                           /\ \A k \in 1 .. 4 : bytes[O(x - 1) + k] = seqs[x][k]
      /\ Len(bytes) = O(w)
  <2> HIDE DEF O
  <2>1. Len(seqs) \in Nat \ {0} /\ \A x \in 1 .. Len(seqs) : seqs[x] \in Seq(Nat)
    BY <1>3, <1>4
  <2>2. /\ FlattenSeq(seqs) \in Seq(Nat) /\ Offset(seqs, 0) = 0
        /\ \A x \in 1 .. Len(seqs) :
             /\ Offset(seqs, x - 1) \in Nat
             /\ Offset(seqs, x) = Offset(seqs, x - 1) + Len(seqs[x])
             /\ \A k \in 1 .. Len(seqs[x]) : FlattenSeq(seqs)[Offset(seqs, x - 1) + k] = seqs[x][k]
        /\ Len(FlattenSeq(seqs)) = Offset(seqs, Len(seqs))
    BY <2>1, FlattenLaid
  <2> QED BY ZenonT(60), <1>2, <1>3, <1>4, <2>2 DEF O
<1> HIDE DEF O
<1>6. 0 \in G
  BY <1>5
<1>7. ASSUME NEW m \in Nat, m \in G PROVE m + 1 \in G
  <2> SUFFICES ASSUME m + 1 <= w PROVE O(m + 1) = 4 * (m + 1)
    OBVIOUS
  <2>1. m + 1 \in 1 .. w /\ m + 1 - 1 = m /\ m <= w
    OBVIOUS
  <2>2. O(m + 1) = O(m) + 4 /\ O(m) = 4 * m
    BY <1>5, <1>7, <2>1
  <2> QED BY <2>2
<1>8. \A m \in 0 .. w : O(m) = 4 * m
  <2> SUFFICES ASSUME NEW m \in 0 .. w PROVE O(m) = 4 * m
    OBVIOUS
  <2>1. m \in G
    <3> HIDE DEF G
    <3>1. Nat \subseteq G
      BY <1>6, <1>7, SetInduction
    <3> QED BY <3>1
  <2> QED BY <2>1
<1>9. ASSUME NEW x \in 1 .. w PROVE ReadPixel(bytes, x, 32) = row[x]
  <2>1. x - 1 \in 0 .. w /\ 2 \in 1 .. 4
    OBVIOUS
  <2>2. O(x - 1) = 4 * (x - 1)
    BY <1>8, <2>1
  <2>3. bytes[O(x - 1) + 2] = seqs[x][2]
    BY <1>5, <2>1
  <2> QED BY <1>4, <2>2, <2>3 DEF ReadPixel
<1>10. Len(bytes) = w * 4
  <2>1. O(w) = 4 * w
    BY <1>8
  <2> QED BY <1>5, <2>1
<1> QED BY <1>5, <1>9, <1>10 DEF bytes

-----------------------------------------------------------------------------
(* The picture                                                             *)

Pixels(rows, img, size) ==
  \A y \in 1 .. img.h : \A x \in 1 .. img.w :
    ReadPixel(rows[y], x, size) = IF size = 32 THEN img.px[y][x] ELSE Index(img.px[y][x], size)

\* A file is read as the image when its rows are stored and hold the pixels.
LEMMA ImageRead ==
  ASSUME NEW file, NEW rows, NEW seqs, NEW img, Stored(file, rows, seqs),
         file.h = img.h, file.w = img.w, Pixels(rows, img, file.size)
  PROVE  ReadImage(file) = AtDepth(img, file.size)
<1> DEFINE read == ReadRows(file)
           a(y) == [x \in 1 .. img.w |-> ReadPixel(read[y], x, file.size)]
           b(y) == [x \in 1 .. img.w |->
                      IF file.size = 32 THEN img.px[y][x] ELSE Index(img.px[y][x], file.size)]
<1>1. \A y \in 1 .. img.h : read[y] = rows[y] /\ Len(read[y]) = file.rowBytes
  <2>1. \A y \in 1 .. img.h : read[y] = rows[y]
    BY FileRead
  <2>2. \A y \in 1 .. img.h : Len(rows[y]) = file.rowBytes
    BY DEF Stored
  <2> QED BY <2>1, <2>2
<1>2. ReadImage(file) = [y \in 1 .. img.h |-> a(y)]
  <2> HIDE DEF read
  <2>1. \A y \in 1 .. file.h : Len(read[y]) = file.rowBytes
    BY <1>1
  <2>2. ReadImage(file) = IF \A y \in 1 .. file.h : Len(read[y]) = file.rowBytes
                          THEN [y \in 1 .. file.h |-> [x \in 1 .. file.w |-> ReadPixel(read[y], x, file.size)]]
                          ELSE <<>>
    BY DEF ReadImage, read
  <2> QED BY <2>1, <2>2
<1>3. AtDepth(img, file.size) = [y \in 1 .. img.h |-> b(y)]
  BY DEF AtDepth
<1>4. ASSUME NEW y \in 1 .. img.h PROVE a(y) = b(y)
  <2>1. \A x \in 1 .. img.w : ReadPixel(read[y], x, file.size)
           = IF file.size = 32 THEN img.px[y][x] ELSE Index(img.px[y][x], file.size)
    <3> HIDE DEF read
    <3> QED BY <1>1 DEF Pixels
  <2> QED BY <2>1
<1> HIDE DEF a, b
<1>5. [y \in 1 .. img.h |-> a(y)] = [y \in 1 .. img.h |-> b(y)]
  BY <1>4
<1> QED BY <1>2, <1>3, <1>5

IsImage(img) ==
  /\ img.w \in Nat \ {0} /\ img.h \in Nat \ {0}
  /\ img.px \in [1 .. img.h -> [1 .. img.w -> 0 .. 255]]

\* The fields of a header.
LEMMA FileIs ==
  ASSUME NEW op, NEW img, NEW size, NEW colors, NEW rowBytes, NEW data
  PROVE  LET f == File(op, img, size, colors, rowBytes, data)
         IN  /\ f.op = op /\ f.w = img.w /\ f.h = img.h /\ f.size = size
             /\ f.rowBytes = rowBytes % RowMod /\ f.data = data
BY DEF File

\* Every row of an image is packed to rowBytes bytes that hold its pixels.
LEMMA RowsPacked ==
  ASSUME NEW img, IsImage(img), NEW size \in Sizes, NEW rows,
         rows = [y \in 1 .. img.h |-> PackPixels(img.px[y], size)]
  PROVE  /\ \A y \in 1 .. img.h : rows[y] \in Seq(Nat) /\ Len(rows[y]) = PixmapRowBytes(img.w, size)
         /\ Pixels(rows, img, size)
<1>1. ASSUME NEW y \in 1 .. img.h
      PROVE  /\ rows[y] \in Seq(Nat) /\ Len(rows[y]) = PixmapRowBytes(img.w, size)
             /\ \A x \in 1 .. img.w : ReadPixel(rows[y], x, size) = Index(img.px[y][x], size)
  <2>1. img.px[y] \in [1 .. img.w -> 0 .. 255] /\ img.w \in Nat \ {0}
    BY DEF IsImage
  <2>2. rows[y] = PackPixels(img.px[y], size)
    OBVIOUS
  <2> QED BY ZenonT(60), <2>1, <2>2, PixelsPacked
<1>2. size # 32
  BY DEF Sizes
<1> QED BY <1>1, <1>2 DEF Pixels

\* A rowBytes below RowMod is written whole.
LEMMA NotCut ==
  ASSUME NEW n \in Nat, n < RowMod
  PROVE  n % RowMod = n
BY PictAssumption

\* What encode_packbits writes is read as the image, unless its rows are so
\* short that they are not expected packed.
LEMMA PackBitsShown ==
  ASSUME NEW img, IsImage(img), NEW size \in Sizes, NEW mode,
         PixmapRowBytes(img.w, size) < RowMod, PixmapRowBytes(img.w, size) >= ShortRow
  PROVE  ReadImage(EncodePackBits(img, size, mode)) = AtDepth(img, size)
<1> DEFINE n == PixmapRowBytes(img.w, size)
           rows == [y \in 1 .. img.h |-> PackPixels(img.px[y], size)]
           seqs == [y \in 1 .. img.h |-> CountedRow(PackPixels(img.px[y], size))]
           file == EncodePackBits(img, size, mode)
<1>1. /\ file.op = "PackBitsRect" /\ file.w = img.w /\ file.h = img.h /\ file.size = size
      /\ file.rowBytes = n % RowMod /\ file.data = FlattenSeq(seqs)
  BY FileIs DEF EncodePackBits
<1>2. img.h \in Nat \ {0} /\ n \in Nat \ {0}
  BY RowHolds DEF IsImage
<1>3. n % RowMod = n
  <2>1. n < RowMod
    OBVIOUS
  <2> HIDE DEF n
  <2> QED BY <1>2, <2>1, NotCut
<1>4. /\ \A y \in 1 .. img.h : rows[y] \in Seq(Nat) /\ Len(rows[y]) = n
      /\ Pixels(rows, img, size)
  BY RowsPacked
<1>5. Len(seqs) = img.h
  BY <1>2
<1>6. \A y \in 1 .. img.h : seqs[y] = CountedRow(rows[y])
  OBVIOUS
<1>9. n >= ShortRow
  OBVIOUS
<1> HIDE DEF rows, seqs, file, n
<1>10. TakenAsPacked(file)
  BY <1>1, <1>3, <1>9 DEF TakenAsPacked
<1>7. Stored(file, rows, seqs)
  BY <1>1, <1>2, <1>3, <1>4, <1>5, <1>6, <1>10 DEF Stored
<1>8. ReadImage(file) = AtDepth(img, file.size)
  <2>1. Pixels(rows, img, file.size) /\ file.h = img.h /\ file.w = img.w
    BY <1>1, <1>4
  <2> QED BY <1>7, <2>1, ImageRead
<1> QED BY <1>1, <1>8 DEF file

\* What encode_bitmap writes is read as the image.
LEMMA BitmapShown ==
  ASSUME NEW img, IsImage(img), PixmapRowBytes(img.w, 1) < RowMod
  PROVE  ReadImage(EncodeBitmap(img)) = AtDepth(img, 1)
<1> DEFINE n == PixmapRowBytes(img.w, 1)
           rows == [y \in 1 .. img.h |-> PackPixels(img.px[y], 1)]
           file == EncodeBitmap(img)
<1>0. 1 \in Sizes
  BY DEF Sizes
<1>1. /\ file.op = "BitsRect" /\ file.w = img.w /\ file.h = img.h /\ file.size = 1
      /\ file.rowBytes = BitmapRowBytes(img.w) % RowMod /\ file.data = FlattenSeq(rows)
  BY FileIs DEF EncodeBitmap
<1>2. img.h \in Nat \ {0} /\ n \in Nat \ {0}
  BY <1>0, RowHolds DEF IsImage
<1>3. BitmapRowBytes(img.w) = n
  <2>1. img.w * 1 = img.w
    BY DEF IsImage
  <2> QED BY <2>1 DEF BitmapRowBytes, PixmapRowBytes
<1>4. n % RowMod = n
  <2>1. n < RowMod
    OBVIOUS
  <2> HIDE DEF n
  <2> QED BY <1>2, <2>1, NotCut
<1>5. /\ \A y \in 1 .. img.h : rows[y] \in Seq(Nat) /\ Len(rows[y]) = n
      /\ Pixels(rows, img, 1)
  BY <1>0, RowsPacked
<1>6. Len(rows) = img.h
  BY <1>2
<1> HIDE DEF rows, file, n
<1>7. ~TakenAsPacked(file)
  BY <1>1 DEF TakenAsPacked
<1>8. Stored(file, rows, rows)
  BY <1>1, <1>2, <1>3, <1>4, <1>5, <1>6, <1>7 DEF Stored
<1>9. ReadImage(file) = AtDepth(img, file.size)
  <2>1. Pixels(rows, img, file.size) /\ file.h = img.h /\ file.w = img.w
    BY <1>1, <1>5
  <2> QED BY <1>8, <2>1, ImageRead
<1> QED BY <1>1, <1>9 DEF file

\* What encode_direct_bits_rect_rgb writes is read as the image.
LEMMA DirectShown ==
  ASSUME NEW img, IsImage(img), 4 * img.w < RowMod
  PROVE  ReadImage(EncodeDirect(img)) = AtDepth(img, 32)
<1> DEFINE n == img.w * 4
           rows == [y \in 1 .. img.h |-> DirectRow(img.px[y])]
           file == EncodeDirect(img)
<1>1. /\ file.op = "DirectBitsRect" /\ file.w = img.w /\ file.h = img.h /\ file.size = 32
      /\ file.rowBytes = n % RowMod /\ file.data = FlattenSeq(rows)
  BY FileIs DEF EncodeDirect
<1>2. img.h \in Nat \ {0} /\ n \in Nat \ {0}
  BY DEF IsImage
<1>3. n % RowMod = n
  <2>1. n < RowMod
    BY DEF IsImage
  <2> HIDE DEF n
  <2> QED BY <1>2, <2>1, NotCut
<1>4. ASSUME NEW y \in 1 .. img.h
      PROVE  /\ rows[y] \in Seq(Nat) /\ Len(rows[y]) = n
             /\ \A x \in 1 .. img.w : ReadPixel(rows[y], x, 32) = img.px[y][x]
  <2>1. img.px[y] \in [1 .. img.w -> 0 .. 255] /\ img.w \in Nat \ {0}
    BY DEF IsImage
  <2>2. rows[y] = DirectRow(img.px[y])
    OBVIOUS
  <2> HIDE DEF rows
  <2> QED BY ZenonT(60), <2>1, <2>2, DirectRowIs
<1>5. Len(rows) = img.h
  BY <1>2
<1> HIDE DEF rows, file, n
<1>6. Pixels(rows, img, 32)
  BY <1>4 DEF Pixels
<1>7. ~TakenAsPacked(file)
  BY <1>1 DEF TakenAsPacked
<1>8. Stored(file, rows, rows)
  BY <1>1, <1>2, <1>3, <1>4, <1>5, <1>7 DEF Stored
<1>9. ReadImage(file) = AtDepth(img, file.size)
  <2>1. Pixels(rows, img, file.size) /\ file.h = img.h /\ file.w = img.w
    BY <1>1, <1>6
  <2> QED BY <1>8, <2>1, ImageRead
<1> QED BY <1>1, <1>9 DEF file

\* Every image whose rows the header can describe and, where they are packed, a
\* Mac expects packed, is read at every depth as it was encoded (encode_packbits,
\* encode_bitmap, encode_direct_bits_rect_rgb).
THEOREM EncodedIsRead ==
  ASSUME NEW img, IsImage(img), NEW v, v.depth \in {1, 2, 4, 8, 24},
         Representable(EncodePict(img, v)), LongEnough(EncodePict(img, v))
  PROVE  ReadImage(EncodePict(img, v)) = AtDepth(img, EncodePict(img, v).size)
<1> DEFINE file == EncodePict(img, v)
<1>0. Representable(file) /\ LongEnough(file)
  OBVIOUS
<1>1. CASE v.depth = 1
  <2>1. file = EncodeBitmap(img)
    BY <1>1 DEF EncodePict
  <2>2. file.size = 1 /\ file.w = img.w
    BY <2>1, FileIs DEF EncodeBitmap
  <2> HIDE DEF file
  <2>3. PixmapRowBytes(img.w, 1) < RowMod
    BY <1>0, <2>2 DEF Representable
  <2> QED BY <2>1, <2>2, <2>3, BitmapShown DEF file
<1>2. CASE v.depth = 24
  <2>1. file = EncodeDirect(img)
    BY <1>2 DEF EncodePict
  <2>2. file.size = 32 /\ file.w = img.w
    BY <2>1, FileIs DEF EncodeDirect
  <2> HIDE DEF file
  <2>3. 4 * img.w < RowMod
    BY <1>0, <2>2 DEF Representable
  <2> QED BY <2>1, <2>2, <2>3, DirectShown DEF file
<1>3. CASE v.depth \in {2, 4, 8}
  <2> DEFINE n == PixmapRowBytes(img.w, v.depth)
  <2>1. file = EncodePackBits(img, v.depth, v.mode)
    BY <1>3 DEF EncodePict
  <2>2. file.size = v.depth /\ file.w = img.w /\ file.op = "PackBitsRect"
    BY <2>1, FileIs DEF EncodePackBits
  <2>3. v.depth \in Sizes /\ v.depth # 32
    BY <1>3 DEF Sizes
  <2> HIDE DEF file
  <2>4. n < RowMod /\ n >= ShortRow
    BY <1>0, <2>2, <2>3 DEF Representable, LongEnough
  <2> QED BY <2>1, <2>2, <2>3, <2>4, PackBitsShown DEF file
<1> QED BY <1>1, <1>2, <1>3

-----------------------------------------------------------------------------
(* The picture of a request                                                *)

\* A place in 1 .. n is carried to one in 1 .. m, as Resize does.
LEMMA PlaceWithin ==
  ASSUME NEW m \in Nat \ {0}, NEW n \in Nat \ {0}, NEW y \in 1 .. n
  PROVE  ((y - 1) * m) \div n + 1 \in 1 .. m
<1> DEFINE a == (y - 1) * m
           q == a \div n
<1>1. y - 1 \in Nat /\ y <= n
  OBVIOUS
<1>2. a \in Nat /\ a + m <= n * m
  <2> DEFINE u == y - 1
             d == n - y
  <2>1. u \in Nat /\ d \in Nat /\ n = u + d + 1
    OBVIOUS
  <2> HIDE DEF u, d
  <2>2. u * m \in Nat /\ d * m \in Nat /\ (u + d + 1) * m = u * m + d * m + m
    BY <2>1
  <2>3. n * m = u * m + d * m + m
    BY <2>1, <2>2
  <2>4. a = u * m
    BY DEF u
  <2> HIDE DEF a
  <2> QED BY <2>2, <2>3, <2>4
<1> HIDE DEF a
<1>3. q \in Nat /\ n * q <= a
  BY <1>2, Quotient
<1> HIDE DEF q
<1>4. q < m
  <2> SUFFICES ASSUME q >= m PROVE FALSE
    BY <1>3
  <2>1. n * q >= n * m
    <3> DEFINE e == q - m
    <3>1. e \in Nat /\ q = m + e
      BY <1>3
    <3> HIDE DEF e
    <3>2. n * (m + e) = n * m + n * e /\ n * e \in Nat /\ n * m \in Nat
      BY <3>1
    <3> QED BY <3>1, <3>2
  <2>2. n * m \in Nat /\ n * q \in Nat
    BY <1>3
  <2> QED BY <1>2, <1>3, <2>1, <2>2
<1> QED BY <1>3, <1>4 DEF q, a

\* A resized image is an image.
LEMMA ResizedIsImage ==
  ASSUME NEW art, IsImage(art), NEW to, to.w \in Nat \ {0}, to.h \in Nat \ {0}
  PROVE  IsImage(Resize(art, to))
<1> DEFINE img == Resize(art, to)
           v(y) == ((y - 1) * art.h) \div to.h + 1
           u(x) == ((x - 1) * art.w) \div to.w + 1
<1>1. img.w = to.w /\ img.h = to.h
      /\ img.px = [y \in 1 .. to.h |-> [x \in 1 .. to.w |-> art.px[v(y)][u(x)]]]
  BY DEF Resize
<1>2. art.w \in Nat \ {0} /\ art.h \in Nat \ {0}
      /\ art.px \in [1 .. art.h -> [1 .. art.w -> 0 .. 255]]
  BY DEF IsImage
<1>3. \A y \in 1 .. to.h : v(y) \in 1 .. art.h
  BY <1>2, PlaceWithin
<1>4. \A x \in 1 .. to.w : u(x) \in 1 .. art.w
  BY <1>2, PlaceWithin
<1> HIDE DEF img, u, v
<1>5. \A y \in 1 .. to.h : \A x \in 1 .. to.w : art.px[v(y)][u(x)] \in 0 .. 255
  BY ZenonT(60), <1>2, <1>3, <1>4
<1>6. img.px \in [1 .. to.h -> [1 .. to.w -> 0 .. 255]]
  <2> DEFINE r(y) == [x \in 1 .. to.w |-> art.px[v(y)][u(x)]]
  <2>1. \A y \in 1 .. to.h : r(y) \in [1 .. to.w -> 0 .. 255]
    BY <1>5
  <2>2. img.px = [y \in 1 .. to.h |-> r(y)]
    BY <1>1
  <2> HIDE DEF r
  <2> QED BY ZenonT(60), <2>1, <2>2
<1>7. IsImage(img)
  BY <1>1, <1>6 DEF IsImage
<1> QED BY <1>7 DEF img

\* The pictures of the invariant are read as what was asked for.
LEMMA InvShown == Inv => PictShowsTheImage
<1> SUFFICES ASSUME Inv, NEW c \in Pictured, job[c].answer.type = "pict",
                    Representable(job[c].answer.file), LongEnough(job[c].answer.file)
             PROVE  LET q == job[c].q
                        file == job[c].answer.file
                    IN  \E art \in {v \in Versions(q.track) : v.is = "image"} :
                          ReadImage(file) = AtDepth(Resized(art, q), file.size)
  BY DEF PictShowsTheImage
<1> DEFINE q == job[c].q
           file == job[c].answer.file
<1>1. /\ c \in Clients /\ PictureOf(q, file) /\ ~Rejected(q) /\ q \in album.asks[c]
      /\ VariantOf(q).kind = "pict"
  BY DEF Inv, JobOK, Pictured
<1>2. PICK i \in 1 .. at[q.track] :
        Encodes(album.art[q.track][i], q) /\ file = Encode(album.art[q.track][i], q)
  BY <1>1 DEF PictureOf
<1> DEFINE art == album.art[q.track][i]
           img == Resized(art, q)
           v == VariantOf(q)
<1>3. art.is = "image"
  BY <1>2 DEF Encodes
<1>4. album \in Albums /\ q.track \in DOMAIN album.art
  BY <1>1, ArtworkAssumption DEF Inv, Settings, Clients
<1>5. i \in 1 .. Len(album.art[q.track])
  <2>1. /\ at[q.track] \in Nat \ {0} /\ at[q.track] <= Len(album.art[q.track])
        /\ Len(album.art[q.track]) \in Nat
    <3>1. at[q.track] \in Nat \ {0} /\ at[q.track] <= Len(album.art[q.track])
      BY <1>4 DEF Inv, Settings
    <3>2. Len(album.art[q.track]) \in Nat
      BY <1>4, ArtworkAssumption
    <3> QED BY <3>1, <3>2
  <2>2. i \in 1 .. at[q.track]
    BY <1>2
  <2> HIDE DEF q
  <2> QED BY <2>1, <2>2
<1>6. art.w \in Nat \ {0} /\ art.h \in Nat \ {0}
  BY <1>3, <1>4, <1>5, ArtworkAssumption
<1>7. IsImage(art)
  <2>1. art.px \in [1 .. art.h -> [1 .. art.w -> 0 .. 255]]
    BY ZenonT(60), <1>3, <1>4, <1>5, ImagesAssumption
  <2> HIDE DEF art
  <2> QED BY <1>6, <2>1 DEF IsImage
<1>8. (q.mw = None \/ q.mw \in Nat \ {0}) /\ (q.mh = None \/ q.mh \in Nat \ {0})
  BY <1>1, ArtworkAssumption DEF Rejected
<1>9. art \in {a \in Versions(q.track) : a.is = "image"}
  BY <1>2, <1>3 DEF Versions
<1>10. file = EncodePict(img, v)
  BY <1>1, <1>2 DEF Encode
<1>14. Representable(file) /\ LongEnough(file)
  OBVIOUS
<1> HIDE DEF q, file, art
<1>11. IsImage(img)
  <2> DEFINE to == FitWithin(art, q.mw, q.mh)
  <2>1. to.w \in 1 .. art.w /\ to.h \in 1 .. art.h
    BY <1>6, <1>8, FitIsWithin
  <2>2. to.w \in Nat \ {0} /\ to.h \in Nat \ {0}
    <3> HIDE DEF to
    <3> QED BY <1>6, <2>1
  <2> HIDE DEF to
  <2>3. IsImage(Resize(art, to))
    BY <1>7, <2>2, ResizedIsImage
  <2> QED BY <2>3 DEF Resized, to
<1>12. v.depth \in {1, 2, 4, 8, 24}
  <2>1. v.depth \in {1, 8, 24} \/ v.depth \in {2, 4}
    BY <1>1, DepthHasMode
  <2> HIDE DEF v
  <2> QED BY <2>1
<1> HIDE DEF img, v
<1>13. ReadImage(file) = AtDepth(img, file.size)
  BY <1>10, <1>11, <1>12, <1>14, EncodedIsRead
<1> QED BY <1>9, <1>13 DEF q, file, img

\* Whatever the artwork, the box and the depth asked for, a Mac that reads the
\* PICT it is sent sees the image in the size and depth of its request, unless
\* the picture is too wide for rowBytes or too narrow for packed rows
\* (decode_and_resize, encode_pict and the encoders).
THEOREM PicturesShown == Spec => []PictShowsTheImage
BY Invariance, InvShown, PTL
=============================================================================
