--------------------------- MODULE SourcesProofs ---------------------------
(***************************************************************************)
(* Theorems about Sources, for every media server, Subsonic server,        *)
(* directory and command line: what crashes can do to the cache, how many  *)
(* requests are under way, that ids identify, that a catalogue is that of  *)
(* its source and whole, also when it comes from the disk, and that its    *)
(* playlists are what they are named for.                                  *)
(*                                                                         *)
(* FlattenSeq and ParseDidlLite are recursive functions, and what they     *)
(* return is shown by induction over the naturals, in the form of sets:    *)
(* the parser returns the containers and the tracks of the elements whose  *)
(* events it read, and the pages of a listing, joined, are the listing.    *)
(* On this rest three invariants, in order: ids are positions (NumberInv), *)
(* what is in a catalogue was seen of its source and what is not in it     *)
(* waits or was missed (WholeInv), and a playlist is a run of tracks, some *)
(* entries or the files of a directory (ListsInv).                         *)
(***************************************************************************)
EXTENDS Sources, FiniteSetTheorems, FunctionTheorems, SequenceTheorems,
        WellFoundedInduction, TLAPS

(***************************************************************************)
(* Induction over the naturals, in the form of sets.                       *)
(***************************************************************************)
\* The order of the naturals.
Below == {p \in Nat \X Nat : p[1] < p[2]}

\* The naturals are well founded.
LEMMA BelowWellFounded == IsWellFoundedOn(Below, Nat)
<1>1. Below = OpToRel(<, Nat)
  BY DEF Below, OpToRel
<1> QED
  BY <1>1, NatLessThanWellFounded

\* A set of naturals that is not empty has a least element.
LEMMA Least ==
  ASSUME NEW T, T \subseteq Nat, T # {}
  PROVE  \E x \in T : \A y \in T : x <= y
<1>1. PICK x \in T : \A y \in T : ~ (<<y, x>> \in Below)
  BY BelowWellFounded, WFMin, Zenon
<1>2. ASSUME NEW y \in T
      PROVE  x <= y
  <2>1. <<y, x>> \in Nat \X Nat /\ <<y, x>>[1] = y /\ <<y, x>>[2] = x
    OBVIOUS
  <2> QED
    BY <1>1, <2>1 DEF Below
<1> QED
  BY <1>2

\* A set of naturals with 0 and every successor is all of them.
LEMMA SetInduction ==
  ASSUME NEW G, 0 \in G, \A n \in Nat : n \in G => n + 1 \in G
  PROVE  Nat \subseteq G
<1> SUFFICES ASSUME ~ Nat \subseteq G
             PROVE  FALSE
  OBVIOUS
<1>1. PICK x \in Nat \ G : \A y \in Nat \ G : x <= y
  BY Least
<1>2. x # 0 /\ x - 1 \in Nat /\ x - 1 \in G
  BY <1>1
<1> QED
  BY <1>1, <1>2

(***************************************************************************)
(* Sequences of whatever elements                                          *)
(***************************************************************************)
\* A sequence, of elements of whatever set.
IsSeq(s) == \E T : s \in Seq(T)

\* The sequences there are: the empty one,
LEMMA EmptyIsSeq == IsSeq(<<>>)
BY EmptySeq DEF IsSeq

\* whose length is a number,
LEMMA IsSeqLen ==
  ASSUME NEW s, IsSeq(s)
  PROVE  Len(s) \in Nat
BY DEF IsSeq

\* and whose places are counted from one,
LEMMA IsSeqDef ==
  ASSUME NEW s, IsSeq(s)
  PROVE  DOMAIN s = 1 .. Len(s)
BY DEF IsSeq

\* a function of its places,
LEMMA FunctionIsSeq ==
  ASSUME NEW n \in Nat, NEW T, NEW f \in [1 .. n -> T]
  PROVE  IsSeq(f) /\ Len(f) = n
<1>1. f \in Seq(T)
  BY SeqDef
<1> QED
  BY <1>1 DEF IsSeq

\* two of them joined,
LEMMA ConcatIsSeq ==
  ASSUME NEW s, NEW t, IsSeq(s), IsSeq(t)
  PROVE  /\ IsSeq(s \o t)
         /\ Len(s \o t) = Len(s) + Len(t)
         /\ \A i \in 1 .. Len(s) + Len(t) :
              (s \o t)[i] = IF i <= Len(s) THEN s[i] ELSE t[i - Len(s)]
<1>1. PICK T : s \in Seq(T)
  BY DEF IsSeq
<1>2. PICK U : t \in Seq(U)
  BY DEF IsSeq
<1>3. s \in Seq(T \cup U) /\ t \in Seq(T \cup U)
  BY <1>1, <1>2, SeqMonotonic
<1> QED
  BY <1>3, ConcatProperties DEF IsSeq

\* one with another element,
LEMMA AppendIsSeq ==
  ASSUME NEW s, NEW x, IsSeq(s)
  PROVE  /\ IsSeq(Append(s, x))
         /\ Len(Append(s, x)) = Len(s) + 1
         /\ \A i \in 1 .. Len(s) + 1 : Append(s, x)[i] = IF i = Len(s) + 1 THEN x ELSE s[i]
<1>1. PICK T : s \in Seq(T)
  BY DEF IsSeq
<1>2. s \in Seq(T \cup {x})
  BY <1>1, SeqMonotonic
<1>3. Append(s, x) \in Seq(T \cup {x})
  BY <1>2
<1> QED
  BY <1>2, <1>3 DEF IsSeq

\* and that of one element.
LEMMA OneIsSeq == ASSUME NEW x PROVE IsSeq(<<x>>)
BY <<x>> \in Seq({x}) DEF IsSeq

(***************************************************************************)
(* FlattenSeq                                                              *)
(***************************************************************************)
\* The recursion of FlattenSeq, as a relation.
Flattens(f, n, seqs) ==
  f = [i \in 1 .. n |-> IF i = 1 THEN seqs[i] ELSE f[i - 1] \o seqs[i]]

\* There is such a function for every sequence,
LEMMA FlattensExists ==
  ASSUME NEW seqs, NEW N \in Nat
  PROVE  \E f : Flattens(f, N, seqs)
<1> DEFINE G == {m \in Nat : \E f : Flattens(f, m, seqs)}
<1>1. 0 \in G
  <2>1. Flattens([i \in 1 .. 0 |-> <<>>], 0, seqs)
    BY DEF Flattens
  <2> QED BY <2>1
<1>2. ASSUME NEW m \in Nat, m \in G PROVE m + 1 \in G
  <2>1. PICK f : Flattens(f, m, seqs)
    BY <1>2
  <2> DEFINE h == [i \in 1 .. m + 1 |->
               IF i <= m THEN f[i] ELSE IF i = 1 THEN seqs[i] ELSE f[i - 1] \o seqs[i]]
  <2>2. \A i \in 1 .. m : h[i] = f[i]
    OBVIOUS
  <2>3. \A i \in 1 .. m : f[i] = IF i = 1 THEN seqs[i] ELSE f[i - 1] \o seqs[i]
    BY <2>1 DEF Flattens
  <2>4. \A i \in 1 .. m + 1 : h[i] = IF i = 1 THEN seqs[i] ELSE h[i - 1] \o seqs[i]
    BY <2>2, <2>3
  <2>5. Flattens(h, m + 1, seqs)
    BY <2>4 DEF Flattens
  <2> QED BY <2>5
<1> QED BY <1>1, <1>2, SetInduction

\* which this is,
Flat(seqs) == CHOOSE f : Flattens(f, Len(seqs), seqs)

\* as its recursion says,
LEMMA FlatFlattens ==
  ASSUME NEW seqs, Len(seqs) \in Nat
  PROVE  Flattens(Flat(seqs), Len(seqs), seqs)
BY FlattensExists DEF Flat

\* and FlattenSeq is its last value,
LEMMA FlattenIsLast ==
  ASSUME NEW seqs
  PROVE  FlattenSeq(seqs) = IF Len(seqs) = 0 THEN seqs ELSE Flat(seqs)[Len(seqs)]
BY DEF FlattenSeq, Flat, Flattens

\* a sequence.
LEMMA FlattenIsSeq ==
  ASSUME NEW seqs, IsSeq(seqs), \A i \in 1 .. Len(seqs) : IsSeq(seqs[i])
  PROVE  IsSeq(FlattenSeq(seqs))
<1>0. Len(seqs) \in Nat
  BY IsSeqLen
<1>1. CASE Len(seqs) = 0
  BY <1>1, FlattenIsLast
<1>2. CASE Len(seqs) # 0
  <2> DEFINE f == Flat(seqs)
             P(m) == m + 1 <= Len(seqs) => IsSeq(f[m + 1])
  <2>1. Flattens(f, Len(seqs), seqs)
    BY <1>0, FlatFlattens
  <2> HIDE DEF f
  <2>2. P(0)
    <3>1. 1 \in 1 .. Len(seqs)
      BY <1>0, <1>2
    <3>2. f[1] = seqs[1]
      BY <2>1, <3>1 DEF Flattens
    <3> QED BY <3>1, <3>2
  <2>3. ASSUME NEW m \in Nat, P(m) PROVE P(m + 1)
    <3> SUFFICES ASSUME m + 2 <= Len(seqs) PROVE IsSeq(f[m + 2])
      BY <1>0
    <3>1. m + 2 \in 1 .. Len(seqs) /\ m + 2 # 1 /\ (m + 2) - 1 = m + 1 /\ m + 1 <= Len(seqs)
      BY <1>0
    <3>2. f[m + 2] = f[m + 1] \o seqs[m + 2]
      BY <2>1, <3>1 DEF Flattens
    <3>3. IsSeq(f[m + 1]) /\ IsSeq(seqs[m + 2])
      BY <2>3, <3>1
    <3> HIDE DEF P
    <3>4. IsSeq(f[m + 1] \o seqs[m + 2])
      BY <3>3, ConcatIsSeq
    <3> QED BY <3>2, <3>4
  <2> HIDE DEF P
  <2>4. \A m \in Nat : P(m)
    <3> DEFINE G == {m \in Nat : P(m)}
    <3>1. 0 \in G /\ \A m \in Nat : m \in G => m + 1 \in G
      BY <2>2, <2>3
    <3> HIDE DEF G
    <3>2. Nat \subseteq G
      BY <3>1, SetInduction
    <3> QED BY <3>2 DEF G
  <2>5. Len(seqs) - 1 \in Nat
    BY <1>0, <1>2
  <2>6. IsSeq(f[Len(seqs)])
    BY <1>0, <2>4, <2>5 DEF P
  <2> QED
    BY <1>2, <2>6, FlattenIsLast DEF f
<1> QED BY <1>1, <1>2

(***************************************************************************)
(* A page                                                                  *)
(***************************************************************************)
\* What can be made of an element of a listing.
Readable(e) == IsSeq(e.texts) /\ \A i \in 1 .. Len(e.texts) : IsSeq(e.texts[i][2])

\* A text that is cut is a sequence of pieces,
LEMMA CutIsSeq ==
  ASSUME NEW text, IsSeq(text)
  PROVE  IsSeq(Cut(text))
<1>1. Len(text) \in Nat
  BY IsSeqLen
<1>2. \E T : Cut(text) \in [1 .. Len(text) -> T]
  <2>1. Cut(text) \in [1 .. Len(text) -> {Cut(text)[i] : i \in 1 .. Len(text)}]
    BY DEF Cut
  <2> QED BY <2>1
<1> QED
  BY <1>1, <1>2, FunctionIsSeq

\* and an element one of events.
LEMMA EventsIsSeq ==
  ASSUME NEW e, Readable(e)
  PROVE  IsSeq(Events(e))
<1> DEFINE part(i) == <<Open(e.texts[i][1], "")>> \o Cut(e.texts[i][2])
                        \o <<Close(e.texts[i][1]), Chars(<<" ">>)>>
           parts == [i \in 1 .. Len(e.texts) |-> part(i)]
           head == <<Open(e.is, e.id), Chars(<<" ">>)>>
           last == <<Close(e.is)>>
<1>0. Len(e.texts) \in Nat
  BY IsSeqLen DEF Readable
<1>1. ASSUME NEW i \in 1 .. Len(e.texts)
      PROVE  IsSeq(part(i))
  <2> DEFINE a == <<Open(e.texts[i][1], "")>>
             b == Cut(e.texts[i][2])
             c == <<Close(e.texts[i][1]), Chars(<<" ">>)>>
  <2>1. IsSeq(a)
    BY OneIsSeq
  <2>2. IsSeq(b)
    BY CutIsSeq DEF Readable
  <2>3. IsSeq(c)
    <3> DEFINE x == Close(e.texts[i][1])
               y == Chars(<<" ">>)
    <3> HIDE DEF x, y
    <3>1. <<x, y>> \in Seq({x, y})
      OBVIOUS
    <3> QED BY <3>1 DEF IsSeq, x, y
  <2> HIDE DEF a, b, c
  <2>4. IsSeq(a \o b)
    BY <2>1, <2>2, ConcatIsSeq
  <2>5. IsSeq((a \o b) \o c)
    BY <2>3, <2>4, ConcatIsSeq
  <2> QED BY <2>5 DEF a, b, c
<1> HIDE DEF part
<1>2. IsSeq(parts) /\ Len(parts) = Len(e.texts)
  <2>1. parts \in [1 .. Len(e.texts) -> {part(i) : i \in 1 .. Len(e.texts)}]
    OBVIOUS
  <2> HIDE DEF parts
  <2> QED BY <1>0, <2>1, FunctionIsSeq
<1>3. \A i \in 1 .. Len(parts) : IsSeq(parts[i])
  BY <1>1, <1>2
<1>4. IsSeq(FlattenSeq(parts))
  <2> HIDE DEF parts
  <2> QED BY <1>2, <1>3, FlattenIsSeq
<1>5. IsSeq(head)
  <2> DEFINE x == Open(e.is, e.id)
             y == Chars(<<" ">>)
  <2> HIDE DEF x, y
  <2>1. <<x, y>> \in Seq({x, y})
    OBVIOUS
  <2> QED BY <2>1 DEF IsSeq, x, y
<1>6. IsSeq(last)
  BY OneIsSeq
<1>7. Events(e) = (head \o FlattenSeq(parts)) \o last
  BY DEF Events, part
<1> HIDE DEF head, parts, last
<1>8. IsSeq(head \o FlattenSeq(parts))
  BY <1>4, <1>5, ConcatIsSeq
<1>9. IsSeq((head \o FlattenSeq(parts)) \o last)
  BY <1>6, <1>8, ConcatIsSeq
<1> QED BY <1>7, <1>9

(***************************************************************************)
(* The reader                                                              *)
(***************************************************************************)
\* What was read so far, as the state of the reader has it.
Reader(s) ==
  /\ s = [node |-> s.node, target |-> s.target, containers |-> s.containers,
          items |-> s.items]
  /\ IsSeq(s.containers) /\ IsSeq(s.items)

\* The reader before the first event.
LEMMA StartReader == Reader(Start)
BY EmptyIsSeq DEF Reader, Start

\* An item gives one track or none.
LEMMA FinalizeIsSeq ==
  ASSUME NEW node
  PROVE  IsSeq(FinalizeItem(node))
BY EmptyIsSeq, OneIsSeq DEF FinalizeItem

\* A reader with other fields.
LEMMA ReaderWith ==
  ASSUME NEW s, Reader(s), NEW n, NEW t
  PROVE  /\ Reader([s EXCEPT !.node = n])
         /\ Reader([s EXCEPT !.target = t])
         /\ Reader([s EXCEPT !.target = t, !.node = n])
<1> DEFINE c == s.containers
           i == s.items
           made(m, u) == [node |-> m, target |-> u, containers |-> c, items |-> i]
<1>1. IsSeq(c) /\ IsSeq(i) /\ s = made(s.node, s.target)
  BY DEF Reader
<1>2. ASSUME NEW m, NEW u PROVE Reader(made(m, u))
  <2>1. IsSeq(c) /\ IsSeq(i)
    BY <1>1
  <2> HIDE DEF c, i
  <2> QED BY <2>1 DEF Reader
<1>3. [s EXCEPT !.node = n] = made(n, s.target)
  BY <1>1
<1>4. [s EXCEPT !.target = t] = made(s.node, t)
  BY <1>1
<1>5. [s EXCEPT !.target = t, !.node = n] = made(n, t)
  <2>1. [s EXCEPT !.target = t, !.node = n] = [[s EXCEPT !.target = t] EXCEPT !.node = n]
    OBVIOUS
  <2>2. [made(s.node, t) EXCEPT !.node = n] = made(n, t)
    OBVIOUS
  <2> HIDE DEF made
  <2> QED BY <1>4, <2>1, <2>2
<1> HIDE DEF made
<1> QED BY <1>2, <1>3, <1>4, <1>5

\* An event leaves a reader.
LEMMA EventReader ==
  ASSUME NEW s, NEW e, Reader(s)
  PROVE  Reader(HandleEvent(s, e))
<1>2. Reader(HandleStart(s, e))
  BY ReaderWith DEF HandleStart
<1>3. ASSUME NEW text PROVE Reader(ApplyText(s, text))
  BY ReaderWith DEF ApplyText
<1>4. Reader(HandleEnd(s, e))
  <2> DEFINE none == [s EXCEPT !.target = "none"]
  <2>1. Reader(none)
    BY ReaderWith
  <2> HIDE DEF none
  <2>2. ASSUME NEW n, NEW x
        PROVE  Reader([none EXCEPT !.node = n, !.containers = Append(@, x)])
    <3>1. IsSeq(Append(none.containers, x)) /\ IsSeq(none.items)
      BY <2>1, AppendIsSeq DEF Reader
    <3> DEFINE c == Append(none.containers, x)
               t == none.target
               i == none.items
               moved == [none EXCEPT !.node = n]
    <3>2. moved = [node |-> n, target |-> t, containers |-> none.containers, items |-> i]
      BY <2>1 DEF Reader
    <3>3. [none EXCEPT !.node = n, !.containers = Append(@, x)]
            = [moved EXCEPT !.containers = c]
      BY <2>1 DEF Reader
    <3> HIDE DEF c, t, i, moved
    <3>4. [moved EXCEPT !.containers = c]
            = [node |-> n, target |-> t, containers |-> c, items |-> i]
      BY <3>2
    <3>5. Reader([node |-> n, target |-> t, containers |-> c, items |-> i])
      BY <3>1 DEF Reader, c, i
    <3> QED BY <3>3, <3>4, <3>5
  <2>3. ASSUME NEW n, NEW m
        PROVE  Reader([none EXCEPT !.node = n, !.items = @ \o FinalizeItem(m)])
    <3> DEFINE i == none.items \o FinalizeItem(m)
    <3>1. IsSeq(none.containers) /\ IsSeq(i)
      BY <2>1, FinalizeIsSeq, ConcatIsSeq DEF Reader
    <3> DEFINE c == none.containers
               t == none.target
               moved == [none EXCEPT !.node = n]
    <3>2. moved = [node |-> n, target |-> t, containers |-> c, items |-> none.items]
      BY <2>1 DEF Reader
    <3>3. [none EXCEPT !.node = n, !.items = @ \o FinalizeItem(m)]
            = [moved EXCEPT !.items = i]
      BY <2>1 DEF Reader
    <3> HIDE DEF c, t, i, moved
    <3>4. [moved EXCEPT !.items = i]
            = [node |-> n, target |-> t, containers |-> c, items |-> i]
      BY <3>2
    <3>5. Reader([node |-> n, target |-> t, containers |-> c, items |-> i])
      BY <3>1 DEF Reader, c
    <3> QED BY <3>3, <3>4, <3>5
  <2> QED
    BY <2>1, <2>2, <2>3 DEF HandleEnd, none
<1>5. HandleEvent(s, e) \in {HandleStart(s, e), ApplyText(s, e.text),
                            ApplyText(s, Entity[e.tag]), HandleEnd(s, e), s}
  BY DEF HandleEvent
<1> QED
  BY <1>2, <1>3, <1>4, <1>5

\* The recursion of ParseDidlLite, as a relation.
Reads(a, n, first, events) ==
  a = [m \in 0 .. n |->
         IF m = 0 THEN first
         ELSE CHOOSE t \in {HandleEvent(s, events[m]) : s \in {a[m - 1]}} : TRUE]

\* There is such a function for all events,
LEMMA ReadsExists ==
  ASSUME NEW first, NEW events, NEW N \in Nat
  PROVE  \E a : Reads(a, N, first, events)
<1> DEFINE G == {m \in Nat : \E a : Reads(a, m, first, events)}
<1>1. 0 \in G
  <2>1. Reads([i \in 0 .. 0 |-> first], 0, first, events)
    BY DEF Reads
  <2> QED BY <2>1
<1>2. ASSUME NEW m \in Nat, m \in G PROVE m + 1 \in G
  <2>1. PICK a : Reads(a, m, first, events)
    BY <1>2
  <2> DEFINE next(r, i) == CHOOSE t \in {HandleEvent(s, events[i]) : s \in {r}} : TRUE
  <2> HIDE DEF next
  <2> DEFINE h == [i \in 0 .. m + 1 |->
               IF i <= m THEN a[i] ELSE IF i = 0 THEN first ELSE next(a[i - 1], i)]
  <2>2. \A i \in 0 .. m : h[i] = a[i]
    OBVIOUS
  <2>3. \A i \in 0 .. m : a[i] = IF i = 0 THEN first ELSE next(a[i - 1], i)
    BY <2>1 DEF Reads, next
  <2>4. \A i \in 0 .. m + 1 : h[i] = IF i = 0 THEN first ELSE next(h[i - 1], i)
    BY <2>2, <2>3
  <2>5. h = [i \in 0 .. m + 1 |-> IF i = 0 THEN first ELSE next(h[i - 1], i)]
    BY <2>4
  <2> HIDE DEF h
  <2>6. Reads(h, m + 1, first, events)
    BY <2>5 DEF Reads, next
  <2> QED BY <2>6
<1> QED BY <1>1, <1>2, SetInduction

\* The states of the reader, one per event.
ReadUpTo(first, events) == CHOOSE a : Reads(a, Len(events), first, events)

\* The reader after the events.
After(first, events) == ReadUpTo(first, events)[Len(events)]

\* which ReadUpTo is,
LEMMA ReadUpToReads ==
  ASSUME NEW first, NEW events, Len(events) \in Nat
  PROVE  Reads(ReadUpTo(first, events), Len(events), first, events)
BY ReadsExists DEF ReadUpTo

\* and the parser returns what its last value is.
LEMMA ParseIsLast ==
  ASSUME NEW events
  PROVE  ParseDidlLite(events) = After(Start, events)
BY DEF ParseDidlLite, After, ReadUpTo, Reads

\* The reader at the first event
LEMMA ReadStart ==
  ASSUME NEW first, NEW events, Len(events) \in Nat
  PROVE  ReadUpTo(first, events)[0] = first
BY ReadUpToReads DEF Reads

\* and at the next one.
LEMMA ReadNext ==
  ASSUME NEW first, NEW events, Len(events) \in Nat, NEW m \in Nat, m < Len(events)
  PROVE  ReadUpTo(first, events)[m + 1] = HandleEvent(ReadUpTo(first, events)[m], events[m + 1])
<1> DEFINE a == ReadUpTo(first, events)
           handled(r) == HandleEvent(r, events[m + 1])
<1>1. Reads(a, Len(events), first, events)
  BY ReadUpToReads
<1> HIDE DEF a
<1>2. m + 1 \in 0 .. Len(events) /\ m + 1 # 0 /\ (m + 1) - 1 = m
  OBVIOUS
<1>3. a[m + 1] = CHOOSE t \in {handled(s) : s \in {a[m]}} : TRUE
  BY <1>1, <1>2 DEF Reads
<1> HIDE DEF handled
<1>4. a[m + 1] = handled(a[m])
  BY <1>3
<1> QED BY <1>4 DEF a, handled

\* At every event it is a reader,
LEMMA ReadIsReader ==
  ASSUME NEW first, Reader(first), NEW events, IsSeq(events), NEW n \in 0 .. Len(events)
  PROVE  Reader(ReadUpTo(first, events)[n])
<1>0. Len(events) \in Nat
  BY IsSeqLen
<1> DEFINE P(m) == m <= Len(events) => Reader(ReadUpTo(first, events)[m])
<1>1. P(0)
  BY <1>0, ReadStart
<1>2. ASSUME NEW m \in Nat, P(m) PROVE P(m + 1)
  <2> SUFFICES ASSUME m + 1 <= Len(events) PROVE Reader(ReadUpTo(first, events)[m + 1])
    OBVIOUS
  <2>1. m < Len(events) /\ Reader(ReadUpTo(first, events)[m])
    BY <1>0, <1>2
  <2> HIDE DEF P
  <2>2. ReadUpTo(first, events)[m + 1] = HandleEvent(ReadUpTo(first, events)[m], events[m + 1])
    BY <1>0, <2>1, ReadNext
  <2> QED BY <2>1, <2>2, EventReader
<1> HIDE DEF P
<1>3. \A m \in Nat : P(m)
  <2> DEFINE G == {m \in Nat : P(m)}
  <2>1. 0 \in G /\ \A m \in Nat : m \in G => m + 1 \in G
    BY <1>1, <1>2
  <2> HIDE DEF G
  <2>2. Nat \subseteq G
    BY <2>1, SetInduction
  <2> QED BY <2>2 DEF G
<1> QED
  BY <1>0, <1>3 DEF P

\* at the end as well.
LEMMA ParseIsReader ==
  ASSUME NEW events, IsSeq(events)
  PROVE  Reader(ParseDidlLite(events))
<1>1. Len(events) \in Nat
  BY IsSeqLen
<1>2. Len(events) \in 0 .. Len(events)
  BY <1>1
<1> QED
  BY <1>2, ReadIsReader, ParseIsLast, StartReader DEF After

\* What a server answers is a page that can be read.
LEMMA PageIsReader ==
  ASSUME server \in Servers, start \in Nat, NEW page \in Answers
  PROVE  /\ Reader(ParseDidlLite(page.didl))
         /\ NumberReturned(page) \subseteq 0 .. PageSize
<1> DEFINE list == Holds[server][at.id]
           didl(n) == [i \in 1 .. n |-> Events(list[start + i])]
<1>1. PICK n \in 0 .. PageSize :
        /\ at.id \in Containers(server)
        /\ start + n <= Len(list)
        /\ page = [count |-> n, didl |-> FlattenSeq(didl(n))]
  BY DEF Answers, Listed
<1>2. /\ list \in Seq(ToSet(list))
      /\ \A e \in ToSet(list) : /\ e.texts \in Seq(ToSet(e.texts))
                               /\ \A p \in ToSet(e.texts) : p[2] \in Seq(ToSet(p[2]))
  BY <1>1, DlnaAssumption
<1> HIDE DEF list
<1>3. \A k \in 1 .. Len(list) : Readable(list[k])
  <2> SUFFICES ASSUME NEW k \in 1 .. Len(list) PROVE Readable(list[k])
    OBVIOUS
  <2> DEFINE e == list[k]
  <2>1. e \in ToSet(list)
    BY <1>2 DEF ToSet
  <2> HIDE DEF e
  <2>2. e.texts \in Seq(ToSet(e.texts))
    BY <1>2, <2>1
  <2>3. \A i \in 1 .. Len(e.texts) : e.texts[i][2] \in Seq(ToSet(e.texts[i][2]))
    <3> SUFFICES ASSUME NEW i \in 1 .. Len(e.texts)
                 PROVE  e.texts[i][2] \in Seq(ToSet(e.texts[i][2]))
      OBVIOUS
    <3>1. e.texts[i] \in ToSet(e.texts)
      BY <2>2 DEF ToSet
    <3> QED BY <1>2, <2>1, <3>1
  <2> QED BY <2>2, <2>3 DEF Readable, IsSeq, e
<1>4. Len(list) \in Nat
  BY <1>2
<1>5. \A i \in 1 .. n : start + i \in 1 .. Len(list)
  BY <1>1, <1>4
<1>6. IsSeq(didl(n)) /\ Len(didl(n)) = n
  <2>1. didl(n) \in [1 .. n -> {Events(list[start + i]) : i \in 1 .. n}]
    OBVIOUS
  <2>2. n \in Nat
    BY DlnaAssumption
  <2> HIDE DEF didl
  <2> QED BY <2>1, <2>2, FunctionIsSeq
<1>7. \A i \in 1 .. n : IsSeq(didl(n)[i])
  BY <1>3, <1>5, EventsIsSeq
<1> HIDE DEF didl
<1>8. IsSeq(FlattenSeq(didl(n)))
  BY <1>6, <1>7, FlattenIsSeq
<1>9. NumberReturned(page) \subseteq 0 .. PageSize
  BY <1>1, DlnaAssumption DEF NumberReturned
<1> QED
  BY <1>1, <1>8, <1>9, ParseIsReader

-----------------------------------------------------------------------------
\* A build whose file is being written.
Saving == pc \in {"write", "rename"}

\* Every cache file is absent or whole, and the temporary file that is about to
\* be renamed is the catalogue that was built.
CacheInv ==
  /\ DOMAIN cache = Keys /\ DOMAIN tmp = Keys
  /\ CacheNeverTorn
  /\ Saving => args.cached
  /\ pc = "rename" /\ Key \in Keys => tmp[Key] = File

\* The disk is empty at first,
LEMMA InitCacheInv == Init => CacheInv
BY DEF Init, DlnaInit, CacheInv, CacheNeverTorn, NoFile, Saving

\* A step of the two sources without a cache leaves the disk alone and is in
\* no state of a build.
LEMMA OthersKeepCacheInv ==
  ASSUME CacheInv,
         (SubsonicStep \/ SubsonicFails \/ FsStep \/ FsFails) /\ UNCHANGED dlnaVars
  PROVE  CacheInv'
BY DEF CacheInv, CacheNeverTorn, Saving, Key, dlnaVars, locals, disk,
       SubsonicStep, SubsonicFails, FsStep, FsFails, common, TakeCredentials, Pong,
       ArtistsKnown, AlbumsKnown, SongsKnown, Send, Answer, ListsKnown, ListKnown,
       ListsDone, ServerFails, ListsFail, ListFails, RequestFails, Scan, Scanned,
       WalkFile, WalkError, Steps, subsonicVars

\* No step of the search, the connection or the browsing writes to the disk.
LEMMA BrowsingKeepsCacheInv ==
  ASSUME CacheInv,
         \/ ByUrl \/ BySearch \/ SearchOver \/ ConnectFails \/ LoadCache \/ CacheMiss
         \/ NextEntry \/ PageArrives \/ BrowseFails \/ NoSuchObject \/ Built
         \/ \E s \in Servers : Reply(s)
  PROVE  CacheInv' /\ UNCHANGED cache
<1> USE DEF CacheInv, CacheNeverTorn, Saving, Key, disk, locals, dlnaVars, Goes
<1>1. CASE ByUrl \/ BySearch \/ SearchOver \/ ConnectFails \/ LoadCache
  BY <1>1 DEF ByUrl, BySearch, SearchOver, ConnectFails, LoadCache
<1>2. CASE CacheMiss
  BY <1>2 DEF CacheMiss
<1>3. CASE NextEntry
  BY <1>3 DEF NextEntry
<1>4. CASE PageArrives
  <2>1. pc = "page" /\ pc' \in {"page", "next"} /\ UNCHANGED <<args, server, disk>>
    BY <1>4 DEF PageArrives, common
  <2> QED  BY <2>1
<1>5. CASE BrowseFails \/ NoSuchObject \/ Built
  BY <1>5 DEF BrowseFails, NoSuchObject, Built
<1>6. CASE \E s \in Servers : Reply(s)
  BY <1>6 DEF Reply, common
<1> QED  BY <1>1, <1>2, <1>3, <1>4, <1>5, <1>6

\* A file that changes becomes the catalogue that was built, of the server and
\* the root it is of, and that catalogue is what the start goes on to serve.
SavesServed ==
  \A k \in Keys : cache'[k] # cache[k] =>
    /\ k = Key /\ args.cached
    /\ cache'[k] = File /\ File' = File
    /\ pc' = "serving"

\* So it is when no file changes.
LEMMA NothingSaved == ASSUME UNCHANGED cache PROVE SavesServed
BY DEF SavesServed

\* A save writes its own temporary file, and the cache file at once.
LEMMA SavingKeepsCacheInv ==
  ASSUME CacheInv, WriteTmp \/ SaveFails \/ RenameTmp
  PROVE  CacheInv' /\ SavesServed
<1> USE DEF CacheInv, CacheNeverTorn, Saving, Key, disk, locals, dlnaVars, Goes
<1>1. CASE WriteTmp
  <2>1. CacheInv'
    BY <1>1 DEF WriteTmp, File, Partial
  <2> QED BY <1>1, <2>1, NothingSaved DEF WriteTmp
<1>2. CASE SaveFails
  <2>1. CacheInv'
    BY <1>2 DEF SaveFails
  <2> QED BY <1>2, <2>1, NothingSaved DEF SaveFails
<1>3. CASE RenameTmp
  <2>1. CacheInv'
    BY <1>3 DEF RenameTmp, NoFile, File
  <2>2. SavesServed
    BY <1>3 DEF RenameTmp, File, SavesServed
  <2> QED BY <2>1, <2>2
<1> QED  BY <1>1, <1>2, <1>3

\* and every step leaves it sound and the files of other starts as they are.
LEMMA NextCacheInv ==
  ASSUME CacheInv, [Next]_vars
  PROVE  CacheInv' /\ SavesServed
<1>1. CASE (DlnaStep \/ DlnaFails) /\ UNCHANGED <<subsonicVars, fsVars>>
  BY <1>1, BrowsingKeepsCacheInv, SavingKeepsCacheInv, NothingSaved DEF DlnaStep, DlnaFails
<1>2. CASE (SubsonicStep \/ SubsonicFails \/ FsStep \/ FsFails) /\ UNCHANGED dlnaVars
  BY <1>2, OthersKeepCacheInv, NothingSaved DEF dlnaVars, disk
<1>3. CASE Restart
  <2>1. CacheInv'
    BY <1>3 DEF Restart, Begins, DlnaForgets, disk, CacheInv, CacheNeverTorn, Saving
  <2> QED BY <1>3, <2>1, NothingSaved DEF Restart, DlnaForgets, disk
<1>4. CASE UNCHANGED vars
  <2>1. CacheInv'
    BY <1>4 DEF vars, common, dlnaVars, locals, disk, CacheInv, CacheNeverTorn, Saving, Key,
                File
  <2> QED BY <1>4, <2>1, NothingSaved DEF vars, dlnaVars, disk
<1> QED
  BY <1>1, <1>2, <1>3, <1>4 DEF Next, Step, Fails, Done

\* In every state of every behaviour the disk is sound.
THEOREM CacheInvariant == Spec => []CacheInv
<1>1. CacheInv /\ [Next]_vars => CacheInv'
  BY NextCacheInv
<1> QED
  BY <1>1, InitCacheInv, PTL DEF Spec

\* Whenever the process dies, at any step of any build or save, every cache
\* file on the disk is absent or whole.
THEOREM NeverTorn == Spec => []CacheNeverTorn
<1>1. CacheInv => CacheNeverTorn
  BY DEF CacheInv
<1> QED
  BY <1>1, CacheInvariant, PTL

\* A cache file that changes is the one of the server and the root of this start,
\* and becomes what this start goes on to serve, with what it missed.
THEOREM OnlyTheServedIsSaved == Spec => [][SavesServed]_vars
<1>1. CacheInv /\ [Next]_vars => [SavesServed]_vars
  BY NextCacheInv
<1> QED
  BY <1>1, CacheInvariant, PTL DEF Spec

-----------------------------------------------------------------------------
\* The requests under way are some of those that were sent.
WindowInv ==
  /\ sent \in Nat
  /\ flying \subseteq 1 .. sent
  /\ Cardinality(flying) <= Concurrency

\* No request is under way at first,
LEMMA InitWindowInv == Init => WindowInv
BY SubsonicAssumption, FS_EmptySet DEF Init, SubsonicInit, WindowInv

\* and every step keeps to the window.
LEMMA NextWindowInv ==
  ASSUME WindowInv, [Next]_vars
  PROVE  WindowInv'
<1>0. IsFiniteSet(flying)
  <2>1. IsFiniteSet(1 .. sent)
    BY FS_Interval DEF WindowInv
  <2> QED
    BY <2>1, FS_Subset DEF WindowInv
<1>1. CASE sent' = 0 /\ flying' = {}
  BY <1>1, SubsonicAssumption, FS_EmptySet DEF WindowInv
<1>2. CASE UNCHANGED <<sent, flying>>
  BY <1>2 DEF WindowInv
<1>3. CASE Send
  <2>1. Cardinality(flying) \in Nat /\ Cardinality(flying) < Concurrency
    BY <1>0, <1>3, FS_CardinalityType DEF Send
  <2>2. Cardinality(flying \cup {sent + 1}) <= Cardinality(flying) + 1
    BY <1>0, <2>1, FS_AddElement
  <2>3. Cardinality(flying \cup {sent + 1}) \in Nat
    BY <1>0, FS_AddElement, FS_CardinalityType
  <2> QED
    BY <1>3, <2>1, <2>2, <2>3, SubsonicAssumption DEF Send, WindowInv
<1>4. CASE \E n \in flying : Answer(n) \/ RequestFails(n)
  <2>1. PICK n \in flying : flying' = flying \ {n} /\ sent' = sent
    BY <1>4 DEF Answer, RequestFails
  <2>2. Cardinality(flying \ {n}) = Cardinality(flying) - 1
    BY <1>0, FS_RemoveElement
  <2>3. Cardinality(flying) \in Nat
    BY <1>0, FS_CardinalityType
  <2> QED
    BY <2>1, <2>2, <2>3, SubsonicAssumption DEF WindowInv
<1>5. \/ sent' = 0 /\ flying' = {}
      \/ UNCHANGED <<sent, flying>>
      \/ Send
      \/ \E n \in flying : Answer(n) \/ RequestFails(n)
  BY DEF Next, Step, Fails, Done, Restart, vars, subsonicVars, SubsonicStep,
         SubsonicFails, SubsonicForgets, AsksFor, TakeCredentials, Pong, ArtistsKnown,
         AlbumsKnown, SongsKnown, ListsKnown, ListKnown, ListsDone, ServerFails,
         ListsFail, ListFails
<1> QED
  BY <1>1, <1>2, <1>3, <1>4, <1>5

\* Never are more than ALBUM_FETCH_CONCURRENCY requests under way, however
\* answers and failures interleave.
THEOREM WindowBound == Spec => []WindowInv
<1>1. WindowInv /\ [Next]_vars => WindowInv'
  BY NextWindowInv
<1> QED
  BY <1>1, InitWindowInv, PTL DEF Spec

-----------------------------------------------------------------------------
\* The steps between the choice of a server and the start of the service.
Connected == {"connect", "next", "page", "write", "rename"}

\* The server that is browsed is one of the network.
ServerInv ==
  /\ args \in Args
  /\ pc \in {"search"} \cup Connected => args.source = "dlna"
  /\ pc \in Connected => server \in Servers
  /\ seen \in Seq(Servers)

\* The search chooses among the servers that replied.
LEMMA SearchFinds ==
  ASSUME ServerInv, SearchOver
  PROVE  pc' = "connect" => server' \in Servers
<1> SUFFICES ASSUME Wanted # {}
             PROVE  seen[CHOOSE i \in Wanted : \A j \in Wanted : i <= j] \in Servers
  BY DEF SearchOver, Goes
<1>1. seen \in Seq(Servers) /\ Len(seen) \in Nat
  BY DEF ServerInv
<1>2. Wanted \subseteq 1 .. Len(seen)
  BY DEF Wanted
<1>3. \E i \in Wanted : \A j \in Wanted : i <= j
  <2>1. Wanted \subseteq Nat /\ Wanted # {}
    BY <1>1, <1>2
  <2> QED BY <2>1, Least
<1>4. (CHOOSE i \in Wanted : \A j \in Wanted : i <= j) \in Wanted
  BY <1>3
<1> QED
  BY <1>1, <1>2, <1>4, ElementOfSeq

\* Every step keeps the server one of the network.
LEMMA NextServerInv ==
  ASSUME ServerInv, [Next]_vars
  PROVE  ServerInv'
<1> USE DEF Goes, Connected
<1>0. CASE ByUrl
  <2>1. args \in Args /\ args.source = "dlna" /\ args.by = "url"
    BY <1>0 DEF ByUrl, ServerInv
  <2>2. args.want \in Servers
    BY <2>1, DlnaAssumption
  <2> QED BY <1>0, <2>1, <2>2 DEF ByUrl, ServerInv
<1>1. CASE BySearch \/ ConnectFails \/ LoadCache \/ CacheMiss
  BY <1>1, EmptySeq DEF ServerInv, BySearch, ConnectFails, LoadCache, CacheMiss, dlnaVars,
                           locals
<1>2. CASE SearchOver
  BY <1>2, SearchFinds DEF ServerInv, SearchOver
<1>3. CASE \E s \in Servers : Reply(s)
  BY <1>3 DEF ServerInv, Reply, common
<1>4. CASE \/ NextEntry \/ BrowseFails \/ NoSuchObject \/ Built \/ WriteTmp \/ RenameTmp
           \/ SaveFails
  BY <1>4 DEF ServerInv, NextEntry, BrowseFails, NoSuchObject, Built, WriteTmp, RenameTmp,
              SaveFails, dlnaVars, locals
<1>5. CASE PageArrives
  <2>1. pc = "page" /\ pc' \in {"page", "next"} /\ UNCHANGED <<args, server, seen>>
    BY <1>5 DEF PageArrives, common
  <2> QED BY <2>1 DEF ServerInv
<1>6. CASE (SubsonicStep \/ SubsonicFails \/ FsStep \/ FsFails) /\ UNCHANGED dlnaVars
  <2>1. UNCHANGED <<args, server, seen>>
    BY <1>6 DEF dlnaVars, locals, 
       SubsonicStep, SubsonicFails, FsStep, FsFails, common, TakeCredentials, Pong,
       ArtistsKnown, AlbumsKnown, SongsKnown, Send, Answer, ListsKnown, ListKnown,
       ListsDone, ServerFails, ListsFail, ListFails, RequestFails, Scan, Scanned,
       WalkFile, WalkError, Steps, subsonicVars
  <2>2. pc' \notin {"search"} \cup Connected
    BY <1>6 DEF SubsonicStep, SubsonicFails, FsStep, FsFails, common, TakeCredentials, Pong,
       ArtistsKnown, AlbumsKnown, SongsKnown, Send, Answer, ListsKnown, ListKnown,
       ListsDone, ServerFails, ListsFail, ListFails, RequestFails, Scan, Scanned,
       WalkFile, WalkError, Steps, subsonicVars
  <2> QED BY <2>1, <2>2 DEF ServerInv
<1>7. CASE Restart
  BY <1>7, EmptySeq DEF ServerInv, Restart, Begins, DlnaForgets
<1>8. CASE UNCHANGED vars
  BY <1>8 DEF ServerInv, vars, common, dlnaVars, locals
<1> QED
  BY <1>0, <1>1, <1>2, <1>3, <1>4, <1>5, <1>6, <1>7, <1>8
     DEF Next, Step, Fails, Done, DlnaStep, DlnaFails

-----------------------------------------------------------------------------
\* What earlier pages brought is a listing, whatever the next one brings.
FoundInv == IsSeq(found.containers) /\ IsSeq(found.items) /\ start \in Nat

\* A container begins with nothing found.
LEMMA NothingFound == ASSUME found' = NoneFound, start' = 0 PROVE FoundInv'
BY EmptyIsSeq DEF FoundInv, NoneFound

\* What is found stays a sequence.
LEMMA NextFoundInv ==
  ASSUME FoundInv, ServerInv, [Next]_vars
  PROVE  FoundInv'
<1>1. CASE PageArrives
  <2>1. pc = "page" /\ server \in Servers /\ start \in Nat
    BY <1>1 DEF PageArrives, ServerInv, FoundInv, Connected
  <2>2. PICK page \in Answers : \E returned \in NumberReturned(page) :
          LET read == ParseDidlLite(page.didl)
          IN  \/ LeaveEntry
              \/ /\ found' = [containers |-> found.containers \o read.containers,
                              items |-> found.items \o read.items]
                 /\ start' = start + returned
    BY <1>1 DEF PageArrives
  <2> DEFINE read == ParseDidlLite(page.didl)
  <2>3. PICK returned \in NumberReturned(page) :
          \/ LeaveEntry
          \/ /\ found' = [containers |-> found.containers \o read.containers,
                          items |-> found.items \o read.items]
             /\ start' = start + returned
    BY <2>2
  <2>4. Reader(read) /\ returned \in 0 .. PageSize
    BY <2>1, PageIsReader
  <2> HIDE DEF read
  <2>5. IsSeq(found.containers \o read.containers) /\ IsSeq(found.items \o read.items)
    BY <2>4, ConcatIsSeq DEF Reader, FoundInv
  <2>6. start + returned \in Nat
    BY <2>1, <2>4, DlnaAssumption
  <2>7. CASE LeaveEntry
    BY <2>7, NothingFound DEF LeaveEntry
  <2>8. CASE /\ found' = [containers |-> found.containers \o read.containers,
                          items |-> found.items \o read.items]
             /\ start' = start + returned
    BY <2>5, <2>6, <2>8 DEF FoundInv
  <2> QED BY <2>7, <2>8, <2>3 DEF read
<1>2. CASE UNCHANGED <<found, start>>
  BY <1>2 DEF FoundInv
<1>3. CASE found' = NoneFound /\ start' = 0
  BY <1>3, NothingFound
<1>4. PageArrives \/ UNCHANGED <<found, start>> \/ (found' = NoneFound /\ start' = 0)
  BY DEF Next, Step, Fails, Done, DlnaStep, DlnaFails, Restart, DlnaForgets, vars, dlnaVars,
         locals, ByUrl, BySearch, SearchOver, ConnectFails, LoadCache, CacheMiss, Reply,
         NextEntry, BrowseFails, NoSuchObject, LeaveEntry, Built, WriteTmp, RenameTmp,
         SaveFails
<1> QED
  BY <1>1, <1>2, <1>3, <1>4

-----------------------------------------------------------------------------
\* What was asked for can be asked for, and what the answers brought is a
\* sequence, in whatever order they came.
AskedInv ==
  /\ pc \in {"artists", "albums"} => sent <= Len(asked)
  /\ pc = "artists" => asked \in Seq(DOMAIN AlbumsOf) /\ answers \in Seq(DOMAIN SongsOf)
  /\ pc = "albums" => asked \in Seq(DOMAIN SongsOf) /\ IsSeq(answers)

\* What an answer brings can be asked for,
LEMMA AnswerAskedInv ==
  ASSUME AskedInv, WindowInv, NEW n \in flying, Answer(n)
  PROVE  AskedInv'
<1>1. n \in 1 .. Len(asked) /\ pc \in {"artists", "albums"}
  <2>1. pc \in {"artists", "albums"} /\ sent \in Nat /\ n \in 1 .. sent
    BY DEF Answer, WindowInv
  <2>2. sent <= Len(asked) /\ Len(asked) \in Nat
    BY <2>1 DEF AskedInv
  <2> QED BY <2>1, <2>2
<1>2. /\ UNCHANGED <<pc, asked, sent>>
      /\ answers' = answers \o Brings(asked[n])
  BY DEF Answer, common
<1>3. CASE pc = "artists"
  <2>1. asked[n] \in DOMAIN AlbumsOf
    BY <1>1, <1>3, ElementOfSeq DEF AskedInv
  <2>2. Brings(asked[n]) \in Seq(DOMAIN SongsOf)
    BY <1>3, <2>1, SubsonicAssumption DEF Brings
  <2>3. answers \o Brings(asked[n]) \in Seq(DOMAIN SongsOf)
    BY <1>3, <2>2, ConcatProperties DEF AskedInv
  <2> QED BY <1>2, <1>3, <2>3 DEF AskedInv
<1>4. CASE pc = "albums"
  <2>1. asked[n] \in DOMAIN SongsOf
    BY <1>1, <1>4, ElementOfSeq DEF AskedInv
  <2>2. IsSeq(Brings(asked[n]))
    BY <1>4, <2>1, SubsonicAssumption DEF Brings, IsSeq
  <2>3. IsSeq(answers \o Brings(asked[n]))
    BY <1>4, <2>2, ConcatIsSeq DEF AskedInv
  <2> QED BY <1>2, <1>4, <2>3 DEF AskedInv
<1> QED BY <1>1, <1>3, <1>4

\* and so it is in every step.
LEMMA NextAskedInv ==
  ASSUME AskedInv, WindowInv, [Next]_vars
  PROVE  AskedInv'
<1>1. CASE ArtistsKnown
  BY <1>1, SubsonicAssumption, EmptySeq DEF ArtistsKnown, AsksFor, Steps, AskedInv
<1>2. CASE AlbumsKnown
  <2>1. pc = "artists" /\ pc' = "albums" /\ asked' = answers /\ sent' = 0 /\ answers' = <<>>
    BY <1>2 DEF AlbumsKnown, AsksFor, Steps
  <2>2. answers \in Seq(DOMAIN SongsOf) /\ Len(answers) \in Nat
    BY <2>1 DEF AskedInv
  <2> QED BY <2>1, <2>2, EmptyIsSeq DEF AskedInv
<1>3. CASE Send
  BY <1>3 DEF Send, common, AskedInv, WindowInv
<1>4. CASE \E n \in flying : Answer(n)
  BY <1>4, AnswerAskedInv
<1>5. CASE \E n \in flying : RequestFails(n)
  BY <1>5 DEF RequestFails, AskedInv
<1>6. CASE UNCHANGED <<pc, asked, sent, answers>>
  BY <1>6 DEF AskedInv
<1>7. CASE pc' \notin {"artists", "albums"}
  BY <1>7 DEF AskedInv
<1>8. \/ ArtistsKnown \/ AlbumsKnown \/ Send \/ \E n \in flying : Answer(n)
      \/ \E n \in flying : RequestFails(n)
      \/ UNCHANGED <<pc, asked, sent, answers>>
      \/ pc' \notin {"artists", "albums"}
  <2>1. CASE (SubsonicStep \/ SubsonicFails) /\ UNCHANGED dlnaVars
    BY <2>1 DEF SubsonicStep, SubsonicFails, TakeCredentials, Pong, SongsKnown, ListsKnown,
                ListKnown, ListsDone, ServerFails, ListsFail, ListFails, Steps
  <2>2. CASE FsStep \/ FsFails
    BY <2>2 DEF FsStep, FsFails, Scan, Scanned, WalkFile, WalkError, common
  <2>3. CASE (DlnaStep \/ DlnaFails) /\ UNCHANGED subsonicVars
    <3>1. CASE PageArrives
      BY <2>3, <3>1 DEF PageArrives, Goes, common
    <3>2. CASE ~PageArrives
      BY <2>3, <3>2 DEF DlnaStep, DlnaFails, dlnaVars,
         locals, ByUrl, BySearch, SearchOver, ConnectFails, LoadCache, CacheMiss, Reply,
         NextEntry, BrowseFails, NoSuchObject, Built, WriteTmp, RenameTmp, SaveFails, Goes,
         common, subsonicVars
    <3> QED BY <3>1, <3>2
  <2>4. CASE Restart \/ UNCHANGED vars
    BY <2>4 DEF Restart, Begins, vars, common, subsonicVars
  <2> QED BY <2>1, <2>2, <2>3, <2>4 DEF Next, Step, Fails, Done
<1> QED
  BY <1>1, <1>2, <1>3, <1>4, <1>5, <1>6, <1>7, <1>8

\* The files of the walk are a sequence.
ScanInv == IsSeq(scanned)

\* So they are in every step.
LEMMA NextScanInv ==
  ASSUME ScanInv, [Next]_vars
  PROVE  ScanInv'
<1>1. UNCHANGED scanned \/ scanned' = <<>> \/ \E f : scanned' = Append(scanned, f)
  BY DEF Next, Step, Fails, Done, vars, fsVars, Restart, FsForgets, FsStep, FsFails, Scan,
         Scanned, WalkFile, WalkError
<1> QED
  BY ZenonT(60), <1>1, EmptyIsSeq, AppendIsSeq DEF ScanInv

\* Ids are positions, in every catalogue that is in memory or on the disk.
Numbered(c) ==
  /\ c = [items |-> c.items, playlists |-> c.playlists]
  /\ IsSeq(c.items) /\ IsSeq(c.playlists)
  /\ \A i \in 1 .. Len(c.items) : c.items[i].id = i
  /\ \A p \in 1 .. Len(c.playlists) : c.playlists[p].id = p + 1

\* Every catalogue has ids that are positions.
CatsInv ==
  /\ Numbered(cat)
  /\ \A k \in Keys : Numbered(cache[k].cat) /\ Numbered(tmp[k].cat)

\* So does the empty one,
LEMMA NothingNumbered == Numbered(Nothing)
BY EmptyIsSeq, EmptySeq DEF Numbered, Nothing

\* NumberedFrom gives the ids from first on.
LEMMA NumberedFromType ==
  ASSUME NEW items, NEW first, Len(items) \in Nat
  PROVE  /\ IsSeq(NumberedFrom(items, first))
         /\ Len(NumberedFrom(items, first)) = Len(items)
         /\ \A i \in 1 .. Len(items) : NumberedFrom(items, first)[i].id = first + i - 1
<1> DEFINE f == NumberedFrom(items, first)
<1>1. /\ f \in [1 .. Len(items) -> {f[i] : i \in 1 .. Len(items)}]
      /\ \A i \in 1 .. Len(items) : f[i].id = first + i - 1
  BY DEF NumberedFrom
<1> HIDE DEF f
<1>2. IsSeq(f) /\ Len(f) = Len(items)
  BY <1>1, FunctionIsSeq
<1> QED BY <1>1, <1>2 DEF f

\* The playlist that is appended takes the next id.
LEMMA AppendedList ==
  ASSUME NEW lists0, IsSeq(lists0), NEW l,
         \A p \in 1 .. Len(lists0) : lists0[p].id = p + 1,
         l.id = FirstListId + Len(lists0)
  PROVE  /\ IsSeq(Append(lists0, l))
         /\ \A p \in 1 .. Len(Append(lists0, l)) : Append(lists0, l)[p].id = p + 1
<1>1. Len(lists0) \in Nat
  BY IsSeqLen
<1>2. /\ IsSeq(Append(lists0, l)) /\ Len(Append(lists0, l)) = Len(lists0) + 1
      /\ \A p \in 1 .. Len(lists0) + 1 :
           Append(lists0, l)[p] = IF p = Len(lists0) + 1 THEN l ELSE lists0[p]
  BY AppendIsSeq
<1> QED
  BY <1>1, <1>2 DEF FirstListId

\* The items that are added take the next ids.
LEMMA AddedItems ==
  ASSUME NEW a, IsSeq(a), \A i \in 1 .. Len(a) : a[i].id = i, NEW items, IsSeq(items)
  PROVE  LET b == a \o NumberedFrom(items, Len(a) + 1)
         IN  IsSeq(b) /\ \A i \in 1 .. Len(b) : b[i].id = i
<1> DEFINE n == NumberedFrom(items, Len(a) + 1)
<1>0. Len(a) \in Nat /\ Len(items) \in Nat
  BY IsSeqLen
<1>1. /\ IsSeq(n) /\ Len(n) = Len(items)
      /\ \A i \in 1 .. Len(items) : n[i].id = Len(a) + 1 + i - 1
  BY <1>0, NumberedFromType
<1> HIDE DEF n
<1>2. /\ IsSeq(a \o n) /\ Len(a \o n) = Len(a) + Len(n)
      /\ \A i \in 1 .. Len(a) + Len(n) :
           (a \o n)[i] = IF i <= Len(a) THEN a[i] ELSE n[i - Len(a)]
  BY <1>1, ConcatIsSeq
<1>3. ASSUME NEW i \in 1 .. Len(a) + Len(n) PROVE (a \o n)[i].id = i
  <2>1. CASE i <= Len(a)
    BY <1>0, <1>1, <1>2, <2>1
  <2>2. CASE ~(i <= Len(a))
    <3>1. i - Len(a) \in 1 .. Len(items)
      BY <1>0, <1>1, <2>2
    <3>2. n[i - Len(a)].id = Len(a) + 1 + (i - Len(a)) - 1
      BY <1>1, <3>1
    <3>3. (a \o n)[i] = n[i - Len(a)]
      BY <1>2, <2>2
    <3> QED BY <1>0, <3>1, <3>2, <3>3
  <2> QED BY <2>1, <2>2
<1> QED BY <1>2, <1>3 DEF n

\* A catalogue whose parts are numbered is.
LEMMA NumberedRecord ==
  ASSUME NEW i, NEW p, IsSeq(i), IsSeq(p),
         \A n \in 1 .. Len(i) : i[n].id = n, \A n \in 1 .. Len(p) : p[n].id = n + 1
  PROVE  Numbered([items |-> i, playlists |-> p])
BY DEF Numbered

\* A page numbers what follows the catalogue,
LEMMA PageNumbered ==
  ASSUME Numbered(cat), FoundInv, ServerInv, PageArrives
  PROVE  Numbered(cat')
<1>1. server \in Servers /\ start \in Nat
  BY DEF PageArrives, ServerInv, FoundInv, Connected
<1>2. PICK page \in Answers :
        LET read == ParseDidlLite(page.didl)
        IN  \/ UNCHANGED cat
            \/ Assemble([containers |-> found.containers \o read.containers,
                         items |-> found.items \o read.items])
  BY DEF PageArrives, common
<1> DEFINE read == ParseDidlLite(page.didl)
           new == found.items \o read.items
           whole == [containers |-> found.containers \o read.containers, items |-> new]
           items == NumberedFrom(new, Len(cat.items) + 1)
<1>3. Reader(read)
  BY <1>1, PageIsReader
<1> HIDE DEF read
<1>4. IsSeq(new)
  BY <1>3, ConcatIsSeq DEF Reader, FoundInv
<1>5. CASE Assemble(whole)
  <2> DEFINE l == [id |-> FirstListId + Len(cat.playlists), of |-> at.id,
                   name |-> IF at.title = <<>> THEN <<at.id>> ELSE at.title,
                   tracks |-> Ids(items)]
             grown == cat.items \o items
  <2>1. \/ cat' = [items |-> grown, playlists |-> cat.playlists]
        \/ cat' = [items |-> grown, playlists |-> Append(cat.playlists, l)]
    BY <1>5 DEF Assemble
  <2>2. IsSeq(grown) /\ \A i \in 1 .. Len(grown) : grown[i].id = i
    <3> HIDE DEF new
    <3> QED BY <1>4, AddedItems DEF Numbered
  <2>3. l.id = FirstListId + Len(cat.playlists)
    OBVIOUS
  <2> HIDE DEF l, grown
  <2>4. /\ IsSeq(cat.playlists)
        /\ \A p \in 1 .. Len(cat.playlists) : cat.playlists[p].id = p + 1
    BY DEF Numbered
  <2>5. /\ IsSeq(Append(cat.playlists, l))
        /\ \A p \in 1 .. Len(Append(cat.playlists, l)) :
             Append(cat.playlists, l)[p].id = p + 1
    BY <2>3, <2>4, AppendedList
  <2> QED
    BY <2>1, <2>2, <2>4, <2>5, NumberedRecord
<1> QED
  BY <1>2, <1>5 DEF read

\* the songs of a Subsonic server are numbered as they came,
LEMMA SongsNumbered ==
  ASSUME Numbered(cat), AskedInv, SongsKnown
  PROVE  Numbered(cat')
<1> DEFINE i == NumberedFrom(answers, 1)
<1>1. Len(answers) \in Nat
  BY IsSeqLen DEF SongsKnown, AskedInv
<1>2. IsSeq(i) /\ Len(i) = Len(answers) /\ \A n \in 1 .. Len(answers) : i[n].id = 1 + n - 1
  BY <1>1, NumberedFromType
<1>3. cat' = [items |-> i, playlists |-> cat.playlists]
  BY DEF SongsKnown, Numbered
<1> HIDE DEF i
<1>4. \A n \in 1 .. Len(i) : i[n].id = n
  BY <1>1, <1>2
<1> QED
  BY <1>2, <1>3, <1>4, NumberedRecord DEF Numbered

\* a playlist follows those that are there,
LEMMA ListNumbered ==
  ASSUME Numbered(cat), ListKnown
  PROVE  Numbered(cat')
<1> DEFINE l == [id |-> FirstListId + Len(cat.playlists), of |-> Head(lists),
                 name |-> <<Head(lists)>>, tracks |-> Resolved(EntriesOf[Head(lists)])]
<1>1. cat' = cat \/ cat' = [cat EXCEPT !.playlists = Append(cat.playlists, l)]
  BY DEF ListKnown
<1>2. l.id = FirstListId + Len(cat.playlists)
  OBVIOUS
<1> HIDE DEF l
<1>3. /\ IsSeq(cat.playlists)
      /\ \A p \in 1 .. Len(cat.playlists) : cat.playlists[p].id = p + 1
  BY DEF Numbered
<1>4. /\ IsSeq(Append(cat.playlists, l))
      /\ \A p \in 1 .. Len(Append(cat.playlists, l)) :
           Append(cat.playlists, l)[p].id = p + 1
  BY <1>2, <1>3, AppendedList
<1>5. [cat EXCEPT !.playlists = Append(cat.playlists, l)]
        = [items |-> cat.items, playlists |-> Append(cat.playlists, l)]
  BY SMTT(40) DEF Numbered
<1> QED
  BY <1>1, <1>4, <1>5, NumberedRecord DEF Numbered

\* and a directory is numbered in its order.
LEMMA ScanNumbered ==
  ASSUME ScanInv, Scanned
  PROVE  Numbered(cat')
<1> DEFINE files == Sorted(scanned)
           made(readable) == [i \in 1 .. Len(files) |->
                                [song |-> files[i].path,
                                 texts |-> TagsOf(files[i], readable)]]
           items(readable) == NumberedFrom(made(readable), 1)
           lists1 == SubdirPlaylists(files)
<1>0. Len(scanned) \in Nat
  BY IsSeqLen DEF ScanInv
<1>1. IsSeq(files) /\ Len(files) = Len(scanned)
  <2>1. files \in [1 .. Len(scanned) -> {files[i] : i \in 1 .. Len(scanned)}]
    BY DEF Sorted
  <2> HIDE DEF files
  <2> QED BY <1>0, <2>1, FunctionIsSeq
<1> HIDE DEF files
<1>2. ASSUME NEW readable
      PROVE  /\ IsSeq(items(readable))
             /\ \A n \in 1 .. Len(items(readable)) : items(readable)[n].id = n
  <2> DEFINE m == made(readable)
  <2>1. Len(m) \in Nat
    <3>1. m \in [1 .. Len(files) -> {m[i] : i \in 1 .. Len(files)}]
      OBVIOUS
    <3> HIDE DEF m, made
    <3> QED BY <1>0, <1>1, <3>1, FunctionIsSeq
  <2> HIDE DEF m, made
  <2>2. LET i == NumberedFrom(m, 1)
        IN  IsSeq(i) /\ Len(i) = Len(m) /\ \A n \in 1 .. Len(m) : i[n].id = 1 + n - 1
    BY <2>1, NumberedFromType
  <2> QED BY <2>1, <2>2 DEF m
<1>3. IsSeq(lists1) /\ \A n \in 1 .. Len(lists1) : lists1[n].id = n + 1
  <2> DEFINE N == Cardinality(Subdirs(files))
  <2>1. N \in Nat
    <3> DEFINE J == {j \in 1 .. Len(files) : Len(files[j].path) > 1}
    <3>1. IsFiniteSet(J)
      <4>1. IsFiniteSet(1 .. Len(files))
        BY <1>0, <1>1, FS_Interval
      <4> QED BY <4>1, FS_Subset
    <3>2. Subdirs(files) = {files[i].path[1] : i \in J}
      BY DEF Subdirs
    <3> DEFINE f == [i \in J |-> files[i].path[1]]
    <3> HIDE DEF J
    <3>3. f \in Surjection(J, {files[i].path[1] : i \in J})
      BY DEF Surjection
    <3>4. IsFiniteSet({files[i].path[1] : i \in J})
      BY <3>1, <3>3, FS_Surjection
    <3> QED BY <3>2, <3>4, FS_CardinalityType DEF N
  <2> HIDE DEF N
  <2>2. /\ lists1 \in [1 .. N -> {lists1[d] : d \in 1 .. N}]
        /\ \A d \in 1 .. N : lists1[d].id = FirstListId + d - 1
    BY DEF SubdirPlaylists, InOrder, N
  <2> HIDE DEF lists1
  <2>3. IsSeq(lists1) /\ Len(lists1) = N
    BY <2>1, <2>2, FunctionIsSeq
  <2> QED BY <2>1, <2>2, <2>3 DEF FirstListId
<1>4. PICK readable : cat' = [items |-> items(readable), playlists |-> lists1]
  BY DEF Scanned, files
<1> HIDE DEF items, lists1
<1> QED
  BY <1>2, <1>3, <1>4, NumberedRecord

\* The disk may stay as it is,
LEMMA SameCats ==
  ASSUME CatsInv, UNCHANGED <<cache, tmp>>, Numbered(cat')
  PROVE  CatsInv'
<1>1. \A k \in Keys : Numbered(cache[k].cat) /\ Numbered(tmp[k].cat)
  BY DEF CatsInv
<1>2. \A k \in Keys : Numbered(cache'[k].cat) /\ Numbered(tmp'[k].cat)
  BY <1>1
<1>3. (\A k \in Keys : Numbered(cache[k].cat) /\ Numbered(tmp[k].cat))'
  BY <1>2 DEF Numbered
<1>4. Numbered(cat)'
  BY DEF Numbered
<1> QED BY <1>3, <1>4 DEF CatsInv

\* What is written is the catalogue, or a file that is not read.
LEMMA WriteTmpCats ==
  ASSUME CatsInv, CacheInv, WriteTmp
  PROVE  CatsInv'
<1>1. /\ UNCHANGED <<cache, cat>>
      /\ \/ tmp' = [tmp EXCEPT ![Key] = Partial]
         \/ tmp' = [tmp EXCEPT ![Key] = File]
  BY DEF WriteTmp
<1>2. Numbered(Partial.cat) /\ Numbered(File.cat)
  BY NothingNumbered DEF Partial, File, CatsInv
<1>3. ASSUME NEW k \in Keys PROVE tmp'[k] \in {tmp[k], Partial, File}
  BY <1>1 DEF CacheInv
<1>4. \A k \in Keys : Numbered(cache'[k].cat) /\ Numbered(tmp'[k].cat)
  BY <1>1, <1>2, <1>3 DEF CatsInv
<1>5. (\A k \in Keys : Numbered(cache[k].cat) /\ Numbered(tmp[k].cat))'
  BY <1>4 DEF Numbered
<1>6. Numbered(cat)'
  BY <1>1 DEF Numbered, CatsInv
<1> QED BY <1>5, <1>6 DEF CatsInv

\* or be renamed,
LEMMA RenameTmpCats ==
  ASSUME CatsInv, CacheInv, RenameTmp
  PROVE  CatsInv'
<1>1. /\ UNCHANGED cat
      /\ cache' = [cache EXCEPT ![Key] = tmp[Key]]
      /\ tmp' = [tmp EXCEPT ![Key] = NoFile]
  BY DEF RenameTmp
<1>2. Numbered(NoFile.cat)
  BY NothingNumbered DEF NoFile
<1>3. ASSUME NEW k \in Keys
      PROVE  tmp'[k] \in {tmp[k], NoFile} /\ cache'[k] \in {cache[k], tmp[k]}
  BY <1>1 DEF CacheInv
<1>4. \A k \in Keys : Numbered(cache'[k].cat) /\ Numbered(tmp'[k].cat)
  BY <1>2, <1>3 DEF CatsInv
<1>5. (\A k \in Keys : Numbered(cache[k].cat) /\ Numbered(tmp[k].cat))'
  BY <1>4 DEF Numbered
<1>6. Numbered(cat)'
  BY <1>1 DEF Numbered, CatsInv
<1> QED BY <1>5, <1>6 DEF CatsInv

\* and what it holds be loaded.
LEMMA LoadedNumbered ==
  ASSUME CatsInv, ServerInv, LoadCache
  PROVE  Numbered(cat')
<1>1. pc = "connect" /\ args.source = "dlna" /\ args \in Args /\ server \in Servers
  BY DEF LoadCache, ServerInv, Connected
<1>2. Key \in Keys
  BY <1>1 DEF Key, Keys, Roots
<1> QED
  BY <1>2 DEF LoadCache, CatsInv

\* The steps that change the catalogue,
LEMMA CatForm ==
  ASSUME [Next]_vars
  PROVE  \/ cat' \in {cat, Nothing}
         \/ LoadCache \/ PageArrives \/ SongsKnown \/ ListKnown \/ Scanned
BY DEF Next, Step, Fails, Done, vars, common, Restart, Begins, DlnaStep, DlnaFails, ByUrl,
       BySearch, SearchOver, ConnectFails, CacheMiss, Reply, NextEntry, BrowseFails,
       NoSuchObject, Built, WriteTmp, RenameTmp, SaveFails, SubsonicStep, SubsonicFails, TakeCredentials, Pong,
       ArtistsKnown, AlbumsKnown, Send, Answer, ListsKnown, ListsDone, ServerFails, ListsFail,
       ListFails, RequestFails, FsStep, FsFails, Scan, WalkFile, WalkError

\* and those that change the disk.
LEMMA DiskForm ==
  ASSUME [Next]_vars
  PROVE  UNCHANGED disk \/ WriteTmp \/ RenameTmp
BY DEF Next, Step, Fails, Done, vars, dlnaVars, disk, locals, Restart, DlnaForgets, DlnaStep,
       DlnaFails, ByUrl, BySearch, LoadCache, SearchOver, ConnectFails, CacheMiss, Reply,
       NextEntry, BrowseFails, NoSuchObject, Built, PageArrives, SaveFails

\* Every step keeps ids positions.
LEMMA NextCatsInv ==
  ASSUME CatsInv, CacheInv, ServerInv, FoundInv, AskedInv, ScanInv, [Next]_vars
  PROVE  CatsInv'
<1>1. CASE WriteTmp \/ RenameTmp
  BY <1>1, WriteTmpCats, RenameTmpCats
<1>2. CASE UNCHANGED disk
  <2>1. Numbered(cat)
    BY DEF CatsInv
  <2>2. Numbered(cat')
    BY <2>1, CatForm, NothingNumbered, LoadedNumbered, PageNumbered, SongsNumbered,
       ListNumbered, ScanNumbered
  <2> QED BY <1>2, <2>2, SameCats DEF disk
<1> QED BY <1>1, <1>2, DiskForm

\* Ids that are positions identify.
LEMMA NumberedIdentify ==
  ASSUME Numbered(cat)
  PROVE  IdsIdentify
<1> DEFINE c == cat.items
           l == cat.playlists
<1>1. /\ Tracks(DatabaseId) = c /\ Playlists(DatabaseId) = l
      /\ Len(c) \in Nat /\ Len(l) \in Nat
      /\ \A i \in 1 .. Len(c) : c[i].id = i
      /\ \A p \in 1 .. Len(l) : l[p].id = p + 1
  BY IsSeqLen DEF Tracks, Playlists, Numbered
<1>2. ASSUME NEW i \in 1 .. Len(c)
      PROVE  c[i].id > 0 /\ Entry(DatabaseId, c[i].id) = c[i]
  <2> DEFINE here == {j \in 1 .. Len(c) : c[j].id = i}
  <2>1. here = {i}
    BY <1>1
  <2> HIDE DEF here
  <2>2. (CHOOSE n \in here : \A j \in here : n <= j) = i
    BY <1>1, <2>1
  <2>3. Entry(DatabaseId, i) = c[CHOOSE n \in here : \A j \in here : n <= j]
    BY <2>1 DEF Entry, here
  <2>4. c[i].id = i /\ i > 0
    BY <1>1
  <2> QED BY <2>2, <2>3, <2>4
<1>3. \A p, q \in 1 .. Len(l) : l[p].id >= FirstListId /\ (l[p].id = l[q].id => p = q)
  BY <1>1 DEF FirstListId
<1> QED
  BY <1>1, <1>2, <1>3 DEF IdsIdentify

\* The catalogues and all that they are made of.
NumberInv == CacheInv /\ WindowInv /\ ServerInv /\ FoundInv /\ AskedInv /\ ScanInv /\ CatsInv

\* So it is at first,
LEMMA InitNumberInv ==
  ASSUME Init, CacheInv, WindowInv
  PROVE  NumberInv
<1>1. ServerInv
  BY EmptySeq DEF Init, DlnaInit, ServerInv, Connected
<1>2. FoundInv
  BY EmptyIsSeq DEF Init, DlnaInit, FoundInv, NoneFound
<1>3. AskedInv
  BY DEF Init, AskedInv
<1>4. ScanInv
  BY EmptyIsSeq DEF Init, FsInit, ScanInv
<1>5. CatsInv
  BY NothingNumbered DEF Init, DlnaInit, CatsInv, NoFile
<1> QED
  BY <1>1, <1>2, <1>3, <1>4, <1>5 DEF NumberInv

\* after every step,
LEMMA NextNumberInv ==
  ASSUME NumberInv, [Next]_vars
  PROVE  NumberInv'
<1>1. CacheInv' /\ WindowInv'
  BY NextCacheInv, NextWindowInv DEF NumberInv
<1>2. ServerInv' /\ FoundInv' /\ AskedInv' /\ ScanInv'
  BY NextServerInv, NextFoundInv, NextAskedInv, NextScanInv DEF NumberInv
<1>3. CatsInv'
  BY NextCatsInv DEF NumberInv
<1> QED BY <1>1, <1>2, <1>3 DEF NumberInv

\* and in every state: ids are positions, with all that this rests on.
THEOREM NumberInvariant == Spec => []NumberInv
<1>1. Init => NumberInv
  BY InitNumberInv, InitCacheInv, InitWindowInv
<1>2. NumberInv /\ [Next]_vars => NumberInv'
  BY NextNumberInv
<1> QED
  BY <1>1, <1>2, PTL DEF Spec

\* Whatever the source, the order of answers, the pages, the failures and the
\* crashes, and also when the catalogue is that of an earlier start: an id is
\* the id of one track, the one that is streamed for it, and a playlist's id is
\* its own.
THEOREM EveryIdIdentifies == Spec => []IdsIdentify
<1>1. NumberInv => IdsIdentify
  BY NumberedIdentify DEF NumberInv, CatsInv
<1> QED
  BY <1>1, NumberInvariant, PTL

(***************************************************************************)
(* Sequences that are joined, one prefix after the other                   *)
(***************************************************************************)
\* How they are grouped does not matter to what is joined,
LEMMA ConcatAssoc ==
  ASSUME NEW r, NEW s, NEW t, IsSeq(r), IsSeq(s), IsSeq(t)
  PROVE  (r \o s) \o t = r \o (s \o t)
<1>1. PICK R, S, T : r \in Seq(R) /\ s \in Seq(S) /\ t \in Seq(T)
  BY DEF IsSeq
<1> DEFINE U == R \cup S \cup T
<1>2. r \in Seq(U) /\ s \in Seq(U) /\ t \in Seq(U)
  BY <1>1, SeqMonotonic
<1> HIDE DEF U
<1> QED BY <1>2, ConcatAssociative

\* What is joined with nothing stays the same,
LEMMA ConcatNone ==
  ASSUME NEW s, IsSeq(s)
  PROVE  <<>> \o s = s /\ s \o <<>> = s
BY ConcatEmptySeq DEF IsSeq

\* and what is joined has the elements of both.
LEMMA ConcatElements ==
  ASSUME NEW s, NEW t, IsSeq(s), IsSeq(t)
  PROVE  ToSet(s \o t) = ToSet(s) \cup ToSet(t)
<1>0. Len(s) \in Nat /\ Len(t) \in Nat
  BY IsSeqLen
<1>1. /\ IsSeq(s \o t) /\ Len(s \o t) = Len(s) + Len(t)
      /\ \A i \in 1 .. Len(s) + Len(t) :
           (s \o t)[i] = IF i <= Len(s) THEN s[i] ELSE t[i - Len(s)]
  BY ConcatIsSeq
<1>2. /\ DOMAIN s = 1 .. Len(s) /\ DOMAIN t = 1 .. Len(t)
      /\ DOMAIN (s \o t) = 1 .. Len(s) + Len(t)
  BY <1>1, IsSeqDef
<1>3. ASSUME NEW i \in 1 .. Len(s) + Len(t)
      PROVE  (s \o t)[i] \in ToSet(s) \cup ToSet(t)
  BY <1>0, <1>1, <1>2 DEF ToSet
<1>4. ASSUME NEW i \in 1 .. Len(s) PROVE s[i] \in ToSet(s \o t)
  <2>1. i \in 1 .. Len(s) + Len(t) /\ (s \o t)[i] = s[i]
    BY <1>0, <1>1
  <2> QED BY <1>2, <2>1 DEF ToSet
<1>5. ASSUME NEW i \in 1 .. Len(t) PROVE t[i] \in ToSet(s \o t)
  <2>1. Len(s) + i \in 1 .. Len(s) + Len(t) /\ ~(Len(s) + i <= Len(s))
    BY <1>0
  <2>2. (s \o t)[Len(s) + i] = t[(Len(s) + i) - Len(s)] /\ (Len(s) + i) - Len(s) = i
    BY <1>0, <1>1, <2>1
  <2> QED BY <1>2, <2>1, <2>2 DEF ToSet
<1>6. ToSet(s \o t) \subseteq ToSet(s) \cup ToSet(t)
  BY <1>2, <1>3 DEF ToSet
<1>7. ToSet(s) \subseteq ToSet(s \o t) /\ ToSet(t) \subseteq ToSet(s \o t)
  BY <1>2, <1>4, <1>5 DEF ToSet
<1> QED BY <1>6, <1>7

\* A sequence of sequences.
SeqOfSeqs(seqs) == IsSeq(seqs) /\ \A i \in 1 .. Len(seqs) : IsSeq(seqs[i])

\* The first m of some sequences, one after the other.
Joined(seqs, m) == IF m = 0 THEN <<>> ELSE Flat(seqs)[m]

\* None of them joined,
LEMMA JoinedNone == ASSUME NEW seqs PROVE Joined(seqs, 0) = <<>>
BY DEF Joined

\* one more of them,
LEMMA JoinedNext ==
  ASSUME NEW seqs, SeqOfSeqs(seqs), NEW m \in Nat, m < Len(seqs)
  PROVE  Joined(seqs, m + 1) = Joined(seqs, m) \o seqs[m + 1]
<1>0. Len(seqs) \in Nat
  BY IsSeqLen DEF SeqOfSeqs
<1>1. Flattens(Flat(seqs), Len(seqs), seqs)
  BY <1>0, FlatFlattens
<1>2. m + 1 \in 1 .. Len(seqs) /\ (m + 1) - 1 = m /\ m + 1 # 0
  BY <1>0
<1>3. Flat(seqs)[m + 1] = IF m + 1 = 1 THEN seqs[m + 1] ELSE Flat(seqs)[m] \o seqs[m + 1]
  BY <1>1, <1>2 DEF Flattens
<1>4. CASE m = 0
  <2>1. IsSeq(seqs[m + 1])
    BY <1>2 DEF SeqOfSeqs
  <2>2. <<>> \o seqs[m + 1] = seqs[m + 1]
    BY <2>1, ConcatNone
  <2> QED BY <1>3, <1>4, <2>2 DEF Joined
<1>5. CASE m # 0
  <2>1. m + 1 # 1
    BY <1>5
  <2>2. Flat(seqs)[m + 1] = Flat(seqs)[m] \o seqs[m + 1]
    BY <1>3, <2>1
  <2>3. Joined(seqs, m) = Flat(seqs)[m] /\ Joined(seqs, m + 1) = Flat(seqs)[m + 1]
    BY <1>2, <1>5 DEF Joined
  <2> QED BY <2>2, <2>3
<1> QED BY <1>4, <1>5

\* and all of them, which is FlattenSeq.
LEMMA JoinedAll ==
  ASSUME NEW seqs, IsSeq(seqs)
  PROVE  FlattenSeq(seqs) = Joined(seqs, Len(seqs))
<1>1. ASSUME Len(seqs) = 0 PROVE seqs = <<>>
  BY <1>1, EmptySeq DEF IsSeq
<1> QED BY <1>1, FlattenIsLast DEF Joined

\* They make a sequence
LEMMA JoinedIsSeq ==
  ASSUME NEW seqs, SeqOfSeqs(seqs), NEW n \in 0 .. Len(seqs)
  PROVE  IsSeq(Joined(seqs, n))
<1>0. Len(seqs) \in Nat
  BY IsSeqLen DEF SeqOfSeqs
<1> DEFINE P(m) == m <= Len(seqs) => IsSeq(Joined(seqs, m))
<1>1. P(0)
  BY JoinedNone, EmptyIsSeq
<1>2. ASSUME NEW m \in Nat, P(m) PROVE P(m + 1)
  <2> SUFFICES ASSUME m + 1 <= Len(seqs) PROVE IsSeq(Joined(seqs, m + 1))
    OBVIOUS
  <2>1. m < Len(seqs) /\ m + 1 \in 1 .. Len(seqs) /\ IsSeq(Joined(seqs, m))
    BY <1>0, <1>2
  <2>2. IsSeq(Joined(seqs, m)) /\ IsSeq(seqs[m + 1])
    BY <2>1 DEF SeqOfSeqs
  <2>3. Joined(seqs, m + 1) = Joined(seqs, m) \o seqs[m + 1]
    BY <2>1, JoinedNext
  <2> HIDE DEF P
  <2>4. IsSeq(Joined(seqs, m) \o seqs[m + 1])
    BY <2>2, ConcatIsSeq
  <2> QED BY <2>3, <2>4
<1> HIDE DEF P
<1>3. \A m \in Nat : P(m)
  <2> DEFINE G == {m \in Nat : P(m)}
  <2>1. 0 \in G /\ \A m \in Nat : m \in G => m + 1 \in G
    BY <1>1, <1>2
  <2> HIDE DEF G
  <2>2. Nat \subseteq G
    BY <2>1, SetInduction
  <2> QED BY <2>2 DEF G
<1> QED BY <1>0, <1>3 DEF P

\* What is joined has the elements of the parts,
LEMMA JoinedElements ==
  ASSUME NEW seqs, SeqOfSeqs(seqs), NEW n \in 0 .. Len(seqs)
  PROVE  ToSet(Joined(seqs, n)) = UNION {ToSet(seqs[i]) : i \in 1 .. n}
<1>0. Len(seqs) \in Nat
  BY IsSeqLen DEF SeqOfSeqs
<1> DEFINE P(m) == m <= Len(seqs) =>
                     ToSet(Joined(seqs, m)) = UNION {ToSet(seqs[i]) : i \in 1 .. m}
<1>1. P(0)
  <2>1. ToSet(<<>>) = {}
    BY DEF ToSet
  <2> QED BY <2>1, JoinedNone
<1>2. ASSUME NEW m \in Nat, P(m) PROVE P(m + 1)
  <2> SUFFICES ASSUME m + 1 <= Len(seqs)
               PROVE  ToSet(Joined(seqs, m + 1)) = UNION {ToSet(seqs[i]) : i \in 1 .. m + 1}
    OBVIOUS
  <2>1. m < Len(seqs) /\ m + 1 \in 1 .. Len(seqs) /\ m \in 0 .. Len(seqs)
    BY <1>0
  <2>2. IsSeq(Joined(seqs, m)) /\ IsSeq(seqs[m + 1])
    BY <2>1, JoinedIsSeq DEF SeqOfSeqs
  <2>3. Joined(seqs, m + 1) = Joined(seqs, m) \o seqs[m + 1]
    BY <2>1, JoinedNext
  <2>4. ToSet(Joined(seqs, m + 1)) = ToSet(Joined(seqs, m)) \cup ToSet(seqs[m + 1])
    BY <2>2, <2>3, ConcatElements
  <2>5. ToSet(Joined(seqs, m)) = UNION {ToSet(seqs[i]) : i \in 1 .. m}
    BY <1>2, <2>1
  <2>6. 1 .. m + 1 = 1 .. m \cup {m + 1}
    OBVIOUS
  <2>7. UNION {ToSet(seqs[i]) : i \in 1 .. m + 1}
          = (UNION {ToSet(seqs[i]) : i \in 1 .. m}) \cup ToSet(seqs[m + 1])
    <3> DEFINE A == UNION {ToSet(seqs[i]) : i \in 1 .. m}
               B == UNION {ToSet(seqs[i]) : i \in 1 .. m + 1}
    <3>1. A \subseteq B /\ ToSet(seqs[m + 1]) \subseteq B
      BY <2>6
    <3>2. ASSUME NEW x \in B PROVE x \in A \/ x \in ToSet(seqs[m + 1])
      <4>1. PICK i \in 1 .. m + 1 : x \in ToSet(seqs[i])
        OBVIOUS
      <4>2. CASE i \in 1 .. m
        BY <4>1, <4>2
      <4>3. CASE i = m + 1
        BY <4>1, <4>3
      <4> QED BY <2>6, <4>2, <4>3
    <3> HIDE DEF A, B
    <3>3. B = A \cup ToSet(seqs[m + 1])
      BY <3>1, <3>2
    <3> QED BY <3>3 DEF A, B
  <2> QED BY <2>4, <2>5, <2>7
<1> HIDE DEF P
<1>3. \A m \in Nat : P(m)
  <2> DEFINE G == {m \in Nat : P(m)}
  <2>1. 0 \in G /\ \A m \in Nat : m \in G => m + 1 \in G
    BY <1>1, <1>2
  <2> HIDE DEF G
  <2>2. Nat \subseteq G
    BY <2>1, SetInduction
  <2> QED BY <2>2 DEF G
<1> QED BY <1>0, <1>3 DEF P

\* and can be joined in two portions.
\* n of some sequences, after the first k.
Window(seqs, k, n) == [i \in 1 .. n |-> seqs[k + i]]

\* A prefix is a shorter one and the window that follows it.
LEMMA JoinedSplit ==
  ASSUME NEW seqs, SeqOfSeqs(seqs), NEW k \in Nat, NEW n \in Nat, k + n <= Len(seqs)
  PROVE  Joined(seqs, k + n) = Joined(seqs, k) \o FlattenSeq(Window(seqs, k, n))
<1> DEFINE more == Window(seqs, k, n)
<1>9. more = [i \in 1 .. n |-> seqs[k + i]]
  BY DEF Window
<1> HIDE DEF more
<1>0. Len(seqs) \in Nat
  BY IsSeqLen DEF SeqOfSeqs
<1>1. IsSeq(more) /\ Len(more) = n
  <2>1. more \in [1 .. n -> {more[i] : i \in 1 .. n}]
    BY <1>9
  <2> QED BY <2>1, FunctionIsSeq
<1>2. SeqOfSeqs(more)
  <2>1. \A i \in 1 .. n : k + i \in 1 .. Len(seqs) /\ more[i] = seqs[k + i]
    BY <1>9, <1>0
  <2> QED BY <1>1, <2>1 DEF SeqOfSeqs
<1> DEFINE P(m) == m <= n => Joined(seqs, k + m) = Joined(seqs, k) \o Joined(more, m)
<1>3. P(0)
  <2>1. k \in 0 .. Len(seqs) /\ k + 0 = k
    BY <1>0
  <2>2. IsSeq(Joined(seqs, k))
    BY <2>1, JoinedIsSeq
  <2> QED BY <2>1, <2>2, JoinedNone, ConcatNone
<1>4. ASSUME NEW m \in Nat, P(m) PROVE P(m + 1)
  <2> SUFFICES ASSUME m + 1 <= n
               PROVE  Joined(seqs, k + (m + 1)) = Joined(seqs, k) \o Joined(more, m + 1)
    OBVIOUS
  <2>1. /\ m < Len(more) /\ m <= n /\ k + m \in Nat /\ k + m < Len(seqs) /\ (k + m) + 1 = k + (m + 1)
        /\ m + 1 \in 1 .. n /\ m \in 0 .. Len(more) /\ k \in 0 .. Len(seqs)
        /\ k + (m + 1) \in 1 .. Len(seqs)
    BY <1>0, <1>1
  <2>2. Joined(seqs, k + m) = Joined(seqs, k) \o Joined(more, m)
    BY <1>4, <2>1
  <2>3. Joined(seqs, k + (m + 1)) = Joined(seqs, k + m) \o seqs[k + (m + 1)]
    BY <2>1, JoinedNext
  <2>4. Joined(more, m + 1) = Joined(more, m) \o more[m + 1]
    BY <1>2, <2>1, JoinedNext
  <2>5. more[m + 1] = seqs[k + (m + 1)]
    BY <1>9, <2>1
  <2>6. IsSeq(Joined(seqs, k)) /\ IsSeq(Joined(more, m)) /\ IsSeq(seqs[k + (m + 1)])
    BY <1>2, <2>1, JoinedIsSeq DEF SeqOfSeqs
  <2> HIDE DEF P
  <2>7. (Joined(seqs, k) \o Joined(more, m)) \o seqs[k + (m + 1)]
          = Joined(seqs, k) \o (Joined(more, m) \o seqs[k + (m + 1)])
    <3> DEFINE j == Joined(seqs, k)
               o == Joined(more, m)
               x == seqs[k + (m + 1)]
    <3> HIDE DEF j, o, x
    <3>1. IsSeq(j) /\ IsSeq(o) /\ IsSeq(x)
      BY <2>6 DEF j, o, x
    <3>2. (j \o o) \o x = j \o (o \o x)
      BY <3>1, ConcatAssoc
    <3> QED BY <3>2 DEF j, o, x
  <2> QED BY <2>2, <2>3, <2>4, <2>5, <2>7
<1> HIDE DEF P
<1>5. \A m \in Nat : P(m)
  <2> DEFINE G == {m \in Nat : P(m)}
  <2>1. 0 \in G /\ \A m \in Nat : m \in G => m + 1 \in G
    BY <1>3, <1>4
  <2> HIDE DEF G
  <2>2. Nat \subseteq G
    BY <2>1, SetInduction
  <2> QED BY <2>2 DEF G
<1>6. Joined(seqs, k + n) = Joined(seqs, k) \o Joined(more, n)
  <2>1. P(n)
    BY <1>5
  <2>2. n <= n
    OBVIOUS
  <2> QED BY <2>1, <2>2 DEF P
<1>7. FlattenSeq(more) = Joined(more, n)
  BY <1>1, JoinedAll
<1> QED BY <1>6, <1>7 DEF more

(***************************************************************************)
(* The reader, piece by piece                                              *)
(***************************************************************************)
\* The reader after no event,
LEMMA AfterNone == ASSUME NEW s PROVE After(s, <<>>) = s
BY ReadStart DEF After

\* One event,
LEMMA AfterOne ==
  ASSUME NEW s, NEW e
  PROVE  After(s, <<e>>) = HandleEvent(s, e)
<1>1. Len(<<e>>) = 1 /\ <<e>>[1] = e
  OBVIOUS
<1> DEFINE ev == <<e>>
<1> HIDE DEF ev
<1>2. ReadUpTo(s, ev)[0] = s
  BY <1>1, ReadStart DEF ev
<1>3. ReadUpTo(s, ev)[0 + 1] = HandleEvent(ReadUpTo(s, ev)[0], ev[0 + 1])
  <2>1. Len(ev) \in Nat /\ 0 < Len(ev)
    BY <1>1 DEF ev
  <2> QED BY <2>1, ReadNext
<1> QED BY <1>1, <1>2, <1>3 DEF After, ev

\* and events that follow others.
LEMMA AfterConcat ==
  ASSUME NEW s, NEW a, NEW b, IsSeq(a), IsSeq(b)
  PROVE  After(s, a \o b) = After(After(s, a), b)
<1>0. Len(a) \in Nat /\ Len(b) \in Nat
  BY IsSeqLen
<1>1. /\ IsSeq(a \o b) /\ Len(a \o b) = Len(a) + Len(b)
      /\ \A i \in 1 .. Len(a) + Len(b) :
           (a \o b)[i] = IF i <= Len(a) THEN a[i] ELSE b[i - Len(a)]
  BY ConcatIsSeq
<1> DEFINE c == a \o b
           f == ReadUpTo(s, c)
           g == ReadUpTo(s, a)
           h == ReadUpTo(After(s, a), b)
           P(m) == m <= Len(a) => f[m] = g[m]
           Q(m) == m <= Len(b) => f[Len(a) + m] = h[m]
<1>2. Len(c) \in Nat /\ Len(c) = Len(a) + Len(b)
  BY <1>0, <1>1
<1>3. f[0] = s /\ g[0] = s /\ h[0] = After(s, a)
  <2> HIDE DEF c
  <2> QED BY <1>0, <1>2, ReadStart
<1>4. ASSUME NEW m \in Nat, P(m) PROVE P(m + 1)
  <2> SUFFICES ASSUME m + 1 <= Len(a) PROVE f[m + 1] = g[m + 1]
    OBVIOUS
  <2>1. m < Len(a) /\ m < Len(c) /\ m + 1 \in 1 .. Len(a) + Len(b) /\ f[m] = g[m]
    BY <1>0, <1>2, <1>4
  <2>2. c[m + 1] = a[m + 1]
    BY <1>1, <2>1
  <2> HIDE DEF c, P
  <2>3. f[m + 1] = HandleEvent(f[m], c[m + 1])
    BY <1>2, <2>1, ReadNext
  <2>4. g[m + 1] = HandleEvent(g[m], a[m + 1])
    BY <1>0, <2>1, ReadNext
  <2> QED BY <2>1, <2>2, <2>3, <2>4
<1>5. P(Len(a))
  <2>1. P(0)
    BY <1>3
  <2> HIDE DEF P
  <2> DEFINE G == {m \in Nat : P(m)}
  <2>2. 0 \in G /\ \A m \in Nat : m \in G => m + 1 \in G
    BY <1>4, <2>1
  <2> HIDE DEF G
  <2>3. Nat \subseteq G
    BY <2>2, SetInduction
  <2> QED BY <1>0, <2>3 DEF G
<1>6. f[Len(a)] = After(s, a)
  BY <1>0, <1>5 DEF After
<1>7. ASSUME NEW m \in Nat, Q(m) PROVE Q(m + 1)
  <2> SUFFICES ASSUME m + 1 <= Len(b) PROVE f[Len(a) + (m + 1)] = h[m + 1]
    OBVIOUS
  <2>1. /\ m < Len(b) /\ Len(a) + m \in Nat /\ Len(a) + m < Len(c)
        /\ Len(a) + (m + 1) \in 1 .. Len(a) + Len(b) /\ ~(Len(a) + (m + 1) <= Len(a))
        /\ (Len(a) + m) + 1 = Len(a) + (m + 1) /\ (Len(a) + (m + 1)) - Len(a) = m + 1
        /\ f[Len(a) + m] = h[m]
    BY <1>0, <1>2, <1>7
  <2>2. c[Len(a) + (m + 1)] = b[m + 1]
    BY <1>1, <2>1
  <2> HIDE DEF c, Q, P
  <2>3. f[(Len(a) + m) + 1] = HandleEvent(f[Len(a) + m], c[(Len(a) + m) + 1])
    BY <1>2, <2>1, ReadNext
  <2>4. h[m + 1] = HandleEvent(h[m], b[m + 1])
    BY <1>0, <2>1, ReadNext
  <2> QED BY <2>1, <2>2, <2>3, <2>4
<1>8. Q(Len(b))
  <2>1. Q(0)
    BY <1>0, <1>3, <1>6
  <2> HIDE DEF Q
  <2> DEFINE G == {m \in Nat : Q(m)}
  <2>2. 0 \in G /\ \A m \in Nat : m \in G => m + 1 \in G
    BY <1>7, <2>1
  <2> HIDE DEF G
  <2>3. Nat \subseteq G
    BY <2>2, SetInduction
  <2> QED BY <1>0, <2>3 DEF G
<1>9. f[Len(c)] = h[Len(b)]
  BY <1>0, <1>2, <1>8
<1> QED BY <1>9 DEF After

\* A state of the reader, and the element that is open in it.
At(node, target, cs, its) ==
  [node |-> node, target |-> target, containers |-> cs, items |-> its]

\* An element that is open.
NodeAs(is, id, has, text) == [is |-> is, id |-> id, has |-> has, text |-> text]

\* Its texts are sequences,
Texts(text) == text = [t \in ItemTexts |-> text[t]] /\ \A t \in ItemTexts : IsSeq(text[t])

\* and it is an item or a container.
IsNode(n) ==
  /\ n = NodeAs(n.is, n.id, n.has, n.text)
  /\ n.is \in {"item", "container"}
  /\ Texts(n.text)

\* Where a text is kept, and what of it.
LandsIn(is, target) == target \in ItemTexts /\ (is = "item" \/ (is = "container" /\ target = "title"))

\* The texts when one of them grew.
WithText(text, target, x) == [text EXCEPT ![target] = text[target] \o x]

\* A text is there when something was read of it.
HasWith(has, target, x) == IF Len(x) = 0 THEN has ELSE has \cup {target}

\* A piece of text that has a place is added to it,
LEMMA ApplyLands ==
  ASSUME NEW is, NEW id, NEW has, NEW text, Texts(text), NEW target, LandsIn(is, target),
         NEW cs, NEW its, NEW x
  PROVE  ApplyText(At(NodeAs(is, id, has, text), target, cs, its), x)
           = At(NodeAs(is, id, has \cup {target}, [text EXCEPT ![target] = text[target] \o x]),
                target, cs, its)
<1> DEFINE n == NodeAs(is, id, has, text)
           s == At(n, target, cs, its)
           y == text[target] \o x
           grown == [text EXCEPT ![target] = y]
           s1 == [s EXCEPT !.node.text[target] = y]
<1>1. Lands(s) /\ s.target = target
  BY DEF Lands, LandsIn, At, NodeAs, ItemTexts
<1>2. ApplyText(s, x) = [s EXCEPT !.node.text[target] = @ \o x, !.node.has = @ \cup {target}]
  BY <1>1 DEF ApplyText
<1>3. s.node.text[target] \o x = y
  BY DEF At, NodeAs
<1>4. ApplyText(s, x) = [s1 EXCEPT !.node.has = @ \cup {target}]
  <2>1. ApplyText(s, x) = [[s EXCEPT !.node.text[target] = @ \o x]
                              EXCEPT !.node.has = @ \cup {target}]
    <3> DEFINE e1 == [s EXCEPT !.node.text[target] = @ \o x]
    <3>1. e1.node.has = s.node.has
      BY DEF At, NodeAs
    <3> QED BY <1>2, <3>1 DEF At, NodeAs
  <2>2. [s EXCEPT !.node.text[target] = @ \o x] = s1
    <3>1. [s EXCEPT !.node.text[target] = s.node.text[target] \o x] = s1
      BY <1>3
    <3> HIDE DEF s, s1
    <3> QED BY <3>1
  <2> HIDE DEF s, s1
  <2> QED BY <2>1, <2>2
<1> HIDE DEF y
<1>5. s1 = At(NodeAs(is, id, has, grown), target, cs, its)
  BY DEF At, NodeAs
<1> HIDE DEF grown, s1, s, n
<1>6. [s1 EXCEPT !.node.has = @ \cup {target}]
        = At(NodeAs(is, id, has \cup {target}, grown), target, cs, its)
  BY <1>5 DEF At, NodeAs
<1> QED BY <1>4, <1>6 DEF s, n, grown, y

\* and one that has none changes nothing.
LEMMA ApplyLost ==
  ASSUME NEW is, NEW id, NEW has, NEW text, NEW target, target \in ItemTexts \cup {"none"},
         ~LandsIn(is, target), NEW cs, NEW its, NEW x
  PROVE  ApplyText(At(NodeAs(is, id, has, text), target, cs, its), x)
           = At(NodeAs(is, id, has, text), target, cs, its)
<1>1. ~Lands(At(NodeAs(is, id, has, text), target, cs, its))
  BY DEF Lands, LandsIn, At, NodeAs, ItemTexts
<1> QED BY <1>1 DEF ApplyText

\* Whether it is an entity or not, a character is read.
LEMMA CharRead ==
  ASSUME NEW s, NEW words, NEW i \in 1 .. Len(words)
  PROVE  HandleEvent(s, Cut(words)[i]) = ApplyText(s, <<words[i]>>)
<1> DEFINE c == words[i]
<1>1. Cut(words)[i] = IF \E name \in DOMAIN Entity : Entity[name] = <<c>>
                      THEN Ref(CHOOSE name \in DOMAIN Entity : Entity[name] = <<c>>)
                      ELSE Chars(<<c>>)
  BY DEF Cut
<1>2. CASE \E name \in DOMAIN Entity : Entity[name] = <<c>>
  <2> DEFINE n == CHOOSE name \in DOMAIN Entity : Entity[name] = <<c>>
  <2>1. n \in DOMAIN Entity /\ Entity[n] = <<c>>
    BY <1>2
  <2> HIDE DEF n
  <2>2. HandleEvent(s, Ref(n)) = ApplyText(s, Entity[n])
    BY <2>1 DEF HandleEvent, Ref
  <2> QED BY <1>1, <1>2, <2>1, <2>2 DEF n
<1>3. CASE ~\E name \in DOMAIN Entity : Entity[name] = <<c>>
  <2>1. HandleEvent(s, Chars(<<c>>)) = ApplyText(s, <<c>>)
    BY DEF HandleEvent, Chars
  <2> QED BY <1>1, <1>3, <2>1
<1> QED BY <1>2, <1>3

\* A text is cut at every character.
LEMMA CutLen ==
  ASSUME NEW words, IsSeq(words)
  PROVE  IsSeq(Cut(words)) /\ Len(Cut(words)) = Len(words) /\ Len(words) \in Nat
<1>1. Len(words) \in Nat
  BY IsSeqLen
<1>2. Cut(words) \in [1 .. Len(words) -> {Cut(words)[i] : i \in 1 .. Len(words)}]
  BY DEF Cut
<1> QED BY <1>1, <1>2, FunctionIsSeq

\* A run of text is read to its end, wherever it is cut.
LEMMA AfterCut ==
  ASSUME NEW is, NEW id, NEW has, NEW text, Texts(text), NEW target, LandsIn(is, target),
         NEW cs, NEW its, NEW words, IsSeq(words)
  PROVE  After(At(NodeAs(is, id, has, text), target, cs, its), Cut(words))
           = At(NodeAs(is, id, HasWith(has, target, words), WithText(text, target, words)),
                target, cs, its)
<1> DEFINE N == Len(words)
           s == At(NodeAs(is, id, has, text), target, cs, its)
           cut == Cut(words)
           f == ReadUpTo(s, cut)
           old == text[target]
           hasAt(m) == IF m = 0 THEN has ELSE has \cup {target}
           textAt(m) == [text EXCEPT ![target] = old \o SubSeq(words, 1, m)]
           P(m) == m <= N => f[m] = At(NodeAs(is, id, hasAt(m), textAt(m)), target, cs, its)
<1>0. IsSeq(cut) /\ Len(cut) = N /\ N \in Nat
  BY CutLen
<1>1. target \in ItemTexts /\ IsSeq(old) /\ text = [t \in ItemTexts |-> text[t]]
  BY DEF LandsIn, Texts
<1>2. PICK T : words \in Seq(T)
  BY DEF IsSeq
<1>3. ASSUME NEW m \in 0 .. N
      PROVE  IsSeq(SubSeq(words, 1, m))
  <2>1. 1 \in Int /\ m \in Int /\ \A i \in 1 .. m : words[i] \in T
    BY <1>0, <1>2
  <2>2. SubSeq(words, 1, m) \in Seq(T)
    BY <2>1, SubSeqProperties
  <2> QED BY <2>2 DEF IsSeq
<1>4. ASSUME NEW m \in Nat, m < N
      PROVE  SubSeq(words, 1, m + 1) = SubSeq(words, 1, m) \o <<words[m + 1]>>
  <2>1. 1 \in 1 .. Len(words) /\ m + 1 \in 1 .. Len(words) /\ (m + 1) - 1 = m
    BY <1>0, <1>4
  <2>2. SubSeq(words, 1, m + 1) = SubSeq(words, 1, (m + 1) - 1) \o <<words[m + 1]>>
    BY <1>2, <2>1, SubSeqRecursiveSecond
  <2> QED BY <2>1, <2>2
<1>5. P(0)
  <2>1. f[0] = s
    BY <1>0, ReadStart
  <2>2. SubSeq(words, 1, 0) = <<>>
    BY <1>2, SubSeqEmpty
  <2>3. old \o <<>> = old
    BY <1>1, ConcatNone
  <2> HIDE DEF old, f
  <2>4. textAt(0) = text
    BY <1>1, <2>2, <2>3 DEF old
  <2> QED BY <2>1, <2>4
<1>6. ASSUME NEW m \in Nat, P(m) PROVE P(m + 1)
  <2> SUFFICES ASSUME m + 1 <= N
               PROVE  f[m + 1] = At(NodeAs(is, id, hasAt(m + 1), textAt(m + 1)), target, cs, its)
    OBVIOUS
  <2>1. m < N /\ m + 1 \in 1 .. N /\ m + 1 # 0 /\ m \in 0 .. N
    BY <1>0
  <2>2. f[m] = At(NodeAs(is, id, hasAt(m), textAt(m)), target, cs, its)
    BY <1>6, <2>1
  <2>3. f[m + 1] = HandleEvent(f[m], cut[m + 1])
    BY <1>0, <2>1, ReadNext
  <2>4. HandleEvent(f[m], cut[m + 1]) = ApplyText(f[m], <<words[m + 1]>>)
    BY <2>1, CharRead
  <2>5. IsSeq(old \o SubSeq(words, 1, m))
    BY <1>1, <1>3, <2>1, ConcatIsSeq
  <2> HIDE DEF f, cut, P, old
  <2>6. Texts(textAt(m)) /\ textAt(m)[target] = old \o SubSeq(words, 1, m)
    BY <1>1, <2>5 DEF Texts
  <2> DEFINE ta == textAt(m)
             ha == hasAt(m)
             x == <<words[m + 1]>>
  <2>7. Texts(ta)
    BY <2>6
  <2> HIDE DEF ta, ha, x
  <2>8. ApplyText(At(NodeAs(is, id, ha, ta), target, cs, its), x)
          = At(NodeAs(is, id, ha \cup {target}, [ta EXCEPT ![target] = ta[target] \o x]),
               target, cs, its)
    BY <2>7, ApplyLands
  <2>9. ha \cup {target} = hasAt(m + 1)
    BY <2>1 DEF ha
  <2>10. (old \o SubSeq(words, 1, m)) \o x = old \o SubSeq(words, 1, m + 1)
    <3>1. IsSeq(SubSeq(words, 1, m)) /\ IsSeq(x) /\ IsSeq(old)
      BY <1>1, <1>3, <2>1, OneIsSeq DEF x, old
    <3> DEFINE p == SubSeq(words, 1, m)
    <3>2. IsSeq(p) /\ IsSeq(x) /\ IsSeq(old)
      BY <3>1
    <3> HIDE DEF p
    <3>3. (old \o p) \o x = old \o (p \o x)
      BY ONLY <3>2, ConcatAssoc, SMTT(20)
    <3> QED BY <1>4, <2>1, <3>3 DEF p, x
  <2>11. [ta EXCEPT ![target] = ta[target] \o x] = textAt(m + 1)
    <3>1. ta[target] \o x = old \o SubSeq(words, 1, m + 1)
      BY <2>6, <2>10 DEF ta
    <3> DEFINE y == old \o SubSeq(words, 1, m + 1)
    <3>2. [ta EXCEPT ![target] = y] = [text EXCEPT ![target] = y]
      BY <1>1 DEF ta
    <3> QED BY <3>1, <3>2
  <2> QED BY <2>2, <2>3, <2>4, <2>8, <2>9, <2>11 DEF ta, ha, x
<1> HIDE DEF P
<1>7. \A m \in Nat : P(m)
  <2> DEFINE G == {m \in Nat : P(m)}
  <2>1. 0 \in G /\ \A m \in Nat : m \in G => m + 1 \in G
    BY <1>5, <1>6
  <2> HIDE DEF G
  <2>2. Nat \subseteq G
    BY <2>1, SetInduction
  <2> QED BY <2>2 DEF G
<1>8. f[N] = At(NodeAs(is, id, hasAt(N), textAt(N)), target, cs, its)
  <2>1. P(N) /\ N <= N
    BY <1>0, <1>7
  <2> QED BY <2>1 DEF P
<1>9. SubSeq(words, 1, N) = words
  BY <1>2, SubSeqFull
<1> QED BY <1>0, <1>8, <1>9 DEF After, WithText, HasWith

\* A run of text without a place changes nothing.
LEMMA AfterCutLost ==
  ASSUME NEW is, NEW id, NEW has, NEW text, NEW target, target \in ItemTexts \cup {"none"},
         ~LandsIn(is, target), NEW cs, NEW its, NEW words, IsSeq(words)
  PROVE  After(At(NodeAs(is, id, has, text), target, cs, its), Cut(words))
           = At(NodeAs(is, id, has, text), target, cs, its)
<1> DEFINE N == Len(words)
           s == At(NodeAs(is, id, has, text), target, cs, its)
           cut == Cut(words)
           f == ReadUpTo(s, cut)
           P(m) == m <= N => f[m] = s
<1>0. IsSeq(cut) /\ Len(cut) = N /\ N \in Nat
  BY CutLen
<1>1. P(0)
  BY <1>0, ReadStart
<1>2. ASSUME NEW m \in Nat, P(m) PROVE P(m + 1)
  <2> SUFFICES ASSUME m + 1 <= N PROVE f[m + 1] = s
    OBVIOUS
  <2>1. m < N /\ m + 1 \in 1 .. N /\ f[m] = s
    BY <1>0, <1>2
  <2>2. f[m + 1] = HandleEvent(f[m], cut[m + 1])
    BY <1>0, <2>1, ReadNext
  <2>3. HandleEvent(s, cut[m + 1]) = ApplyText(s, <<words[m + 1]>>)
    BY <2>1, CharRead
  <2>4. ApplyText(s, <<words[m + 1]>>) = s
    BY ApplyLost
  <2> QED BY <2>1, <2>2, <2>3, <2>4
<1> HIDE DEF P
<1>3. \A m \in Nat : P(m)
  <2> DEFINE G == {m \in Nat : P(m)}
  <2>1. 0 \in G /\ \A m \in Nat : m \in G => m + 1 \in G
    BY <1>1, <1>2
  <2> HIDE DEF G
  <2>2. Nat \subseteq G
    BY <2>1, SetInduction
  <2> QED BY <2>2 DEF G
<1>4. f[N] = s
  <2>1. P(N) /\ N <= N
    BY <1>0, <1>3
  <2> QED BY <2>1 DEF P
<1> QED BY <1>0, <1>4 DEF After

\* A blank between texts changes nothing.
LEMMA BlankLost ==
  ASSUME NEW n, IsNode(n), NEW cs, NEW its
  PROVE  HandleEvent(At(n, "none", cs, its), Chars(<<" ">>)) = At(n, "none", cs, its)
<1>1. HandleEvent(At(n, "none", cs, its), Chars(<<" ">>)) = ApplyText(At(n, "none", cs, its), <<" ">>)
  BY DEF HandleEvent, Chars
<1>2. ~Lands(At(n, "none", cs, its))
  BY DEF Lands, At
<1> QED BY <1>1, <1>2 DEF ApplyText

\* The events of one text of an element.
TextEvents(p) == <<Open(p[1], "")>> \o Cut(p[2]) \o <<Close(p[1]), Chars(<<" ">>)>>

\* A text is taken unless the element has no such text, or has its resource.
Takes(n, tag) ==
  LandsIn(n.is, tag) /\ (tag = "res" => "res" \notin n.has)

\* The node when a text was read.
Grown(n, p) ==
  IF Takes(n, p[1])
  THEN NodeAs(n.is, n.id,
              IF p[1] = "res" \/ Len(p[2]) # 0 THEN n.has \cup {p[1]} ELSE n.has,
              WithText(n.text, p[1], p[2]))
  ELSE n

\* It is an element still.
LEMMA GrownIsNode ==
  ASSUME NEW n, IsNode(n), NEW p, IsSeq(p[2])
  PROVE  IsNode(Grown(n, p))
<1> DEFINE tag == p[1]
           y == n.text[tag] \o p[2]
<1>1. CASE Takes(n, tag)
  <2>1. tag \in ItemTexts
    BY <1>1 DEF Takes, LandsIn
  <2>2. IsSeq(n.text[tag])
    BY <2>1 DEF IsNode, Texts
  <2>3. IsSeq(y)
    BY <2>2, ConcatIsSeq
  <2> HIDE DEF y, tag
  <2>4. Texts([n.text EXCEPT ![tag] = y])
    BY <2>1, <2>3 DEF IsNode, Texts
  <2>5. n.is \in {"item", "container"}
    BY DEF IsNode
  <2> DEFINE te == [n.text EXCEPT ![tag] = y]
  <2>6. Grown(n, p) = NodeAs(n.is, n.id,
              IF p[1] = "res" \/ Len(p[2]) # 0 THEN n.has \cup {p[1]} ELSE n.has, te)
    BY <1>1 DEF Grown, tag, y, WithText
  <2>7. Texts(te)
    BY <2>4
  <2> HIDE DEF te
  <2>8. \E h : Grown(n, p) = NodeAs(n.is, n.id, h, te)
    BY <2>6
  <2> QED BY <2>5, <2>7, <2>8 DEF IsNode, NodeAs
<1>2. CASE ~Takes(n, tag)
  BY <1>2 DEF Grown
<1> QED BY <1>1, <1>2

\* A tag within an element,
Inner(tag) == tag \notin {"container", "item"}

\* and the text that it begins: one that the element takes
Opened(n, tag, cs, its) ==
  At(IF tag = "res" THEN NodeAs(n.is, n.id, n.has \cup {"res"}, n.text) ELSE n, tag, cs, its)

\* or one that it does not.
Lost(n, s, cs, its) ==
  \E t \in ItemTexts \cup {"none"} : ~LandsIn(n.is, t) /\ s = At(n, t, cs, its)

\* The start of a text, which the element takes or does not;
LEMMA OpenText ==
  ASSUME NEW n, IsNode(n), NEW cs, NEW its, NEW tag, Inner(tag)
  PROVE  /\ Takes(n, tag) =>
              HandleEvent(At(n, "none", cs, its), Open(tag, "")) = Opened(n, tag, cs, its)
         /\ ~Takes(n, tag) =>
              Lost(n, HandleEvent(At(n, "none", cs, its), Open(tag, "")), cs, its)
<1> USE DEF Opened, Lost
<1> DEFINE s == At(n, "none", cs, its)
           e == Open(tag, "")
<1>0. HandleEvent(s, e) = HandleStart(s, e) /\ e.tag = tag
  BY DEF HandleEvent, Open
<1>1. s.node = n /\ n.is \in {"item", "container"} /\ n = NodeAs(n.is, n.id, n.has, n.text)
  BY DEF At, IsNode
<1>2. CASE tag \in ItemTexts \ {"res"}
  <2>1. HandleStart(s, e) = [s EXCEPT !.target = tag]
    BY <1>0, <1>2 DEF HandleStart, ItemTexts
  <2>2. [s EXCEPT !.target = tag] = At(n, tag, cs, its)
    BY DEF At
  <2>3. tag # "res" /\ tag \in ItemTexts
    BY <1>2
  <2>4. Takes(n, tag) <=> LandsIn(n.is, tag)
    BY <2>3 DEF Takes
  <2> QED BY <1>0, <2>1, <2>2, <2>3, <2>4
<1>3. CASE tag = "res"
  <2>1. LandsIn(n.is, "res") <=> n.is = "item"
    BY <1>1 DEF LandsIn, ItemTexts
  <2>2. CASE Takes(n, tag)
    <3>1. n.is = "item" /\ "res" \notin n.has
      BY <1>3, <2>1, <2>2 DEF Takes
    <3>2. HandleStart(s, e) = [s EXCEPT !.target = "res", !.node.has = @ \cup {"res"}]
      BY <1>0, <1>1, <1>3, <3>1 DEF HandleStart
    <3> DEFINE s1 == [s EXCEPT !.target = "res"]
    <3>3. s1 = At(n, "res", cs, its)
      BY DEF At
    <3>4. [s EXCEPT !.target = "res", !.node.has = @ \cup {"res"}]
            = [s1 EXCEPT !.node.has = n.has \cup {"res"}]
      BY DEF At
    <3> HIDE DEF s1, s
    <3>5. [s1 EXCEPT !.node.has = n.has \cup {"res"}]
            = At([n EXCEPT !.has = n.has \cup {"res"}], "res", cs, its)
      BY <3>3 DEF At
    <3> DEFINE h == n.has \cup {"res"}
    <3> HIDE DEF h
    <3>6. [n EXCEPT !.has = h] = NodeAs(n.is, n.id, h, n.text)
      BY <1>1 DEF NodeAs
    <3> QED BY <1>0, <1>3, <2>2, <3>2, <3>4, <3>5, <3>6 DEF h, s
  <2>3. CASE ~Takes(n, tag)
    <3>1. ~(n.is = "item" /\ "res" \notin n.has)
      BY <1>3, <2>1, <2>3 DEF Takes
    <3>2. HandleStart(s, e) = s
      BY <1>0, <1>1, <1>3, <3>1 DEF HandleStart
    <3>3. ~LandsIn(n.is, "none")
      BY DEF LandsIn, ItemTexts
    <3> QED BY <1>0, <2>3, <3>2, <3>3
  <2> QED BY <2>2, <2>3
<1>4. CASE tag \notin ItemTexts
  <2>1. HandleStart(s, e) = s
    BY <1>0, <1>4 DEF HandleStart, ItemTexts, Inner
  <2>2. ~LandsIn(n.is, "none") /\ ~Takes(n, tag)
    BY <1>4 DEF LandsIn, Takes, ItemTexts
  <2> QED BY <1>0, <2>1, <2>2
<1> QED BY <1>2, <1>3, <1>4

\* the first,
LEMMA OpenTaken ==
  ASSUME NEW n, IsNode(n), NEW cs, NEW its, NEW tag, Inner(tag), Takes(n, tag)
  PROVE  HandleEvent(At(n, "none", cs, its), Open(tag, "")) = Opened(n, tag, cs, its)
BY OpenText

\* and the second.
LEMMA OpenLost ==
  ASSUME NEW n, IsNode(n), NEW cs, NEW its, NEW tag, Inner(tag), ~Takes(n, tag)
  PROVE  Lost(n, HandleEvent(At(n, "none", cs, its), Open(tag, "")), cs, its)
BY OpenText

\* The end of a text.
LEMMA CloseText ==
  ASSUME NEW n, NEW t, NEW cs, NEW its, NEW tag, Inner(tag)
  PROVE  HandleEvent(At(n, t, cs, its), Close(tag)) = At(n, "none", cs, its)
<1> DEFINE s == At(n, t, cs, its)
           e == Close(tag)
<1>1. HandleEvent(s, e) = HandleEnd(s, e) /\ e.tag = tag
  BY DEF HandleEvent, Close
<1>2. HandleEnd(s, e) = [s EXCEPT !.target = "none"]
  BY <1>1 DEF HandleEnd, Inner
<1> QED BY <1>1, <1>2 DEF At

\* Four pieces, one after the other.
LEMMA AfterThree ==
  ASSUME NEW s, NEW a, NEW b, IsSeq(b), NEW c, NEW d
  PROVE  /\ IsSeq(<<a>> \o b \o <<c, d>>)
         /\ After(s, <<a>> \o b \o <<c, d>>)
              = HandleEvent(HandleEvent(After(HandleEvent(s, a), b), c), d)
<1> DEFINE x == <<a>>
           y == <<c>>
           z == <<d>>
           w == <<c, d>>
<1>1. IsSeq(x) /\ IsSeq(y) /\ IsSeq(z)
  BY OneIsSeq
<1>2. w = y \o z
  <2>1. /\ w \in Seq({c, d}) /\ Len(w) = 2 /\ w[1] = c /\ w[2] = d
        /\ y \in Seq({c, d}) /\ Len(y) = 1 /\ y[1] = c
        /\ z \in Seq({c, d}) /\ Len(z) = 1 /\ z[1] = d
    OBVIOUS
  <2> HIDE DEF w, y, z
  <2>2. /\ y \o z \in Seq({c, d}) /\ Len(y \o z) = 2
        /\ \A i \in 1 .. 2 : (y \o z)[i] = IF i <= 1 THEN y[i] ELSE z[i - 1]
    <3>1. /\ y \o z \in Seq({c, d}) /\ Len(y \o z) = Len(y) + Len(z)
          /\ \A i \in 1 .. Len(y) + Len(z) :
               (y \o z)[i] = IF i <= Len(y) THEN y[i] ELSE z[i - Len(y)]
      BY <2>1, ConcatProperties
    <3> QED BY <2>1, <3>1
  <2>3. \A i \in 1 .. 2 : w[i] = (y \o z)[i]
    BY <2>1, <2>2
  <2> QED BY <2>1, <2>2, <2>3, SeqEqual
<1>3. After(s, x) = HandleEvent(s, a)
  BY AfterOne
<1>4. \A r : After(r, y) = HandleEvent(r, c)
  BY AfterOne
<1>5. \A r : After(r, z) = HandleEvent(r, d)
  BY AfterOne
<1> HIDE DEF x, y, z, w
<1>6. IsSeq(y \o z)
  BY <1>1, ConcatIsSeq
<1>7. IsSeq(x \o b)
  BY <1>1, ConcatIsSeq
<1>8. IsSeq((x \o b) \o w)
  BY <1>2, <1>6, <1>7, ConcatIsSeq
<1>9. After(s, (x \o b) \o w) = After(After(s, x \o b), w)
  BY <1>2, <1>6, <1>7, AfterConcat
<1>10. After(s, x \o b) = After(After(s, x), b)
  BY <1>1, AfterConcat
<1>11. \A r : After(r, w) = After(After(r, y), z)
  BY <1>1, <1>2, AfterConcat
<1> QED BY <1>3, <1>4, <1>5, <1>8, <1>9, <1>10, <1>11 DEF x, w

\* All events of a text make the element grow by it.
LEMMA AfterText ==
  ASSUME NEW n, IsNode(n), NEW cs, NEW its, NEW p, Inner(p[1]),
         IsSeq(p[2])
  PROVE  After(At(n, "none", cs, its), TextEvents(p)) = At(Grown(n, p), "none", cs, its)
<1> DEFINE tag == p[1]
           words == p[2]
           s == At(n, "none", cs, its)
           open == HandleEvent(s, Open(tag, ""))
           read == After(open, Cut(words))
<1>1. IsSeq(Cut(words))
  BY CutLen
<1>2. After(s, TextEvents(p)) = HandleEvent(HandleEvent(read, Close(tag)), Chars(<<" ">>))
  <2> DEFINE a == Open(tag, "")
             b == Cut(words)
             c == Close(tag)
             d == Chars(<<" ">>)
  <2>1. TextEvents(p) = <<a>> \o b \o <<c, d>>
    BY DEF TextEvents
  <2>2. IsSeq(b)
    BY <1>1
  <2> HIDE DEF a, b, c, d, s
  <2>3. After(s, <<a>> \o b \o <<c, d>>)
          = HandleEvent(HandleEvent(After(HandleEvent(s, a), b), c), d)
    BY <2>2, AfterThree
  <2> QED BY <2>1, <2>3 DEF a, b, c, d
<1>3. \E t : read = At(Grown(n, p), t, cs, its)
  <2>1. CASE Takes(n, tag)
    <3> DEFINE has1 == IF tag = "res" THEN n.has \cup {"res"} ELSE n.has
               text2 == WithText(n.text, tag, words)
    <3>1. open = At(IF tag = "res" THEN NodeAs(n.is, n.id, n.has \cup {"res"}, n.text) ELSE n,
                    tag, cs, its)
      <4>1. Inner(tag)
        OBVIOUS
      <4>2. open = Opened(n, tag, cs, its)
        <5> HIDE DEF tag
        <5> QED BY <2>1, <4>1, OpenTaken
      <4> QED BY <4>2 DEF Opened
    <3>2. n = NodeAs(n.is, n.id, n.has, n.text) /\ Texts(n.text)
      BY DEF IsNode
    <3>3. open = At(NodeAs(n.is, n.id, has1, n.text), tag, cs, its)
      <4>1. CASE tag = "res"
        BY <3>1, <4>1
      <4>2. CASE tag # "res"
        BY <3>1, <3>2, <4>2
      <4> QED BY <4>1, <4>2
    <3>4. LandsIn(n.is, tag)
      BY <2>1 DEF Takes
    <3>5. read = At(NodeAs(n.is, n.id, HasWith(has1, tag, words), text2), tag, cs, its)
      <4> DEFINE te == n.text
                 i == n.is
                 id == n.id
      <4>1. Texts(te) /\ LandsIn(i, tag) /\ IsSeq(words)
        BY <3>2, <3>4
      <4> HIDE DEF has1, words, tag, te, i, id
      <4>2. After(At(NodeAs(i, id, has1, te), tag, cs, its), Cut(words))
           = At(NodeAs(i, id, HasWith(has1, tag, words), WithText(te, tag, words)), tag, cs, its)
        BY <4>1, AfterCut
      <4> QED BY <3>3, <4>2 DEF te, i, id
    <3>6. HasWith(has1, tag, words)
            = (IF tag = "res" \/ Len(words) # 0 THEN n.has \cup {tag} ELSE n.has)
      BY DEF HasWith
    <3> HIDE DEF has1
    <3>7. Grown(n, p) = NodeAs(n.is, n.id, HasWith(has1, tag, words), text2)
      BY <2>1, <3>6 DEF Grown
    <3> QED BY <3>5, <3>7
  <2>2. CASE ~Takes(n, tag)
    <3>1. PICK t \in ItemTexts \cup {"none"} : ~LandsIn(n.is, t) /\ open = At(n, t, cs, its)
      <4>1. Inner(tag)
        OBVIOUS
      <4>2. Lost(n, open, cs, its)
        <5> HIDE DEF tag
        <5> QED BY <2>2, <4>1, OpenLost
      <4> QED BY <4>2 DEF Lost
    <3>2. n = NodeAs(n.is, n.id, n.has, n.text)
      BY DEF IsNode
    <3>3. read = At(n, t, cs, its)
      <4> DEFINE te == n.text
                 i == n.is
                 id == n.id
                 h == n.has
      <4>1. n = NodeAs(i, id, h, te) /\ ~LandsIn(i, t)
        BY <3>1, <3>2
      <4> HIDE DEF te, i, id, h
      <4>2. After(At(NodeAs(i, id, h, te), t, cs, its), Cut(words))
              = At(NodeAs(i, id, h, te), t, cs, its)
        BY <4>1, AfterCutLost
      <4> QED BY <3>1, <4>1, <4>2
    <3>4. Grown(n, p) = n
      BY <2>2 DEF Grown
    <3> QED BY <3>3, <3>4
  <2> QED BY <2>1, <2>2
<1> HIDE DEF read, s
<1>4. HandleEvent(read, Close(tag)) = At(Grown(n, p), "none", cs, its)
  BY <1>3, CloseText
<1>5. IsNode(Grown(n, p))
  BY GrownIsNode
<1> QED BY <1>2, <1>4, <1>5, BlankLost DEF s

\* An element that a server lists: there is no other within it.
Element(e) ==
  /\ Readable(e)
  /\ e.is \in {"container", "item"}
  /\ \A i \in 1 .. Len(e.texts) : Inner(e.texts[i][1])

\* What each text adds to the one with a tag.
PartsOf(e, tag) ==
  [i \in 1 .. Len(e.texts) |->
    IF /\ e.texts[i][1] = tag
       /\ tag = "res" => \A j \in 1 .. i - 1 : e.texts[j][1] # "res"
    THEN e.texts[i][2] ELSE <<>>]

\* They are sequences, and the text with a tag is all of them.
LEMMA PartsAreSeqs ==
  ASSUME NEW e, Readable(e), NEW tag
  PROVE  /\ SeqOfSeqs(PartsOf(e, tag)) /\ Len(PartsOf(e, tag)) = Len(e.texts)
         /\ Len(e.texts) \in Nat
         /\ TextOf(e, tag) = Joined(PartsOf(e, tag), Len(e.texts))
<1> DEFINE parts == PartsOf(e, tag)
<1>0. Len(e.texts) \in Nat
  BY IsSeqLen DEF Readable
<1>1. parts \in [1 .. Len(e.texts) -> {parts[i] : i \in 1 .. Len(e.texts)}]
  BY DEF PartsOf
<1>2. \A i \in 1 .. Len(e.texts) : IsSeq(parts[i])
  BY EmptyIsSeq DEF PartsOf, Readable
<1>3. TextOf(e, tag) = FlattenSeq(parts)
  BY DEF TextOf, PartsOf
<1> HIDE DEF parts
<1>4. IsSeq(parts) /\ Len(parts) = Len(e.texts)
  BY <1>0, <1>1, FunctionIsSeq
<1>5. SeqOfSeqs(parts)
  BY <1>2, <1>4 DEF SeqOfSeqs
<1> QED BY <1>0, <1>3, <1>4, <1>5, JoinedAll DEF parts

\* The node of an element when its first k texts were read.
TextsUpTo(e, k) ==
  [t \in ItemTexts |-> IF LandsIn(e.is, t) THEN Joined(PartsOf(e, t), k) ELSE <<>>]

\* The texts that were read of the first k,
HasUpTo(e, k) ==
  {t \in ItemTexts : /\ LandsIn(e.is, t)
                     /\ \E i \in 1 .. k : /\ e.texts[i][1] = t
                                          /\ t = "res" \/ Len(e.texts[i][2]) # 0}

\* and the element at that point.
NodeUpTo(e, k) == NodeAs(e.is, e.id, HasUpTo(e, k), TextsUpTo(e, k))

\* It is an element,
LEMMA NodeType ==
  ASSUME NEW e, Element(e), NEW k \in 0 .. Len(e.texts)
  PROVE  IsNode(NodeUpTo(e, k))
<1>1. ASSUME NEW t \in ItemTexts PROVE IsSeq(TextsUpTo(e, k)[t])
  <2>1. IsSeq(Joined(PartsOf(e, t), k))
    BY PartsAreSeqs, JoinedIsSeq DEF Element
  <2> QED BY <2>1, EmptyIsSeq DEF TextsUpTo
<1>2. Texts(TextsUpTo(e, k))
  BY <1>1 DEF Texts, TextsUpTo
<1> QED BY <1>2 DEF IsNode, NodeUpTo, NodeAs, Element

\* An element begins.
Beginning(n, i, d) == [n EXCEPT !.is = i, !.id = d]

\* which begins
LEMMA NodeBegins ==
  ASSUME NEW u, NEW v, NEW h, NEW te, NEW i, NEW d
  PROVE  Beginning(NodeAs(u, v, h, te), i, d) = NodeAs(i, d, h, te)
<1> DEFINE n == NodeAs(u, v, h, te)
<1>1. [n EXCEPT !.is = i] = NodeAs(i, v, h, te)
  BY DEF NodeAs
<1>2. [NodeAs(i, v, h, te) EXCEPT !.id = d] = NodeAs(i, d, h, te)
  BY DEF NodeAs
<1>3. [n EXCEPT !.is = i, !.id = d] = [[n EXCEPT !.is = i] EXCEPT !.id = d]
  OBVIOUS
<1> QED BY <1>1, <1>2, <1>3 DEF Beginning

\* without a text
LEMMA NodeFirst ==
  ASSUME NEW e, Element(e)
  PROVE  NodeUpTo(e, 0) = Beginning(Outside, e.is, e.id)
<1>1. HasUpTo(e, 0) = {}
  BY DEF HasUpTo
<1>2. TextsUpTo(e, 0) = [t \in ItemTexts |-> <<>>]
  BY JoinedNone DEF TextsUpTo
<1>4. Outside = NodeAs("none", "", {}, [t \in ItemTexts |-> <<>>])
  BY DEF Outside, NodeAs
<1> DEFINE te == [t \in ItemTexts |-> <<>>]
           anew == {}
           empty == ""
           is0 == "none"
<1>5. Outside = NodeAs(is0, empty, anew, te)
  BY <1>4
<1>6. NodeUpTo(e, 0) = NodeAs(e.is, e.id, anew, te)
  BY <1>1, <1>2 DEF NodeUpTo
<1> HIDE DEF te, anew, empty, is0
<1>7. Beginning(NodeAs(is0, empty, anew, te), e.is, e.id) = NodeAs(e.is, e.id, anew, te)
  BY NodeBegins
<1> QED BY <1>5, <1>6, <1>7

\* and grows with each.
LEMMA NodeNext ==
  ASSUME NEW e, Element(e), NEW k \in Nat, k < Len(e.texts)
  PROVE  Grown(NodeUpTo(e, k), e.texts[k + 1]) = NodeUpTo(e, k + 1)
<1> DEFINE n == NodeUpTo(e, k)
           p == e.texts[k + 1]
           tag == p[1]
           first == \A j \in 1 .. k : e.texts[j][1] # "res"
<1>0. Len(e.texts) \in Nat /\ k + 1 \in 1 .. Len(e.texts) /\ (k + 1) - 1 = k
      /\ k \in 0 .. Len(e.texts)
  BY PartsAreSeqs DEF Element
<1>1. n.is = e.is /\ n.id = e.id /\ n.has = HasUpTo(e, k) /\ n.text = TextsUpTo(e, k)
  BY DEF NodeUpTo, NodeAs
<1>2. "res" \in ItemTexts
  BY DEF ItemTexts
<1>3. ASSUME LandsIn(e.is, "res") PROVE "res" \notin n.has <=> first
  BY <1>1, <1>2, <1>3 DEF HasUpTo
<1>4. Takes(n, tag) <=> LandsIn(e.is, tag) /\ (tag = "res" => first)
  BY <1>1, <1>3 DEF Takes
<1>5. ASSUME NEW t \in ItemTexts
      PROVE  Joined(PartsOf(e, t), k + 1) =
               IF tag = t /\ (t = "res" => first) THEN Joined(PartsOf(e, t), k) \o p[2]
               ELSE Joined(PartsOf(e, t), k)
  <2>1. PartsOf(e, t)[k + 1] = IF tag = t /\ (t = "res" => first) THEN p[2] ELSE <<>>
    BY <1>0 DEF PartsOf
  <2>2. SeqOfSeqs(PartsOf(e, t)) /\ Len(PartsOf(e, t)) = Len(e.texts)
    BY PartsAreSeqs DEF Element
  <2>3. Joined(PartsOf(e, t), k + 1) = Joined(PartsOf(e, t), k) \o PartsOf(e, t)[k + 1]
    BY <2>2, JoinedNext
  <2>4. IsSeq(Joined(PartsOf(e, t), k))
    BY <1>0, <2>2, JoinedIsSeq
  <2>5. Joined(PartsOf(e, t), k) \o <<>> = Joined(PartsOf(e, t), k)
    BY <2>4, ConcatNone
  <2> QED BY <2>1, <2>3, <2>5
<1>6. 1 .. k + 1 = 1 .. k \cup {k + 1}
  OBVIOUS
<1>7. ASSUME NEW t \in ItemTexts
      PROVE  t \in HasUpTo(e, k + 1) <=>
               \/ t \in HasUpTo(e, k)
               \/ LandsIn(e.is, t) /\ tag = t /\ (t = "res" \/ Len(p[2]) # 0)
  BY <1>6 DEF HasUpTo
<1>8. CASE Takes(n, tag)
  <2>1. LandsIn(e.is, tag) /\ (tag = "res" => first) /\ tag \in ItemTexts
    BY <1>4, <1>8 DEF LandsIn
  <2>2. TextsUpTo(e, k + 1) = WithText(n.text, tag, p[2])
    <3> HIDE DEF first, p
    <3>1. ASSUME NEW t \in ItemTexts
          PROVE  TextsUpTo(e, k + 1)[t] = IF t = tag THEN n.text[tag] \o p[2] ELSE n.text[t]
      BY <1>1, <1>5, <2>1 DEF TextsUpTo
    <3> DEFINE y == n.text[tag] \o p[2]
    <3>2. n.text = [t \in ItemTexts |-> n.text[t]]
      BY <1>1 DEF TextsUpTo
    <3> HIDE DEF y, n, tag
    <3>3. [n.text EXCEPT ![tag] = y] = [t \in ItemTexts |-> IF t = tag THEN y ELSE n.text[t]]
      BY <3>2
    <3>4. TextsUpTo(e, k + 1) = [t \in ItemTexts |-> TextsUpTo(e, k + 1)[t]]
      BY DEF TextsUpTo
    <3>5. TextsUpTo(e, k + 1) = [t \in ItemTexts |-> IF t = tag THEN y ELSE n.text[t]]
      BY <3>1, <3>4 DEF y
    <3> QED BY <3>3, <3>5 DEF WithText, y
  <2>3. HasUpTo(e, k + 1)
          = IF tag = "res" \/ Len(p[2]) # 0 THEN n.has \cup {tag} ELSE n.has
    <3>1. HasUpTo(e, k + 1) \subseteq ItemTexts /\ n.has \subseteq ItemTexts
      BY <1>1 DEF HasUpTo
    <3> HIDE DEF p, n, first
    <3> QED BY <1>1, <1>7, <2>1, <3>1
  <2>4. Grown(n, p) = NodeAs(n.is, n.id, HasUpTo(e, k + 1), TextsUpTo(e, k + 1))
    BY <1>8, <2>2, <2>3 DEF Grown
  <2> QED BY <1>1, <2>4 DEF NodeUpTo
<1>9. CASE ~Takes(n, tag)
  <2>1. ASSUME NEW t \in ItemTexts, LandsIn(e.is, t)
        PROVE  ~(tag = t /\ (t = "res" => first))
    BY <1>4, <1>9, <2>1
  <2>2. TextsUpTo(e, k + 1) = TextsUpTo(e, k)
    <3> HIDE DEF first, p, n, tag
    <3> QED BY <1>5, <2>1 DEF TextsUpTo
  <2>3. HasUpTo(e, k + 1) = HasUpTo(e, k)
    <3>1. HasUpTo(e, k + 1) \subseteq ItemTexts /\ HasUpTo(e, k) \subseteq ItemTexts
      BY DEF HasUpTo
    <3>2. ASSUME NEW t \in ItemTexts, LandsIn(e.is, t), tag = t
          PROVE  t = "res" /\ t \in HasUpTo(e, k)
      <4>1. t = "res" /\ ~first
        BY <2>1, <3>2
      <4> QED BY <1>1, <1>3, <3>2, <4>1
    <3> HIDE DEF p, n, first, tag
    <3> QED BY <1>7, <3>1, <3>2
  <2>4. Grown(n, p) = n
    BY <1>9 DEF Grown
  <2> QED BY <2>2, <2>3, <2>4 DEF NodeUpTo
<1> QED BY <1>8, <1>9

\* To append is to join with one element.
LEMMA AppendJoins ==
  ASSUME NEW s, NEW x, IsSeq(s)
  PROVE  Append(s, x) = s \o <<x>>
<1>1. PICK T : s \in Seq(T)
  BY DEF IsSeq
<1>2. s \in Seq(T \cup {x})
  BY <1>1, SeqMonotonic
<1> DEFINE U == T \cup {x}
<1>3. s \in Seq(U) /\ x \in U
  BY <1>2
<1> HIDE DEF U
<1>4. <<x>> \in Seq(U) /\ Len(<<x>>) = 1 /\ <<x>>[1] = x
  BY <1>3
<1> QED BY <1>3, <1>4, AppendProperties

\* What an element of a listing is read as.
ContainersMade(e) ==
  IF e.is = "container" THEN <<[id |-> e.id, title |-> Trim(TextOf(e, "title"))]>> ELSE <<>>

\* The element when all of its texts were read,
Whole(e) == NodeUpTo(e, Len(e.texts))

\* and the track it gives.
ItemsMade(e) == IF e.is = "item" THEN FinalizeItem(Whole(e)) ELSE <<>>

\* The events of its texts.
TextParts(e) == [i \in 1 .. Len(e.texts) |-> TextEvents(e.texts[i])]

\* They are sequences.
LEMMA TextPartsAreSeqs ==
  ASSUME NEW e, Element(e)
  PROVE  SeqOfSeqs(TextParts(e)) /\ Len(TextParts(e)) = Len(e.texts) /\ Len(e.texts) \in Nat
<1> DEFINE parts == TextParts(e)
<1>0. Len(e.texts) \in Nat
  BY PartsAreSeqs DEF Element
<1>1. parts \in [1 .. Len(e.texts) -> {parts[i] : i \in 1 .. Len(e.texts)}]
  BY DEF TextParts
<1>2. ASSUME NEW p, IsSeq(p[2]) PROVE IsSeq(TextEvents(p))
  <2> DEFINE a == Open(p[1], "")
             b == Cut(p[2])
             c == Close(p[1])
             d == Chars(<<" ">>)
  <2>1. IsSeq(b)
    BY <1>2, CutLen
  <2> HIDE DEF a, b, c, d
  <2>2. IsSeq(<<a>> \o b \o <<c, d>>)
    BY <2>1, AfterThree
  <2> QED BY <2>2 DEF TextEvents, a, b, c, d
<1>3. \A i \in 1 .. Len(e.texts) : IsSeq(parts[i])
  BY <1>2 DEF TextParts, Element, Readable
<1> HIDE DEF parts
<1>4. IsSeq(parts) /\ Len(parts) = Len(e.texts)
  BY <1>0, <1>1, FunctionIsSeq
<1> QED BY <1>0, <1>3, <1>4 DEF SeqOfSeqs, parts

\* The texts of an element, one after the other.
LEMMA AfterTexts ==
  ASSUME NEW e, Element(e), NEW cs, NEW its
  PROVE  After(At(NodeUpTo(e, 0), "none", cs, its), FlattenSeq(TextParts(e)))
           = At(Whole(e), "none", cs, its)
<1> DEFINE N == Len(e.texts)
           parts == TextParts(e)
           s(k) == At(NodeUpTo(e, k), "none", cs, its)
           P(k) == k <= N => After(s(0), Joined(parts, k)) = s(k)
<1>0. SeqOfSeqs(parts) /\ Len(parts) = N /\ N \in Nat
  BY TextPartsAreSeqs
<1>1. P(0)
  BY JoinedNone, AfterNone
<1>2. ASSUME NEW k \in Nat, P(k) PROVE P(k + 1)
  <2> SUFFICES ASSUME k + 1 <= N PROVE After(s(0), Joined(parts, k + 1)) = s(k + 1)
    OBVIOUS
  <2>1. k < N /\ k \in 0 .. N /\ k + 1 \in 1 .. N /\ k < Len(e.texts)
    BY <1>0
  <2>2. Joined(parts, k + 1) = Joined(parts, k) \o parts[k + 1]
    BY <1>0, <2>1, JoinedNext
  <2>3. IsSeq(Joined(parts, k)) /\ IsSeq(parts[k + 1])
    BY <1>0, <2>1, JoinedIsSeq DEF SeqOfSeqs
  <2>4. After(s(0), Joined(parts, k) \o parts[k + 1])
          = After(After(s(0), Joined(parts, k)), parts[k + 1])
    BY <2>3, AfterConcat
  <2>5. After(s(0), Joined(parts, k)) = s(k)
    BY <1>2, <2>1
  <2>6. parts[k + 1] = TextEvents(e.texts[k + 1])
    BY <2>1 DEF TextParts
  <2>7. IsNode(NodeUpTo(e, k))
    BY <2>1, NodeType
  <2>8. Inner(e.texts[k + 1][1]) /\ IsSeq(e.texts[k + 1][2])
    BY <2>1 DEF Element, Readable
  <2>9. After(s(k), TextEvents(e.texts[k + 1]))
          = At(Grown(NodeUpTo(e, k), e.texts[k + 1]), "none", cs, its)
    <3> DEFINE n == NodeUpTo(e, k)
               p == e.texts[k + 1]
    <3>1. IsNode(n) /\ Inner(p[1]) /\ IsSeq(p[2])
      BY <2>7, <2>8
    <3> HIDE DEF n, p
    <3>2. After(At(n, "none", cs, its), TextEvents(p)) = At(Grown(n, p), "none", cs, its)
      BY <3>1, AfterText
    <3> QED BY <3>2 DEF n, p
  <2>10. Grown(NodeUpTo(e, k), e.texts[k + 1]) = NodeUpTo(e, k + 1)
    BY <2>1, NodeNext
  <2> QED BY <2>2, <2>4, <2>5, <2>6, <2>9, <2>10
<1> HIDE DEF P
<1>3. \A k \in Nat : P(k)
  <2> DEFINE G == {k \in Nat : P(k)}
  <2>1. 0 \in G /\ \A k \in Nat : k \in G => k + 1 \in G
    BY <1>1, <1>2
  <2> HIDE DEF G
  <2>2. Nat \subseteq G
    BY <2>1, SetInduction
  <2> QED BY <2>2 DEF G
<1>4. P(N) /\ N <= N
  BY <1>0, <1>3
<1>5. FlattenSeq(parts) = Joined(parts, N)
  <2> HIDE DEF parts, N
  <2>1. Joined(parts, Len(parts)) = FlattenSeq(parts)
    BY <1>0, JoinedAll DEF SeqOfSeqs
  <2> QED BY <1>0, <2>1
<1> QED BY <1>4, <1>5 DEF P, Whole

\* It is what the server holds.
LEMMA WholeIs ==
  ASSUME NEW e, Element(e)
  PROVE  /\ Whole(e).is = e.is /\ Whole(e).id = e.id
         /\ LandsIn(e.is, "title") => Whole(e).text["title"] = TextOf(e, "title")
         /\ e.is = "item" => \A t \in ItemTexts : Whole(e).text[t] = TextOf(e, t)
<1> DEFINE N == Len(e.texts)
<1>1. \A t : TextOf(e, t) = Joined(PartsOf(e, t), N)
  BY PartsAreSeqs DEF Element
<1>2. Whole(e) = NodeAs(e.is, e.id, HasUpTo(e, N), TextsUpTo(e, N))
  BY DEF Whole, NodeUpTo
<1>3. \A t \in ItemTexts : LandsIn(e.is, t) => TextsUpTo(e, N)[t] = TextOf(e, t)
  BY <1>1 DEF TextsUpTo
<1>4. "title" \in ItemTexts
  BY DEF ItemTexts
<1>5. e.is = "item" => \A t \in ItemTexts : LandsIn(e.is, t)
  BY DEF LandsIn
<1> HIDE DEF N
<1> QED BY <1>2, <1>3, <1>4, <1>5 DEF NodeAs

\* An element begins,
LEMMA OpenElement ==
  ASSUME NEW e, Element(e), NEW cs, NEW its
  PROVE  HandleEvent(At(Outside, "none", cs, its), Open(e.is, e.id))
           = At(NodeUpTo(e, 0), "none", cs, its)
<1> DEFINE s == At(Outside, "none", cs, its)
           ev == Open(e.is, e.id)
<1>1. HandleEvent(s, ev) = HandleStart(s, ev) /\ ev.tag = e.is /\ ev.id = e.id
  BY DEF HandleEvent, Open
<1>2. HandleStart(s, ev) = [s EXCEPT !.node = Beginning(Outside, ev.tag, ev.id)]
  <2>1. ev.tag \in {"container", "item"}
    BY <1>1 DEF Element
  <2>2. ev.tag \notin ItemTexts \ {"res"} /\ ev.tag # "res"
    BY <2>1 DEF ItemTexts
  <2> HIDE DEF s, ev
  <2> QED BY <2>1, <2>2 DEF HandleStart, Beginning
<1>3. HandleStart(s, ev) = [s EXCEPT !.node = Beginning(Outside, e.is, e.id)]
  BY <1>1, <1>2
<1> DEFINE n == Beginning(Outside, e.is, e.id)
<1> HIDE DEF n
<1>4. [s EXCEPT !.node = n] = At(n, "none", cs, its)
  BY DEF At
<1>5. n = NodeUpTo(e, 0)
  BY NodeFirst DEF n
<1> QED BY <1>1, <1>3, <1>4, <1>5 DEF n

\* and it ends.
LEMMA CloseElement ==
  ASSUME NEW e, Element(e), NEW cs, NEW its, IsSeq(cs), IsSeq(its)
  PROVE  HandleEvent(At(Whole(e), "none", cs, its), Close(e.is))
           = At(Outside, "none", cs \o ContainersMade(e), its \o ItemsMade(e))
<1> DEFINE n == Whole(e)
           s == At(n, "none", cs, its)
           ev == Close(e.is)
           off == [s EXCEPT !.target = "none"]
           out == Outside
<1>1. HandleEvent(s, ev) = HandleEnd(s, ev) /\ ev.tag = e.is
  BY DEF HandleEvent, Close
<1>2. off = At(n, "none", cs, its)
  BY DEF At
<1>3. s.node = n /\ n.is = e.is /\ n.id = e.id
  BY WholeIs DEF At
<1>4. CASE e.is = "container"
  <2> DEFINE x == [id |-> n.id, title |-> Trim(n.text["title"])]
  <2>1. HandleEnd(s, ev) = [off EXCEPT !.node = out, !.containers = Append(@, x)]
    <3> HIDE DEF n, off, out
    <3> QED BY <1>1, <1>3, <1>4 DEF HandleEnd, out, off
  <2>2. LandsIn(e.is, "title")
    BY <1>4 DEF LandsIn, ItemTexts
  <2>3. n.text["title"] = TextOf(e, "title")
    BY <2>2, WholeIs
  <2>4. ContainersMade(e) = <<x>> /\ ItemsMade(e) = <<>>
    BY <1>3, <1>4, <2>3 DEF ContainersMade, ItemsMade
  <2> HIDE DEF x, n, out, s, off
  <2>5. [off EXCEPT !.node = out, !.containers = Append(@, x)]
          = [[off EXCEPT !.node = out] EXCEPT !.containers = Append(cs, x)]
    BY <1>2 DEF At
  <2>6. [off EXCEPT !.node = out] = At(out, "none", cs, its)
    BY <1>2 DEF At
  <2>7. [At(out, "none", cs, its) EXCEPT !.containers = Append(cs, x)]
          = At(out, "none", Append(cs, x), its)
    BY SMTT(40) DEF At
  <2>8. Append(cs, x) = cs \o <<x>>
    BY AppendJoins
  <2>9. its \o <<>> = its
    BY ConcatNone
  <2> QED BY <1>1, <2>1, <2>4, <2>5, <2>6, <2>7, <2>8, <2>9 DEF out, s, n
<1>5. CASE e.is = "item"
  <2> DEFINE x == FinalizeItem(n)
  <2>1. HandleEnd(s, ev) = [off EXCEPT !.node = out, !.items = @ \o x]
    <3> HIDE DEF n, off, out
    <3> QED BY <1>1, <1>3, <1>5 DEF HandleEnd, out, off
  <2>4. ContainersMade(e) = <<>> /\ ItemsMade(e) = x
    BY <1>5 DEF ContainersMade, ItemsMade
  <2> HIDE DEF x, n, out, s, off
  <2>5. [off EXCEPT !.node = out, !.items = @ \o x]
          = [[off EXCEPT !.node = out] EXCEPT !.items = its \o x]
    BY <1>2 DEF At
  <2>6. [off EXCEPT !.node = out] = At(out, "none", cs, its)
    BY <1>2 DEF At
  <2>7. [At(out, "none", cs, its) EXCEPT !.items = its \o x]
          = At(out, "none", cs, its \o x)
    <3> DEFINE y == its \o x
    <3> HIDE DEF y
    <3>1. [At(out, "none", cs, its) EXCEPT !.items = y] = At(out, "none", cs, y)
      BY DEF At
    <3> QED BY <3>1 DEF y
  <2>9. cs \o <<>> = cs
    BY ConcatNone
  <2> QED BY <1>1, <2>1, <2>4, <2>5, <2>6, <2>7, <2>9 DEF out, s, n
<1> QED BY <1>4, <1>5 DEF Element

\* What the reader makes of an element.
LEMMA AfterElement ==
  ASSUME NEW e, Element(e), NEW cs, NEW its, IsSeq(cs), IsSeq(its)
  PROVE  After(At(Outside, "none", cs, its), Events(e))
           = At(Outside, "none", cs \o ContainersMade(e), its \o ItemsMade(e))
<1> DEFINE s == At(Outside, "none", cs, its)
           a == <<Open(e.is, e.id)>>
           b == <<Chars(<<" ">>)>>
           c == FlattenSeq(TextParts(e))
           d == <<Close(e.is)>>
           two == <<Open(e.is, e.id), Chars(<<" ">>)>>
<1>1. Events(e) = (two \o c) \o d
  BY DEF Events, TextParts, TextEvents
<1>2. IsSeq(a) /\ IsSeq(b) /\ IsSeq(d)
  BY OneIsSeq
<1>3. IsSeq(c)
  <2>1. \A i \in 1 .. Len(TextParts(e)) : IsSeq(TextParts(e)[i])
    BY TextPartsAreSeqs DEF SeqOfSeqs
  <2> QED BY <2>1, TextPartsAreSeqs, FlattenIsSeq DEF SeqOfSeqs
<1>4. two = a \o b
  <2> DEFINE x == Open(e.is, e.id)
             y == Chars(<<" ">>)
             u == <<x>>
             v == <<y>>
             w == <<x, y>>
  <2>1. u \in Seq({x, y}) /\ Len(u) = 1 /\ u[1] = x
    OBVIOUS
  <2>2. v \in Seq({x, y}) /\ Len(v) = 1 /\ v[1] = y
    OBVIOUS
  <2>3. w \in Seq({x, y}) /\ Len(w) = 2 /\ w[1] = x /\ w[2] = y
    <3> HIDE DEF x, y
    <3> QED OBVIOUS
  <2> HIDE DEF u, v, w, x, y
  <2>4. /\ u \o v \in Seq({x, y}) /\ Len(u \o v) = Len(u) + Len(v)
        /\ \A i \in 1 .. Len(u) + Len(v) :
             (u \o v)[i] = IF i <= Len(u) THEN u[i] ELSE v[i - Len(u)]
    BY <2>1, <2>2, ConcatProperties
  <2>5. Len(u \o v) = 2 /\ (u \o v)[1] = x /\ (u \o v)[2] = y
    BY <2>1, <2>2, <2>4
  <2>6. \A i \in 1 .. 2 : (u \o v)[i] = w[i]
    BY <2>3, <2>5
  <2>7. u \o v = w
    BY <2>3, <2>4, <2>5, <2>6, SeqEqual
  <2> QED BY <2>7 DEF u, v, w, x, y
<1>5. After(s, a) = At(NodeUpTo(e, 0), "none", cs, its)
  BY AfterOne, OpenElement
<1>6. After(At(NodeUpTo(e, 0), "none", cs, its), b) = At(NodeUpTo(e, 0), "none", cs, its)
  <2>1. 0 \in 0 .. Len(e.texts)
    BY PartsAreSeqs DEF Element
  <2>2. IsNode(NodeUpTo(e, 0))
    BY <2>1, NodeType
  <2> QED BY <2>2, AfterOne, BlankLost
<1>7. After(At(NodeUpTo(e, 0), "none", cs, its), c) = At(Whole(e), "none", cs, its)
  BY AfterTexts
<1>8. After(At(Whole(e), "none", cs, its), d)
        = At(Outside, "none", cs \o ContainersMade(e), its \o ItemsMade(e))
  BY AfterOne, CloseElement
<1> HIDE DEF s, a, b, c, d, two
<1>9. IsSeq(a \o b)
  BY <1>2, ConcatIsSeq
<1>10. IsSeq((a \o b) \o c)
  BY <1>3, <1>9, ConcatIsSeq
<1>11. After(s, ((a \o b) \o c) \o d) = After(After(s, (a \o b) \o c), d)
  BY <1>2, <1>10, AfterConcat
<1>12. After(s, (a \o b) \o c) = After(After(s, a \o b), c)
  BY <1>3, <1>9, AfterConcat
<1>13. After(s, a \o b) = After(After(s, a), b)
  BY <1>2, AfterConcat
<1> QED BY <1>1, <1>4, <1>5, <1>6, <1>7, <1>8, <1>11, <1>12, <1>13 DEF s

\* The elements of a listing, and what each is read as.
Elements(list) == IsSeq(list) /\ \A i \in 1 .. Len(list) : Element(list[i])

\* What each element of a listing gives: containers,
Contained(list) == [i \in 1 .. Len(list) |-> ContainersMade(list[i])]

\* tracks,
Itemized(list) == [i \in 1 .. Len(list) |-> ItemsMade(list[i])]

\* and events.
EventLists(list) == [i \in 1 .. Len(list) |-> Events(list[i])]

\* A sequence that is made one by one is a sequence.
LEMMA MadeOneByOne ==
  ASSUME NEW n \in Nat, NEW f, f = [i \in 1 .. n |-> f[i]], \A i \in 1 .. n : IsSeq(f[i])
  PROVE  SeqOfSeqs(f) /\ Len(f) = n
<1>1. f \in [1 .. n -> {f[i] : i \in 1 .. n}]
  OBVIOUS
<1>2. IsSeq(f) /\ Len(f) = n
  BY <1>1, FunctionIsSeq
<1> QED BY <1>2 DEF SeqOfSeqs

\* Those of a listing are sequences of sequences.
LEMMA MadeAreSeqs ==
  ASSUME NEW list, Elements(list)
  PROVE  /\ SeqOfSeqs(Contained(list)) /\ Len(Contained(list)) = Len(list)
         /\ SeqOfSeqs(Itemized(list)) /\ Len(Itemized(list)) = Len(list)
         /\ SeqOfSeqs(EventLists(list)) /\ Len(EventLists(list)) = Len(list)
         /\ Len(list) \in Nat
<1>0. Len(list) \in Nat
  BY IsSeqLen DEF Elements
<1>1. \A e : IsSeq(ContainersMade(e)) /\ IsSeq(ItemsMade(e))
  BY EmptyIsSeq, OneIsSeq, FinalizeIsSeq DEF ContainersMade, ItemsMade
<1>2. \A i \in 1 .. Len(list) : IsSeq(Events(list[i]))
  BY EventsIsSeq DEF Elements, Element
<1>3. SeqOfSeqs(Contained(list)) /\ Len(Contained(list)) = Len(list)
  <2> DEFINE f == Contained(list)
  <2>1. f = [i \in 1 .. Len(list) |-> f[i]] /\ \A i \in 1 .. Len(list) : IsSeq(f[i])
    BY <1>1 DEF Contained
  <2> HIDE DEF f
  <2>2. SeqOfSeqs(f) /\ Len(f) = Len(list)
    BY <1>0, <2>1, MadeOneByOne
  <2> QED BY <2>2 DEF f
<1>4. SeqOfSeqs(Itemized(list)) /\ Len(Itemized(list)) = Len(list)
  <2> DEFINE f == Itemized(list)
  <2>1. f = [i \in 1 .. Len(list) |-> f[i]] /\ \A i \in 1 .. Len(list) : IsSeq(f[i])
    BY <1>1 DEF Itemized
  <2> HIDE DEF f
  <2>2. SeqOfSeqs(f) /\ Len(f) = Len(list)
    BY <1>0, <2>1, MadeOneByOne
  <2> QED BY <2>2 DEF f
<1>5. SeqOfSeqs(EventLists(list)) /\ Len(EventLists(list)) = Len(list)
  <2> DEFINE f == EventLists(list)
  <2>1. f = [i \in 1 .. Len(list) |-> f[i]] /\ \A i \in 1 .. Len(list) : IsSeq(f[i])
    BY <1>2 DEF EventLists
  <2> HIDE DEF f
  <2>2. SeqOfSeqs(f) /\ Len(f) = Len(list)
    BY <1>0, <2>1, MadeOneByOne
  <2> QED BY <2>2 DEF f
<1> QED BY <1>0, <1>3, <1>4, <1>5

\* The elements of a page, one after the other.
LEMMA AfterList ==
  ASSUME NEW list, Elements(list)
  PROVE  After(Start, FlattenSeq(EventLists(list)))
           = At(Outside, "none", FlattenSeq(Contained(list)), FlattenSeq(Itemized(list)))
<1> DEFINE N == Len(list)
           evs == EventLists(list)
           cs == Contained(list)
           its == Itemized(list)
           s(m) == At(Outside, "none", Joined(cs, m), Joined(its, m))
           P(m) == m <= N => After(Start, Joined(evs, m)) = s(m)
<1>0. /\ SeqOfSeqs(cs) /\ Len(cs) = N /\ SeqOfSeqs(its) /\ Len(its) = N
      /\ SeqOfSeqs(evs) /\ Len(evs) = N /\ N \in Nat
  BY MadeAreSeqs
<1>1. P(0)
  <2>1. Start = s(0)
    BY JoinedNone DEF Start, At
  <2> QED BY <2>1, JoinedNone, AfterNone
<1>2. ASSUME NEW m \in Nat, P(m) PROVE P(m + 1)
  <2> SUFFICES ASSUME m + 1 <= N PROVE After(Start, Joined(evs, m + 1)) = s(m + 1)
    OBVIOUS
  <2>1. m < N /\ m \in 0 .. N /\ m + 1 \in 1 .. N
    BY <1>0
  <2>2. After(Start, Joined(evs, m)) = s(m)
    BY <1>2, <2>1
  <2>3. /\ evs[m + 1] = Events(list[m + 1])
        /\ cs[m + 1] = ContainersMade(list[m + 1])
        /\ its[m + 1] = ItemsMade(list[m + 1])
    BY <2>1 DEF EventLists, Contained, Itemized
  <2>4. Element(list[m + 1])
    BY <2>1 DEF Elements
  <2> HIDE DEF evs, cs, its, P
  <2>5. /\ Joined(evs, m + 1) = Joined(evs, m) \o evs[m + 1]
        /\ Joined(cs, m + 1) = Joined(cs, m) \o cs[m + 1]
        /\ Joined(its, m + 1) = Joined(its, m) \o its[m + 1]
    BY <1>0, <2>1, JoinedNext
  <2>6. IsSeq(Joined(evs, m)) /\ IsSeq(evs[m + 1]) /\ IsSeq(Joined(cs, m)) /\ IsSeq(Joined(its, m))
    BY <1>0, <2>1, JoinedIsSeq DEF SeqOfSeqs
  <2>7. After(Start, Joined(evs, m) \o evs[m + 1]) = After(s(m), evs[m + 1])
    BY <2>2, <2>6, AfterConcat
  <2>8. After(s(m), Events(list[m + 1]))
          = At(Outside, "none", Joined(cs, m) \o ContainersMade(list[m + 1]),
               Joined(its, m) \o ItemsMade(list[m + 1]))
    BY <2>4, <2>6, AfterElement
  <2> QED BY <2>3, <2>5, <2>7, <2>8
<1> HIDE DEF P
<1>3. \A m \in Nat : P(m)
  <2> DEFINE G == {m \in Nat : P(m)}
  <2>1. 0 \in G /\ \A m \in Nat : m \in G => m + 1 \in G
    BY <1>1, <1>2
  <2> HIDE DEF G
  <2>2. Nat \subseteq G
    BY <2>1, SetInduction
  <2> QED BY <2>2 DEF G
<1>4. P(N) /\ N <= N
  BY <1>0, <1>3
<1>5. /\ FlattenSeq(evs) = Joined(evs, N) /\ FlattenSeq(cs) = Joined(cs, N)
      /\ FlattenSeq(its) = Joined(its, N)
  <2> HIDE DEF evs, cs, its, N
  <2>1. /\ FlattenSeq(evs) = Joined(evs, Len(evs)) /\ FlattenSeq(cs) = Joined(cs, Len(cs))
        /\ FlattenSeq(its) = Joined(its, Len(its))
    BY <1>0, JoinedAll DEF SeqOfSeqs
  <2> QED BY <1>0, <2>1
<1> QED BY <1>4, <1>5 DEF P

\* The parser returns the containers and the tracks of all elements, in their
\* order, with their texts put together from the pieces they came in.
THEOREM DidlIsRead ==
  ASSUME NEW list, Elements(list)
  PROVE  LET read == ParseDidlLite(FlattenSeq(EventLists(list)))
         IN  /\ read.containers = FlattenSeq(Contained(list))
             /\ read.items = FlattenSeq(Itemized(list))
BY AfterList, ParseIsLast DEF At

\* What a page adds to the ones before it.
PageEvents(list, k, n) == [i \in 1 .. n |-> Events(list[k + i])]

\* What is read of a page follows what was read before it.
LEMMA PageRead ==
  ASSUME NEW list, Elements(list), NEW k \in Nat, NEW n \in Nat, k + n <= Len(list),
         NEW read, read = ParseDidlLite(FlattenSeq(PageEvents(list, k, n)))
  PROVE  /\ Joined(Contained(list), k) \o read.containers = Joined(Contained(list), k + n)
         /\ Joined(Itemized(list), k) \o read.items = Joined(Itemized(list), k + n)
<1> DEFINE more == [i \in 1 .. n |-> list[k + i]]
           didl == PageEvents(list, k, n)
<1>0. Len(list) \in Nat
  BY MadeAreSeqs
<1>1. \A i \in 1 .. n : k + i \in 1 .. Len(list)
  BY <1>0
<1>2. IsSeq(more) /\ Len(more) = n /\ \A i \in 1 .. n : more[i] = list[k + i]
  <2>1. more \in [1 .. n -> {more[i] : i \in 1 .. n}]
    OBVIOUS
  <2>2. IsSeq(more) /\ Len(more) = n
    <3> HIDE DEF more
    <3> QED BY <2>1, FunctionIsSeq
  <2> QED BY <2>2
<1>3. Elements(more)
  BY <1>1, <1>2 DEF Elements
<1>4. didl = EventLists(more)
  BY <1>2 DEF EventLists, PageEvents
<1>5. Contained(more) = [i \in 1 .. n |-> Contained(list)[k + i]]
  BY <1>1, <1>2 DEF Contained
<1>6. Itemized(more) = [i \in 1 .. n |-> Itemized(list)[k + i]]
  BY <1>1, <1>2 DEF Itemized
<1> HIDE DEF more
<1>7. read = At(Outside, "none", FlattenSeq(Contained(more)), FlattenSeq(Itemized(more)))
  <2>1. read = After(Start, FlattenSeq(EventLists(more)))
    BY <1>4, ParseIsLast
  <2> QED BY <1>3, <2>1, AfterList
<1>8. read.containers = FlattenSeq(Contained(more)) /\ read.items = FlattenSeq(Itemized(more))
  BY <1>7 DEF At
<1> DEFINE cs == Contained(list)
           its == Itemized(list)
           csm == Contained(more)
           itm == Itemized(more)
<1>9. SeqOfSeqs(cs) /\ SeqOfSeqs(its) /\ k + n <= Len(cs) /\ k + n <= Len(its)
  BY MadeAreSeqs
<1>10. csm = Window(cs, k, n) /\ itm = Window(its, k, n)
  BY <1>5, <1>6 DEF Window
<1> HIDE DEF cs, its, csm, itm
<1>11. Joined(cs, k + n) = Joined(cs, k) \o FlattenSeq(csm)
  BY <1>9, <1>10, JoinedSplit
<1>12. Joined(its, k + n) = Joined(its, k) \o FlattenSeq(itm)
  BY <1>9, <1>10, JoinedSplit
<1> QED BY <1>8, <1>11, <1>12 DEF cs, its, csm, itm

(***************************************************************************)
(* What an item becomes                                                    *)
(***************************************************************************)
\* A track made from an element: its texts are whole.
MadeFrom(x, e) ==
  /\ IsAudio(e) /\ e.id = x.song
  /\ \A tag \in ItemTexts \cap DOMAIN x.texts :
       x.texts[tag] = IF tag = "res" THEN TextOf(e, tag) ELSE Trim(TextOf(e, tag))

\* A track with the texts that it keeps.
TrackAs(n, kept, num, year) ==
  [song |-> n.id,
   texts |-> [t \in kept |-> CASE t = "trackNumber" -> num
                               [] t = "year" -> year
                               [] t = "res" -> n.text[t]
                               [] OTHER -> Trim(n.text[t])]]

\* An audio item gives one track, with its texts whole; others give none.
LEMMA ItemMade ==
  ASSUME NEW e, Element(e)
  PROVE  /\ IsAudio(e) => \E x : ItemsMade(e) = <<x>> /\ MadeFrom(x, e)
         /\ ~IsAudio(e) => ItemsMade(e) = <<>>
<1> DEFINE n == Whole(e)
           N == Len(e.texts)
<1>1. n.is = e.is /\ n.id = e.id /\ n.has = HasUpTo(e, N)
  BY DEF Whole, NodeUpTo, NodeAs
<1>2. CASE e.is # "item"
  BY <1>2 DEF IsAudio, ItemsMade
<1>3. CASE e.is = "item"
  <2>1. \A t \in ItemTexts : n.text[t] = TextOf(e, t)
    BY <1>3, WholeIs
  <2>2. "res" \in n.has <=> Has(e, "res")
    BY <1>1, <1>3 DEF HasUpTo, Has, LandsIn, ItemTexts
  <2>3. "class" \in ItemTexts /\ "res" \in ItemTexts
    BY DEF ItemTexts
  <2>4. IsAudio(e) <=> /\ Contains(n.text["class"], "audioItem")
                       /\ "res" \in n.has /\ Resolves(n.text["res"])
    BY <1>3, <2>1, <2>2, <2>3 DEF IsAudio
  <2>5. ItemsMade(e) = FinalizeItem(n)
    BY <1>3 DEF ItemsMade
  <2> HIDE DEF n
  <2>6. CASE ~IsAudio(e)
    <3>1. FinalizeItem(n) = <<>>
      BY <2>4, <2>6 DEF FinalizeItem
    <3> QED BY <2>5, <2>6, <3>1
  <2>7. CASE IsAudio(e)
    <3>1. \E kept, num, year :
            FinalizeItem(n) = <<TrackAs(n, kept, num, year)>>
      <4> DEFINE num == Trim(n.text["originalTrackNumber"])
                 date == n.text["date"]
                 year == IF Len(date) < 4 THEN <<>> ELSE SubSeq(date, 1, 4)
                 numeric(text) == text # <<>> /\ ToSet(text) \subseteq Digit
                 art == Trim(n.text["albumArtURI"])
                 kept == ({"artist", "album", "albumArtist", "genre"} \cap n.has)
                           \cup {"title", "res"}
                           \cup {t \in {"trackNumber"} : numeric(num)}
                           \cup {t \in {"albumArtURI"} \cap n.has : Resolves(art)}
                           \cup {t \in {"year"} : numeric(year)}
                 made == <<TrackAs(n, kept, num, year)>>
                 take == /\ Contains(n.text["class"], "audioItem")
                         /\ "res" \in n.has
                         /\ Resolves(n.text["res"])
      <4>1. FinalizeItem(n) = IF take THEN made ELSE <<>>
        BY DEF FinalizeItem, TrackAs
      <4>2. take
        BY <2>4, <2>7
      <4> HIDE DEF take, kept, num, year
      <4>3. FinalizeItem(n) = made
        BY <4>1, <4>2
      <4> QED BY <4>3
    <3>2. PICK kept, num, year :
            FinalizeItem(n) = <<TrackAs(n, kept, num, year)>>
      BY <3>1
    <3> DEFINE tx == [t \in kept |-> CASE t = "trackNumber" -> num
                                          [] t = "year" -> year
                                          [] t = "res" -> n.text[t]
                                          [] OTHER -> Trim(n.text[t])]
               x == TrackAs(n, kept, num, year)
    <3>3. ASSUME NEW tag \in ItemTexts \cap DOMAIN tx
          PROVE  tx[tag] = IF tag = "res" THEN TextOf(e, tag) ELSE Trim(TextOf(e, tag))
      <4>1. tag # "trackNumber" /\ tag # "year" /\ tag \in kept
        BY DEF ItemTexts
      <4>2. n.text[tag] = TextOf(e, tag)
        BY <2>1
      <4>3. tx[tag] = IF tag = "res" THEN n.text[tag] ELSE Trim(n.text[tag])
        BY <4>1
      <4> QED BY <4>2, <4>3
    <3>4. x.song = e.id /\ x.texts = tx
      BY <1>1 DEF TrackAs
    <3> HIDE DEF tx
    <3>5. MadeFrom(x, e)
      BY <2>7, <3>3, <3>4 DEF MadeFrom
    <3> QED BY <2>5, <2>7, <3>2, <3>5
  <2> QED BY <2>6, <2>7
<1> QED BY <1>2, <1>3

(***************************************************************************)
(* The containers at each depth                                            *)
(***************************************************************************)
\* The recursion of Level, as a relation.
Levels(f, N, s, root) ==
  f = [d \in 0 .. N |->
         IF d = 0 THEN {root} ELSE UNION {ChildrenOf(s, root, c, d - 1) : c \in f[d - 1]}]

\* There is such a function for every depth,
LEMMA LevelsExist ==
  ASSUME NEW s, NEW root, NEW N \in Nat
  PROVE  \E f : Levels(f, N, s, root)
<1> DEFINE G == {m \in Nat : \E f : Levels(f, m, s, root)}
<1>1. 0 \in G
  <2>1. Levels([i \in 0 .. 0 |-> {root}], 0, s, root)
    BY DEF Levels
  <2> QED BY <2>1
<1>2. ASSUME NEW m \in Nat, m \in G PROVE m + 1 \in G
  <2>1. PICK f : Levels(f, m, s, root)
    BY <1>2
  <2> DEFINE next(r, i) == UNION {ChildrenOf(s, root, c, i - 1) : c \in r}
  <2>2. \A i \in 0 .. m : f[i] = IF i = 0 THEN {root} ELSE next(f[i - 1], i)
    BY <2>1 DEF Levels
  <2> HIDE DEF next
  <2> DEFINE h == [i \in 0 .. m + 1 |->
               IF i <= m THEN f[i] ELSE IF i = 0 THEN {root} ELSE next(f[i - 1], i)]
  <2>3. \A i \in 0 .. m : h[i] = f[i]
    OBVIOUS
  <2>4. ASSUME NEW i \in 0 .. m + 1
        PROVE  h[i] = IF i = 0 THEN {root} ELSE next(h[i - 1], i)
    <3>1. CASE i = 0
      BY <2>2, <2>3, <3>1
    <3>2. CASE i # 0
      <4>1. i - 1 \in 0 .. m /\ h[i - 1] = f[i - 1]
        BY <2>3, <3>2
      <4>2. CASE i \in 0 .. m
        BY <2>2, <2>3, <3>2, <4>1, <4>2
      <4>3. CASE i = m + 1
        <5>1. h[i] = next(f[i - 1], i)
          BY <3>2, <4>3
        <5> QED BY <3>2, <4>1, <5>1
      <4> QED BY <4>2, <4>3
    <3> QED BY <3>1, <3>2
  <2>5. h = [i \in 0 .. m + 1 |-> IF i = 0 THEN {root} ELSE next(h[i - 1], i)]
    BY <2>4
  <2> HIDE DEF h
  <2>6. Levels(h, m + 1, s, root)
    BY <2>5 DEF Levels, next
  <2> QED BY <2>6
<1> QED BY <1>1, <1>2, SetInduction

\* which Level is:
LEMMA LevelLevels ==
  ASSUME NEW s, NEW root
  PROVE  Levels(Level(s, root), MaxDepth, s, root)
<1>1. MaxDepth \in Nat
  BY DlnaAssumption
<1>2. Level(s, root) = CHOOSE f : Levels(f, MaxDepth, s, root)
  BY DEF Level, Levels
<1> QED BY <1>1, <1>2, LevelsExist

\* the root first,
LEMMA LevelFirst ==
  ASSUME NEW s, NEW root
  PROVE  root \in Level(s, root)[0]
<1>1. MaxDepth \in Nat
  BY DlnaAssumption
<1> QED BY <1>1, LevelLevels DEF Levels

\* then what the level before it holds.
LEMMA LevelNext ==
  ASSUME NEW s, NEW root, NEW d \in Nat, d + 1 <= MaxDepth, NEW x
  PROVE  x \in Level(s, root)[d + 1] <=>
           \E c \in Level(s, root)[d] : x \in ChildrenOf(s, root, c, d)
<1>1. MaxDepth \in Nat
  BY DlnaAssumption
<1>2. d + 1 \in 0 .. MaxDepth /\ d + 1 # 0 /\ (d + 1) - 1 = d
  BY <1>1
<1> DEFINE f == Level(s, root)
<1>3. Levels(f, MaxDepth, s, root)
  BY LevelLevels
<1> HIDE DEF f
<1>4. f[d + 1] = UNION {ChildrenOf(s, root, c, (d + 1) - 1) : c \in f[(d + 1) - 1]}
  BY <1>2, <1>3 DEF Levels
<1>5. f[d + 1] = UNION {ChildrenOf(s, root, c, d) : c \in f[d]}
  BY <1>2, <1>4
<1> QED BY <1>5 DEF f

\* What is on a level is reached.
LEMMA LevelReached ==
  ASSUME NEW s, NEW root, NEW d \in 0 .. MaxDepth, NEW c \in Level(s, root)[d]
  PROVE  c \in Reached(s, root)
BY DEF Reached

(***************************************************************************)
(* What has been seen of a server                                          *)
(***************************************************************************)
\* The songs of some tracks.
SongsOfItems(items) == {t.song : t \in ToSet(items)}

\* The songs of a container.
AudioOf(s, c) == {e.id : e \in {x \in ToSet(ListedIn(s, c)) : IsAudio(x)}}

\* The places V, of a container and a depth, were seen, and what they hold is
\* in the catalogue, seen or waiting.
Closed(V, s, root, songs, waiting) ==
  /\ <<root, 0>> \in V \cup waiting
  /\ \A p \in V : p = <<p[1], p[2]>> /\ p[2] \in 0 .. MaxDepth
  /\ \A p \in V : AudioOf(s, p[1]) \subseteq songs
  /\ \A p \in V : p[2] + 1 <= MaxDepth =>
       \A c \in ChildrenOf(s, root, p[1], p[2]) : <<c, p[2] + 1>> \in V \cup waiting

\* When nothing waits, everything was seen.
LEMMA ClosedIsAll ==
  ASSUME NEW V, NEW s, NEW root, NEW songs, Closed(V, s, root, songs, {})
  PROVE  DlnaSongs(s, root) \subseteq songs
<1>1. MaxDepth \in Nat
  BY DlnaAssumption
<1> DEFINE P(d) == d <= MaxDepth => \A c \in Level(s, root)[d] : <<c, d>> \in V
<1>2. P(0)
  <2>1. Level(s, root)[0] = {root}
    BY <1>1, LevelLevels DEF Levels
  <2> QED BY <2>1 DEF Closed
<1>3. ASSUME NEW d \in Nat, P(d) PROVE P(d + 1)
  <2> SUFFICES ASSUME d + 1 <= MaxDepth, NEW x \in Level(s, root)[d + 1]
               PROVE  <<x, d + 1>> \in V
    OBVIOUS
  <2>1. PICK c \in Level(s, root)[d] : x \in ChildrenOf(s, root, c, d)
    BY LevelNext
  <2>2. <<c, d>> \in V
    BY <1>1, <1>3
  <2> DEFINE p == <<c, d>>
  <2>3. p \in V /\ p[1] = c /\ p[2] = d
    BY <2>2
  <2> HIDE DEF p, P
  <2> QED BY <2>1, <2>3 DEF Closed
<1> HIDE DEF P
<1>4. \A d \in Nat : P(d)
  <2> DEFINE G == {d \in Nat : P(d)}
  <2>1. 0 \in G /\ \A d \in Nat : d \in G => d + 1 \in G
    BY <1>2, <1>3
  <2> HIDE DEF G
  <2>2. Nat \subseteq G
    BY <2>1, SetInduction
  <2> QED BY <2>2 DEF G
<1>5. ASSUME NEW d \in 0 .. MaxDepth, NEW c \in Level(s, root)[d]
      PROVE  AudioOf(s, c) \subseteq songs
  <2>1. <<c, d>> \in V
    BY <1>1, <1>4 DEF P
  <2> QED BY <2>1 DEF Closed
<1>6. \A c \in Reached(s, root) : AudioOf(s, c) \subseteq songs
  BY <1>5 DEF Reached
<1> QED BY <1>6 DEF DlnaSongs, AudioOf

\* The listings of a server can be read.
LEMMA ListingElements ==
  ASSUME NEW s \in Servers, NEW c \in Containers(s)
  PROVE  Elements(Holds[s][c])
<1> DEFINE list == Holds[s][c]
<1>1. /\ list \in Seq(ToSet(list))
      /\ \A e \in ToSet(list) :
            /\ e.is \in {"container", "item"}
            /\ e.texts \in Seq(ToSet(e.texts))
            /\ \A p \in ToSet(e.texts) : /\ p[1] \notin {"container", "item"}
                                          /\ p[2] \in Seq(ToSet(p[2]))
  BY DlnaAssumption
<1> HIDE DEF list
<1>2. IsSeq(list)
  BY <1>1 DEF IsSeq
<1>3. ASSUME NEW i \in 1 .. Len(list) PROVE Element(list[i])
  <2> DEFINE e == list[i]
  <2>1. e \in ToSet(list)
    BY DEF ToSet
  <2>2. /\ e.is \in {"container", "item"} /\ e.texts \in Seq(ToSet(e.texts))
        /\ \A p \in ToSet(e.texts) : /\ p[1] \notin {"container", "item"}
                                     /\ p[2] \in Seq(ToSet(p[2]))
    BY <1>1, <2>1
  <2> HIDE DEF e
  <2>3. \A j \in 1 .. Len(e.texts) : e.texts[j] \in ToSet(e.texts)
    BY <2>2 DEF ToSet
  <2>4. \A j \in 1 .. Len(e.texts) : Inner(e.texts[j][1])
    BY <2>2, <2>3 DEF Inner
  <2>5. ASSUME NEW j \in 1 .. Len(e.texts) PROVE IsSeq(e.texts[j][2])
    <3> DEFINE q == e.texts[j][2]
    <3>1. q \in Seq(ToSet(q))
      BY <2>2, <2>3
    <3> HIDE DEF q
    <3>2. IsSeq(q)
      BY <3>1 DEF IsSeq
    <3> QED BY <3>2 DEF q
  <2>6. IsSeq(e.texts)
    BY <2>2 DEF IsSeq
  <2> QED BY <2>2, <2>4, <2>5, <2>6 DEF Element, Readable, e
<1> QED BY <1>2, <1>3 DEF Elements, list

\* The items of a listing, and the containers.
LEMMA ItemsOfListing ==
  ASSUME NEW list, Elements(list), NEW m \in 0 .. Len(list), NEW x
  PROVE  x \in ToSet(Joined(Itemized(list), m)) =>
           \E e \in ToSet(list) : MadeFrom(x, e)
<1>1. SUFFICES ASSUME x \in ToSet(Joined(Itemized(list), m))
               PROVE  \E e \in ToSet(list) : MadeFrom(x, e)
  OBVIOUS
<1> DEFINE its == Itemized(list)
<1>2. SeqOfSeqs(its) /\ m \in 0 .. Len(its) /\ Len(list) \in Nat
  BY MadeAreSeqs
<1>3. ToSet(Joined(its, m)) = UNION {ToSet(its[i]) : i \in 1 .. m}
  <2> HIDE DEF its
  <2> QED BY <1>2, JoinedElements
<1>4. PICK i \in 1 .. m : x \in ToSet(its[i])
  BY <1>1, <1>3
<1>5. i \in 1 .. Len(list) /\ its[i] = ItemsMade(list[i])
  BY <1>2 DEF Itemized
<1>6. Element(list[i])
  BY <1>5 DEF Elements
<1>7. ToSet(<<>>) = {}
  BY DEF ToSet
<1>8. IsAudio(list[i])
  BY <1>4, <1>5, <1>6, <1>7, ItemMade
<1>9. PICK y : ItemsMade(list[i]) = <<y>> /\ MadeFrom(y, list[i])
  BY <1>6, <1>8, ItemMade
<1>10. x = y
  BY <1>4, <1>5, <1>9 DEF ToSet
<1>11. list[i] \in ToSet(list)
  BY <1>5 DEF ToSet
<1> QED BY <1>9, <1>10, <1>11

\* No audio item of a listing is lost,
LEMMA AllItemsOfListing ==
  ASSUME NEW list, Elements(list), NEW e \in ToSet(list), IsAudio(e)
  PROVE  \E x \in ToSet(Joined(Itemized(list), Len(list))) : x.song = e.id
<1> DEFINE its == Itemized(list)
           m == Len(list)
<1>1. PICK i \in 1 .. m : e = list[i]
  BY IsSeqDef DEF ToSet, Elements
<1>2. SeqOfSeqs(its) /\ m \in 0 .. Len(its) /\ m \in Nat
  BY MadeAreSeqs
<1>3. ToSet(Joined(its, m)) = UNION {ToSet(its[j]) : j \in 1 .. m}
  <2> HIDE DEF its, m
  <2> QED BY <1>2, JoinedElements
<1>4. its[i] = ItemsMade(e)
  BY <1>1 DEF Itemized
<1>5. Element(e)
  BY <1>1 DEF Elements
<1>6. PICK y : ItemsMade(e) = <<y>> /\ MadeFrom(y, e)
  BY <1>5, ItemMade
<1>7. y \in ToSet(its[i])
  BY <1>4, <1>6 DEF ToSet
<1> QED BY <1>3, <1>6, <1>7 DEF MadeFrom

\* and its containers are those that are read.
LEMMA ContainersOfListing ==
  ASSUME NEW list, Elements(list), NEW m \in 0 .. Len(list), NEW x
  PROVE  x \in ToSet(Joined(Contained(list), m)) <=>
           \E i \in 1 .. m : /\ list[i].is = "container"
                             /\ x = [id |-> list[i].id, title |-> Trim(TextOf(list[i], "title"))]
<1> DEFINE cs == Contained(list)
<1>1. SeqOfSeqs(cs) /\ m \in 0 .. Len(cs) /\ Len(list) \in Nat
  BY MadeAreSeqs
<1>2. ToSet(Joined(cs, m)) = UNION {ToSet(cs[i]) : i \in 1 .. m}
  <2> HIDE DEF cs
  <2> QED BY <1>1, JoinedElements
<1>3. \A y : ToSet(<<y>>) = {y}
  BY DEF ToSet
<1>4. ToSet(<<>>) = {}
  BY DEF ToSet
<1>5. ASSUME NEW i \in 1 .. m
      PROVE  x \in ToSet(cs[i]) <=>
               /\ list[i].is = "container"
               /\ x = [id |-> list[i].id, title |-> Trim(TextOf(list[i], "title"))]
  <2>1. i \in 1 .. Len(list) /\ cs[i] = ContainersMade(list[i])
    BY <1>1 DEF Contained
  <2> QED BY <1>3, <1>4, <2>1 DEF ContainersMade
<1> QED BY <1>2, <1>5

\* The elements of a sequence that are in a set.
KeptIn(s, keep) ==
  FlattenSeq([i \in 1 .. Len(s) |-> IF s[i] \in keep THEN <<s[i]>> ELSE <<>>])

\* It is made of sequences of one element or none,
LEMMA KeptInParts ==
  ASSUME NEW s, IsSeq(s), NEW keep
  PROVE  LET parts == [i \in 1 .. Len(s) |-> IF s[i] \in keep THEN <<s[i]>> ELSE <<>>]
         IN  SeqOfSeqs(parts) /\ Len(parts) = Len(s)
<1> DEFINE parts == [i \in 1 .. Len(s) |-> IF s[i] \in keep THEN <<s[i]>> ELSE <<>>]
<1>0. Len(s) \in Nat
  BY IsSeqLen
<1>1. \A i \in 1 .. Len(s) : IsSeq(parts[i])
  BY EmptyIsSeq, OneIsSeq
<1>2. parts = [i \in 1 .. Len(s) |-> parts[i]]
  OBVIOUS
<1> HIDE DEF parts
<1>3. SeqOfSeqs(parts) /\ Len(parts) = Len(s)
  BY <1>0, <1>1, <1>2, MadeOneByOne
<1> QED BY <1>3 DEF parts

\* and has the elements that are in both.
LEMMA KeptInIs ==
  ASSUME NEW s, IsSeq(s), NEW keep
  PROVE  IsSeq(KeptIn(s, keep)) /\ ToSet(KeptIn(s, keep)) = ToSet(s) \cap keep
<1> DEFINE parts == [i \in 1 .. Len(s) |-> IF s[i] \in keep THEN <<s[i]>> ELSE <<>>]
           N == Len(s)
<1>0. N \in Nat
  BY IsSeqLen
<1>1. SeqOfSeqs(parts) /\ Len(parts) = N
  BY KeptInParts
<1>2. KeptIn(s, keep) = FlattenSeq(parts)
  BY DEF KeptIn
<1>3. FlattenSeq(parts) = Joined(parts, N)
  <2> HIDE DEF parts, N
  <2>1. FlattenSeq(parts) = Joined(parts, Len(parts))
    BY <1>1, JoinedAll DEF SeqOfSeqs
  <2> QED BY <1>1, <2>1
<1>4. N \in 0 .. Len(parts)
  BY <1>0, <1>1
<1>5. IsSeq(Joined(parts, N)) /\ ToSet(Joined(parts, N)) = UNION {ToSet(parts[i]) : i \in 1 .. N}
  <2> HIDE DEF parts, N
  <2> QED BY <1>1, <1>4, JoinedElements, JoinedIsSeq
<1>6. \A i \in 1 .. N : ToSet(parts[i]) = {s[i]} \cap keep
  BY DEF ToSet
<1>7. ToSet(s) = {s[i] : i \in 1 .. N}
  BY IsSeqDef DEF ToSet
<1> HIDE DEF parts, N
<1>8. UNION {ToSet(parts[i]) : i \in 1 .. N} = ToSet(s) \cap keep
  BY <1>6, <1>7
<1> QED BY <1>2, <1>3, <1>5, <1>8

\* What is in one of two sequences that are joined.
LEMMA NumberedElements ==
  ASSUME NEW items, IsSeq(items), NEW first, NEW t
  PROVE  t \in ToSet(NumberedFrom(items, first)) =>
           \E x \in ToSet(items) : t.song = x.song /\ t.texts = x.texts
<1>0. Len(items) \in Nat
  BY IsSeqLen
<1> DEFINE f == NumberedFrom(items, first)
<1>1. IsSeq(f) /\ Len(f) = Len(items)
  BY <1>0, NumberedFromType
<1>2. \A i \in 1 .. Len(items) : f[i].song = items[i].song /\ f[i].texts = items[i].texts
  BY DEF NumberedFrom
<1>3. \A i \in 1 .. Len(items) : items[i] \in ToSet(items)
  BY DEF ToSet
<1> HIDE DEF f
<1> SUFFICES ASSUME t \in ToSet(f)
             PROVE  \E x \in ToSet(items) : t.song = x.song /\ t.texts = x.texts
  BY DEF f
<1>4. PICK i \in 1 .. Len(f) : t = f[i]
  BY <1>1, IsSeqDef DEF ToSet
<1> QED BY <1>1, <1>2, <1>3, <1>4

\* Numbers do not change the songs,
LEMMA NumberedSongs ==
  ASSUME NEW items, IsSeq(items), NEW first
  PROVE  SongsOfItems(NumberedFrom(items, first)) = SongsOfItems(items)
<1>0. Len(items) \in Nat
  BY IsSeqLen
<1> DEFINE f == NumberedFrom(items, first)
<1>1. IsSeq(f) /\ Len(f) = Len(items)
  BY <1>0, NumberedFromType
<1>2. \A i \in 1 .. Len(items) : f[i].song = items[i].song
  BY DEF NumberedFrom
<1> HIDE DEF f
<1>3. ToSet(f) = {f[i] : i \in 1 .. Len(items)} /\ ToSet(items) = {items[i] : i \in 1 .. Len(items)}
  BY <1>1, IsSeqDef DEF ToSet
<1>4. SongsOfItems(f) = {f[i].song : i \in 1 .. Len(items)}
  BY <1>3 DEF SongsOfItems
<1>5. SongsOfItems(items) = {items[i].song : i \in 1 .. Len(items)}
  BY <1>3 DEF SongsOfItems
<1> QED BY <1>2, <1>4, <1>5 DEF f

\* and catalogues that are joined have the songs of both.
LEMMA JoinedSongs ==
  ASSUME NEW a, NEW b, IsSeq(a), IsSeq(b)
  PROVE  SongsOfItems(a \o b) = SongsOfItems(a) \cup SongsOfItems(b)
<1>1. ToSet(a \o b) = ToSet(a) \cup ToSet(b)
  BY ConcatElements
<1> QED BY <1>1 DEF SongsOfItems

-----------------------------------------------------------------------------
\* What the pages brought is what the listing has up to StartingIndex.
Browsed == Holds[server][at.id]

\* That is what was read, and between containers nothing.
ReadInv ==
  /\ pc # "page" => found = NoneFound /\ start = 0
  /\ pc = "page" /\ at.id \in Containers(server) =>
       /\ start <= Len(Browsed)
       /\ found.containers = Joined(Contained(Browsed), start)
       /\ found.items = Joined(Itemized(Browsed), start)

\* What the first m elements of the listing are read as.
ReadOf(list, m) ==
  [containers |-> Joined(Contained(list), m), items |-> Joined(Itemized(list), m)]

\* The listing ends with its first m elements read,
LastStep(m) ==
  /\ Assemble(ReadOf(Browsed, m))
  /\ missed' = IF m < Len(Browsed) THEN missed \cup {at.id} ELSE missed
  /\ pc' = "next" /\ LeaveEntry

\* or goes on from there.
MoreStep(m) ==
  /\ found' = ReadOf(Browsed, m) /\ start' = m
  /\ UNCHANGED <<pc, cat, missed, at, queue>>

\* A page ends the listing or is followed by another, and then the elements it
\* brought were counted.
PageTaken(page, whole) ==
  \/ /\ Assemble(whole)
     /\ missed' = IF start + page.count < Listed THEN missed \cup {at.id} ELSE missed
     /\ pc' = "next" /\ LeaveEntry
  \/ /\ found' = whole
     /\ start' = start + page.count
     /\ UNCHANGED <<pc, cat, missed, at, queue>>

\* Every page does one of the two.
LEMMA PageForm ==
  ASSUME PageArrives, ReadInv, ServerInv, FoundInv
  PROVE  /\ UNCHANGED <<args, server, disk>>
         /\ at.id \in Containers(server) /\ server \in Servers
         /\ \E m \in 0 .. Len(Browsed) : LastStep(m) \/ MoreStep(m)
<1> DEFINE list == Browsed
           didl(n) == [i \in 1 .. n |-> Events(list[start + i])]
<1>0. pc = "page" /\ server \in Servers /\ start \in Nat
  BY DEF PageArrives, ServerInv, FoundInv, Connected
<1>1. UNCHANGED <<args, server, disk>>
  BY DEF PageArrives, Goes, common
<1>2. PICK page \in Answers : \E read, whole :
        /\ read = ParseDidlLite(page.didl)
        /\ whole = [containers |-> found.containers \o read.containers,
                    items |-> found.items \o read.items]
        /\ PageTaken(page, whole)
  BY DEF PageArrives, PageTaken, NumberReturned, LastPage, Goes, common
<1>20. PICK read, whole :
        /\ read = ParseDidlLite(page.didl)
        /\ whole = [containers |-> found.containers \o read.containers,
                    items |-> found.items \o read.items]
        /\ PageTaken(page, whole)
  BY <1>2
<1>3. PICK n \in 0 .. PageSize :
        /\ at.id \in Containers(server)
        /\ start + n <= Len(list)
        /\ page = [count |-> n, didl |-> FlattenSeq(didl(n))]
  BY DEF Answers, Listed, Browsed
<1>4. n \in Nat /\ page.count = n /\ page.didl = FlattenSeq(didl(n))
  BY <1>3, DlnaAssumption
<1>5. Elements(list)
  BY <1>0, <1>3, ListingElements DEF Browsed
<1>6. Len(list) \in Nat
  BY <1>5, MadeAreSeqs
<1>7. start + n \in 0 .. Len(list)
  BY <1>0, <1>3, <1>4, <1>6
<1>8. /\ Joined(Contained(list), start) \o read.containers = Joined(Contained(list), start + n)
      /\ Joined(Itemized(list), start) \o read.items = Joined(Itemized(list), start + n)
  <2>1. read = ParseDidlLite(FlattenSeq(PageEvents(list, start, n)))
    BY <1>20, <1>4 DEF PageEvents
  <2> HIDE DEF list
  <2> QED BY ZenonT(60), <1>0, <1>3, <1>4, <1>5, <2>1, PageRead
<1>9. whole = ReadOf(list, start + n)
  BY <1>0, <1>20, <1>3, <1>8 DEF ReadInv, ReadOf
<1>10. Listed = Len(list)
  BY DEF Listed, Browsed
<1>11. LastStep(start + n) \/ MoreStep(start + n)
  BY <1>20, <1>4, <1>9, <1>10 DEF PageTaken, LastStep, MoreStep
<1> QED BY <1>0, <1>1, <1>3, <1>7, <1>11

\* So it is in every step.
LEMMA NextReadInv ==
  ASSUME ReadInv, ServerInv, FoundInv, [Next]_vars
  PROVE  ReadInv'
<1>1. CASE PageArrives
  <2>1. PICK m \in 0 .. Len(Browsed) : LastStep(m) \/ MoreStep(m)
    BY <1>1, PageForm
  <2>2. server' = server /\ pc = "page" /\ at.id \in Containers(server)
    BY <1>1, PageForm DEF PageArrives
  <2>3. CASE LastStep(m)
    BY <2>3 DEF LastStep, LeaveEntry, ReadInv
  <2>4. CASE MoreStep(m)
    <3>1. at' = at /\ pc' = pc /\ Browsed' = Browsed
      BY <2>2, <2>4 DEF MoreStep, Browsed
    <3>2. Elements(Browsed)
      BY <1>1, PageForm, ListingElements DEF Browsed
    <3>3. m <= Len(Browsed)
      BY <3>2, MadeAreSeqs
    <3>4. found' = ReadOf(Browsed, m) /\ start' = m
      BY <2>4 DEF MoreStep
    <3>5. found'.containers = Joined(Contained(Browsed'), start')
          /\ found'.items = Joined(Itemized(Browsed'), start')
      BY <3>1, <3>4 DEF ReadOf
    <3>6. (found.containers = Joined(Contained(Browsed), start)
          /\ found.items = Joined(Itemized(Browsed), start))'
      BY <3>5 DEF Browsed, Joined, Contained, Itemized
    <3> QED BY <2>2, <3>1, <3>3, <3>4, <3>6 DEF ReadInv
  <2> QED BY <2>1, <2>3, <2>4
<1>2. CASE found' = NoneFound /\ start' = 0 /\ pc' # "page"
  BY <1>2 DEF ReadInv
<1>3. CASE UNCHANGED <<found, start>> /\ pc # "page" /\ pc' # "page"
  BY <1>3 DEF ReadInv
<1>4. CASE NextEntry
  <2>1. found' = NoneFound /\ start' = 0
    BY <1>4 DEF NextEntry, ReadInv
  <2>2. CASE pc' # "page"
    BY <2>1, <2>2 DEF ReadInv
  <2>3. CASE at'.id \in Containers(server')
    <3>1. Browsed' = Holds[server'][at'.id]
      BY DEF Browsed
    <3>2. server' = server /\ pc = "next" /\ server \in Servers
      BY <1>4 DEF NextEntry, ServerInv, Connected
    <3>3. Elements(Browsed')
      BY <2>3, <3>1, <3>2, ListingElements
    <3>4. 0 <= Len(Browsed')
      BY <3>3, MadeAreSeqs
    <3>5. (found.containers = Joined(Contained(Browsed), start)
          /\ found.items = Joined(Itemized(Browsed), start))'
      BY <2>1 DEF Joined, NoneFound
    <3> QED BY <2>1, <3>4, <3>5 DEF ReadInv
  <2>4. CASE at'.id \notin Containers(server')
    BY <2>1, <2>4 DEF ReadInv
  <2> QED BY <2>2, <2>3, <2>4
<1>5. CASE UNCHANGED vars
  BY <1>5 DEF vars, common, dlnaVars, locals, ReadInv, Browsed, Contained, Itemized, Joined
<1>6. \/ PageArrives \/ NextEntry \/ UNCHANGED vars
      \/ UNCHANGED <<found, start>> /\ pc # "page" /\ pc' # "page"
      \/ found' = NoneFound /\ start' = 0 /\ pc' # "page"
  <2>1. CASE (DlnaStep \/ DlnaFails) /\ ~PageArrives /\ ~NextEntry
    BY <2>1 DEF DlnaStep, DlnaFails, dlnaVars, common, Goes,
         locals, ByUrl, BySearch, SearchOver, ConnectFails, LoadCache, CacheMiss, Reply,
         BrowseFails, NoSuchObject, LeaveEntry, Built, WriteTmp, RenameTmp, SaveFails
  <2>2. CASE (SubsonicStep \/ SubsonicFails) /\ UNCHANGED dlnaVars
    BY <2>2 DEF SubsonicStep, SubsonicFails, TakeCredentials, Pong, ArtistsKnown, AlbumsKnown,
                SongsKnown, Send, Answer, RequestFails, ListsKnown, common,
                ListKnown, ListsDone, ServerFails, ListsFail, ListFails, Steps, dlnaVars, locals
  <2>3. CASE (FsStep \/ FsFails) /\ UNCHANGED dlnaVars
    BY <2>3 DEF FsStep, FsFails, Scan, Scanned, WalkFile, WalkError, common, dlnaVars, locals
  <2>4. CASE Restart
    BY <2>4 DEF Restart, Begins, DlnaForgets
  <2> QED BY <2>1, <2>2, <2>3, <2>4 DEF Next, Step, Fails, Done, dlnaVars, vars
<1> QED BY <1>1, <1>2, <1>3, <1>4, <1>5, <1>6

\* A queue is its head and its tail.
LEMMA HeadAndTail ==
  ASSUME NEW s, IsSeq(s), s # <<>>
  PROVE  IsSeq(Tail(s)) /\ ToSet(s) = {Head(s)} \cup ToSet(Tail(s))
<1>1. PICK T : s \in Seq(T)
  BY DEF IsSeq
<1>2. Tail(s) \in Seq(T) /\ Len(s) \in Nat /\ Len(s) # 0 /\ Len(Tail(s)) = Len(s) - 1
  BY <1>1
<1>3. \A i \in 1 .. Len(s) - 1 : Tail(s)[i] = s[i + 1]
  BY <1>1
<1>4. Head(s) = s[1]
  BY <1>1
<1>5. IsSeq(Tail(s))
  BY <1>2 DEF IsSeq
<1>6. ToSet(s) = {s[i] : i \in 1 .. Len(s)}
  BY IsSeqDef DEF ToSet
<1>7. ToSet(Tail(s)) = {Tail(s)[i] : i \in 1 .. Len(s) - 1}
  BY <1>2, <1>5, IsSeqDef DEF ToSet
<1>8. ToSet(s) \subseteq {Head(s)} \cup ToSet(Tail(s))
  <2> SUFFICES ASSUME NEW i \in 1 .. Len(s), i # 1
               PROVE  s[i] \in ToSet(Tail(s))
    BY <1>4, <1>6
  <2>1. i - 1 \in 1 .. Len(s) - 1 /\ (i - 1) + 1 = i
    BY <1>2
  <2>2. Tail(s)[i - 1] = s[i]
    BY <1>3, <2>1
  <2> QED BY <1>7, <2>1, <2>2
<1>9. {Head(s)} \cup ToSet(Tail(s)) \subseteq ToSet(s)
  <2>1. \A i \in 1 .. Len(s) - 1 : i + 1 \in 1 .. Len(s)
    BY <1>2
  <2>2. 1 \in 1 .. Len(s)
    BY <1>2
  <2>3. ASSUME NEW i \in 1 .. Len(s) - 1 PROVE Tail(s)[i] \in ToSet(s)
    BY <1>3, <1>6, <2>1
  <2> QED BY <1>4, <1>6, <1>7, <2>2, <2>3
<1> QED BY <1>5, <1>8, <1>9

\* The entry of a container in the queue.
EntryOf(x, d) == [id |-> x.id, title |-> x.title, depth |-> d]

\* What the end of a listing does to the catalogue,
LEMMA AssembledItems ==
  ASSUME NEW list, Elements(list), NEW m \in 0 .. Len(list), Assemble(ReadOf(list, m)),
         IsSeq(cat.items)
  PROVE  /\ \A t \in ToSet(cat'.items) :
              t \in ToSet(cat.items) \/ \E e \in ToSet(list) : MadeFrom(t, e)
         /\ SongsOfItems(cat'.items)
              = SongsOfItems(cat.items) \cup SongsOfItems(Joined(Itemized(list), m))
<1> DEFINE new == Joined(Itemized(list), m)
           old == cat.items
           nums == NumberedFrom(new, Len(old) + 1)
<1>0. IsSeq(new)
  <2>1. SeqOfSeqs(Itemized(list)) /\ m \in 0 .. Len(Itemized(list))
    BY MadeAreSeqs
  <2> QED BY <2>1, JoinedIsSeq
<1>1. cat'.items = old \o nums
  <2>1. ReadOf(list, m).items = new
    BY DEF ReadOf
  <2> HIDE DEF new
  <2> QED BY <2>1 DEF Assemble
<1>2. IsSeq(nums)
  <2>1. Len(new) \in Nat
    BY <1>0, IsSeqLen
  <2> HIDE DEF new
  <2> QED BY <2>1, NumberedFromType
<1>3. ToSet(old \o nums) = ToSet(old) \cup ToSet(nums)
  <2> HIDE DEF nums, old
  <2> QED BY <1>2, ConcatElements DEF old
<1>4. ASSUME NEW t \in ToSet(nums) PROVE \E e \in ToSet(list) : MadeFrom(t, e)
  <2>1. PICK x \in ToSet(new) : t.song = x.song /\ t.texts = x.texts
    <3> HIDE DEF new
    <3> QED BY <1>0, <1>4, NumberedElements
  <2>2. PICK e \in ToSet(list) : MadeFrom(x, e)
    BY ItemsOfListing
  <2> QED BY <2>1, <2>2 DEF MadeFrom
<1>5. SongsOfItems(old \o nums) = SongsOfItems(old) \cup SongsOfItems(nums)
  <2> HIDE DEF nums, old
  <2> QED BY <1>2, JoinedSongs DEF old
<1>6. SongsOfItems(nums) = SongsOfItems(new)
  <2> HIDE DEF new
  <2> QED BY <1>0, NumberedSongs
<1> QED BY <1>1, <1>3, <1>4, <1>5, <1>6

\* and to the queue.
LEMMA AssembledQueue ==
  ASSUME NEW list, Elements(list), NEW m \in 0 .. Len(list), Assemble(ReadOf(list, m)),
         IsSeq(queue)
  PROVE  /\ IsSeq(queue')
         /\ ToSet(queue') = ToSet(queue) \cup
              {EntryOf(x, at.depth + 1) :
                 x \in {y \in ToSet(Joined(Contained(list), m)) : ~Skip(y)}}
<1> DEFINE cs == Joined(Contained(list), m)
           go == {y \in ToSet(cs) : ~Skip(y)}
           down == KeptIn(cs, go)
           d == at.depth + 1
           more == [i \in 1 .. Len(down) |-> EntryOf(down[i], d)]
<1>0. IsSeq(cs)
  <2>1. SeqOfSeqs(Contained(list)) /\ m \in 0 .. Len(Contained(list))
    BY MadeAreSeqs
  <2> QED BY <2>1, JoinedIsSeq
<1>1. Kept(cs, LAMBDA c : ~Skip(c)) = down
  <2> HIDE DEF cs
  <2>1. \A i \in 1 .. Len(cs) : cs[i] \in ToSet(cs)
    BY DEF ToSet
  <2>2. \A i \in 1 .. Len(cs) : cs[i] \in go <=> ~Skip(cs[i])
    BY <2>1
  <2> HIDE DEF go
  <2>3. [i \in 1 .. Len(cs) |-> IF ~Skip(cs[i]) THEN <<cs[i]>> ELSE <<>>]
          = [i \in 1 .. Len(cs) |-> IF cs[i] \in go THEN <<cs[i]>> ELSE <<>>]
    BY <2>2
  <2> QED BY <2>3 DEF Kept, KeptIn
<1>2. queue' = queue \o more
  <2>1. ReadOf(list, m).containers = cs
    BY DEF ReadOf
  <2>2. queue' = queue \o [i \in 1 .. Len(Kept(ReadOf(list, m).containers, LAMBDA c : ~Skip(c))) |->
                       [id |-> Kept(ReadOf(list, m).containers, LAMBDA c : ~Skip(c))[i].id,
                        title |-> Kept(ReadOf(list, m).containers, LAMBDA c : ~Skip(c))[i].title,
                               depth |-> at.depth + 1]]
    BY DEF Assemble
  <2> HIDE DEF cs, down
  <2> QED BY <1>1, <2>1, <2>2 DEF EntryOf
<1>3. IsSeq(down) /\ ToSet(down) = go
  <2> HIDE DEF cs
  <2> QED BY <1>0, KeptInIs
<1> HIDE DEF cs, go, down
<1>4. Len(down) \in Nat
  BY <1>3, IsSeqLen
<1>5. IsSeq(more) /\ Len(more) = Len(down)
  <2>1. more \in [1 .. Len(down) -> {more[i] : i \in 1 .. Len(down)}]
    OBVIOUS
  <2> HIDE DEF more
  <2> QED BY <1>4, <2>1, FunctionIsSeq
<1>6. ToSet(more) = {EntryOf(x, d) : x \in go}
  <2>1. ToSet(more) = {more[i] : i \in 1 .. Len(down)}
    BY <1>5, IsSeqDef DEF ToSet
  <2>2. go = {down[i] : i \in 1 .. Len(down)}
    BY <1>3, IsSeqDef DEF ToSet
  <2> HIDE DEF d
  <2>3. \A i \in 1 .. Len(down) : more[i] = EntryOf(down[i], d)
    OBVIOUS
  <2> HIDE DEF more
  <2> QED BY <2>1, <2>2, <2>3
<1>7. IsSeq(queue \o more) /\ ToSet(queue \o more) = ToSet(queue) \cup ToSet(more)
  <2> HIDE DEF more
  <2> QED BY <1>5, ConcatIsSeq, ConcatElements
<1> QED BY <1>2, <1>6, <1>7 DEF go, cs, d

\* The containers that follow are the children.
LEMMA FollowAreChildren ==
  ASSUME server \in Servers, at.id \in Containers(server), NEW m \in 0 .. Len(Browsed)
  PROVE  /\ \A x \in {y \in ToSet(Joined(Contained(Browsed), m)) : ~Skip(y)} :
              x.id \in ChildrenOf(server, args.root, at.id, at.depth)
         /\ m = Len(Browsed) =>
              \A c \in ChildrenOf(server, args.root, at.id, at.depth) :
                \E x \in {y \in ToSet(Joined(Contained(Browsed), m)) : ~Skip(y)} : x.id = c
<1> DEFINE list == Browsed
           made(e) == [id |-> e.id, title |-> Trim(TextOf(e, "title"))]
<1>1. Elements(list) /\ ListedIn(server, at.id) = list
  BY ListingElements DEF Browsed, ListedIn
<1>2. \A x : x \in ToSet(Joined(Contained(list), m)) <=>
           \E i \in 1 .. m : list[i].is = "container" /\ x = made(list[i])
  BY <1>1, ContainersOfListing
<1>3. Len(list) \in Nat /\ ToSet(list) = {list[i] : i \in 1 .. Len(list)}
  BY <1>1, MadeAreSeqs, IsSeqDef DEF Elements, ToSet
<1>4. \A e : made(e).id = e.id /\ (Skip(made(e)) <=> /\ args.root = TopContainer /\ at.depth = 0
                                                      /\ Trim(TextOf(e, "title")) \in SkipTopLevel)
  BY DEF Skip
<1>5. \A c : c \in ChildrenOf(server, args.root, at.id, at.depth) <=>
        \E e \in ToSet(list) : /\ e.is = "container" /\ ~Skip(made(e)) /\ c = e.id
  BY <1>1, <1>4 DEF ChildrenOf, ContainersIn
<1> HIDE DEF list, made
<1>6. ASSUME NEW x \in ToSet(Joined(Contained(list), m)), ~Skip(x)
      PROVE  x.id \in ChildrenOf(server, args.root, at.id, at.depth)
  <2>1. PICK i \in 1 .. m : list[i].is = "container" /\ x = made(list[i])
    BY <1>2, <1>6
  <2>2. list[i] \in ToSet(list)
    BY <1>3, <2>1 DEF list
  <2> QED BY <1>4, <1>5, <1>6, <2>1, <2>2
<1>7. ASSUME m = Len(list), NEW c \in ChildrenOf(server, args.root, at.id, at.depth)
      PROVE  \E x \in {y \in ToSet(Joined(Contained(list), m)) : ~Skip(y)} : x.id = c
  <2>1. PICK e \in ToSet(list) : e.is = "container" /\ ~Skip(made(e)) /\ c = e.id
    BY <1>5
  <2>2. PICK i \in 1 .. m : e = list[i]
    BY <1>3, <1>7
  <2>3. made(e) \in ToSet(Joined(Contained(list), m))
    BY <1>2, <2>1, <2>2
  <2> QED BY <1>4, <2>1, <2>3
<1> QED BY <1>6, <1>7 DEF list

-----------------------------------------------------------------------------
(* The catalogue of a media server *)

\* Each source has steps of its own.
SourceInv ==
  /\ pc \in {"ping", "index", "artists", "albums", "lists", "list"} => args.source = "subsonic"
  /\ pc = "walk" => args.source = "fs"
  /\ pc = "serving" => args.source \in {"dlna", "subsonic", "fs"}

\* The service of a source.
Serving(source) == pc = "serving" /\ args.source = source

\* The steps before the first container is browsed,
Before == {"start", "search", "connect"}

\* do not touch the catalogue;
Arriving ==
  /\ pc \in Before /\ pc' \in {"search", "connect", "exited"}
  /\ UNCHANGED <<args, cat, queue, disk>>

\* the end of a container that fails,
Dropping ==
  /\ pc = "page" /\ pc' = "next" /\ missed' = missed \cup {at.id}
  /\ UNCHANGED <<args, cat, server, queue, disk>>

\* those of a save,
Storing ==
  /\ pc \in {"write", "rename"} /\ pc' \in {"write", "rename", "serving"}
  /\ UNCHANGED <<args, cat, missed, server, queue>>

\* and those of other sources.
Elsewhere ==
  /\ UNCHANGED <<args, server, queue, disk>>
  /\ pc' \notin Before \cup {"next", "page", "write", "rename"}
  /\ pc' = "serving" => args.source # "dlna"

\* No step is of another form.
LEMMA DlnaForm ==
  ASSUME [Next]_vars, SourceInv
  PROVE  \/ Arriving \/ LoadCache \/ CacheMiss \/ NextEntry \/ PageArrives \/ Dropping
         \/ Built \/ Storing \/ Elsewhere \/ Restart \/ UNCHANGED vars
<1>1. CASE DlnaStep \/ DlnaFails
  <2>1. CASE ByUrl \/ BySearch \/ SearchOver \/ ConnectFails \/ \E s \in Servers : Reply(s)
    BY <2>1 DEF ByUrl, BySearch, SearchOver, ConnectFails, Reply, Arriving, Before, Goes,
                dlnaVars, locals, disk, common
  <2>2. CASE BrowseFails \/ NoSuchObject
    BY <2>2 DEF BrowseFails, NoSuchObject, Dropping, Goes, disk
  <2>3. CASE WriteTmp \/ SaveFails \/ RenameTmp
    BY <2>3 DEF WriteTmp, SaveFails, RenameTmp, Storing, Goes, dlnaVars, locals
  <2> QED BY <1>1, <2>1, <2>2, <2>3 DEF DlnaStep, DlnaFails
<1>2. CASE (SubsonicStep \/ SubsonicFails) /\ UNCHANGED dlnaVars
  BY <1>2 DEF SubsonicStep, SubsonicFails, TakeCredentials, Pong, ArtistsKnown, AlbumsKnown,
              SongsKnown, Send, Answer, RequestFails, ListsKnown, common, SourceInv,
              ListKnown, ListsDone, ServerFails, ListsFail, ListFails, Steps, dlnaVars, locals,
              Elsewhere, Before
<1>3. CASE (FsStep \/ FsFails) /\ UNCHANGED dlnaVars
  BY <1>3 DEF FsStep, FsFails, Scan, Scanned, WalkFile, WalkError, common, dlnaVars, locals,
              Elsewhere, Before, SourceInv
<1> QED BY <1>1, <1>2, <1>3 DEF Next, Step, Fails, Done

\* Every step keeps the source that goes with its place.
LEMMA NextSourceInv ==
  ASSUME SourceInv, ServerInv, [Next]_vars
  PROVE  SourceInv'
<1>1. CASE DlnaStep \/ DlnaFails
  <2>1. /\ pc' \in {"search", "connect", "next", "page", "write", "rename", "serving", "exited"}
        /\ args' = args
        /\ pc' = "serving" => pc \in Connected
    <3>1. CASE PageArrives
      BY <3>1 DEF PageArrives, Goes, common
    <3>2. CASE ~PageArrives
      BY <1>1, <3>2
         DEF DlnaStep, DlnaFails, ByUrl, BySearch, SearchOver, ConnectFails, Reply, LoadCache,
             CacheMiss, NextEntry, BrowseFails, NoSuchObject, Built, WriteTmp, SaveFails,
             RenameTmp, Goes, common, Connected
    <3> QED BY <3>1, <3>2
  <2>2. pc \in Connected => args.source = "dlna"
    BY DEF ServerInv
  <2> QED BY <2>1, <2>2 DEF SourceInv
<1>2. CASE SubsonicStep \/ SubsonicFails
  BY <1>2 DEF SubsonicStep, SubsonicFails, TakeCredentials, Pong, ArtistsKnown, AlbumsKnown,
              SongsKnown, Send, Answer, RequestFails, ListsKnown, common, SourceInv,
              ListKnown, ListsDone, ServerFails, ListsFail, ListFails, Steps
<1>3. CASE FsStep \/ FsFails
  BY <1>3 DEF FsStep, FsFails, Scan, Scanned, WalkFile, WalkError, common, SourceInv
<1>4. CASE Restart \/ UNCHANGED vars
  BY <1>4 DEF Restart, Begins, vars, common, SourceInv
<1> QED BY <1>1, <1>2, <1>3, <1>4 DEF Next, Step, Fails, Done

\* Every container that waits is where the server has it.
QueueInv ==
  /\ IsSeq(queue)
  /\ pc \in {"next", "page"} =>
       \A q \in ToSet(queue) :
         q.depth \in Nat /\ (q.depth <= MaxDepth => q.id \in Level(server, args.root)[q.depth])
  /\ pc = "page" => at.depth \in 0 .. MaxDepth /\ at.id \in Level(server, args.root)[at.depth]

\* Nothing has no elements,
LEMMA EmptyElements == ToSet(<<>>) = {}
BY DEF ToSet

\* and one element is alone.
LEMMA OneElement == ASSUME NEW x PROVE ToSet(<<x>>) = {x}
BY DEF ToSet

\* A page puts its containers one level down.
LEMMA PageQueueInv ==
  ASSUME QueueInv, ReadInv, ServerInv, FoundInv, PageArrives
  PROVE  QueueInv'
<1>1. /\ pc = "page" /\ UNCHANGED <<args, server>>
      /\ at.id \in Containers(server) /\ server \in Servers
  BY PageForm DEF PageArrives
<1>2. PICK m \in 0 .. Len(Browsed) : LastStep(m) \/ MoreStep(m)
  BY PageForm
<1>3. Elements(Browsed)
  BY <1>1, ListingElements DEF Browsed
<1>4. CASE LastStep(m)
  <2>1. Assemble(ReadOf(Browsed, m)) /\ pc' = "next"
    BY <1>4 DEF LastStep
  <2>2. /\ IsSeq(queue')
        /\ ToSet(queue') = ToSet(queue) \cup
             {EntryOf(x, at.depth + 1) :
                x \in {y \in ToSet(Joined(Contained(Browsed), m)) : ~Skip(y)}}
    BY <1>3, <2>1, AssembledQueue DEF QueueInv
  <2>3. ASSUME NEW x \in {y \in ToSet(Joined(Contained(Browsed), m)) : ~Skip(y)}
        PROVE  LET q == EntryOf(x, at.depth + 1)
               IN  q.depth \in Nat /\ (q.depth <= MaxDepth => q.id \in Level(server, args.root)[q.depth])
    <3>1. x.id \in ChildrenOf(server, args.root, at.id, at.depth)
      BY <1>1, FollowAreChildren
    <3>2. at.depth \in Nat /\ at.id \in Level(server, args.root)[at.depth]
      BY <1>1, DlnaAssumption DEF QueueInv
    <3>3. at.depth + 1 <= MaxDepth => x.id \in Level(server, args.root)[at.depth + 1]
      BY <3>1, <3>2, LevelNext
    <3> QED BY <3>2, <3>3 DEF EntryOf
  <2>4. \A q \in ToSet(queue') :
          q.depth \in Nat /\ (q.depth <= MaxDepth => q.id \in Level(server, args.root)[q.depth])
    BY <1>1, <2>2, <2>3 DEF QueueInv
  <2> QED BY <1>1, <2>1, <2>2, <2>4 DEF QueueInv
<1>5. CASE MoreStep(m)
  BY <1>1, <1>5 DEF MoreStep, QueueInv
<1> QED BY <1>2, <1>4, <1>5

\* Every step keeps what waits on its level.
LEMMA NextQueueInv ==
  ASSUME QueueInv, ReadInv, ServerInv, FoundInv, SourceInv, [Next]_vars
  PROVE  QueueInv'
<1>1. CASE Arriving \/ Elsewhere \/ Storing
  BY <1>1 DEF Arriving, Elsewhere, Storing, QueueInv
<1>2. CASE LoadCache
  BY <1>2 DEF LoadCache, Goes, dlnaVars, locals, QueueInv
<1>3. CASE CacheMiss
  <2> DEFINE q == [id |-> args.root, title |-> <<>>, depth |-> 0]
  <2>1. queue' = <<q>> /\ pc' = "next" /\ UNCHANGED <<server, args>>
    BY <1>3 DEF CacheMiss, Goes
  <2>2. q.depth = 0 /\ q.id = args.root
    OBVIOUS
  <2> HIDE DEF q
  <2>3. IsSeq(queue') /\ ToSet(queue') = {q}
    BY <2>1, OneIsSeq, OneElement
  <2>4. q.id \in Level(server, args.root)[0]
    BY <2>2, LevelFirst
  <2> QED BY <2>1, <2>2, <2>3, <2>4 DEF QueueInv
<1>4. CASE NextEntry
  <2>1. /\ pc = "next" /\ queue # <<>> /\ queue' = Tail(queue) /\ UNCHANGED <<server, args>>
        /\ \/ pc' = "next"
           \/ ~(Head(queue).depth > MaxDepth) /\ pc' = "page" /\ at' = Head(queue)
    BY <1>4 DEF NextEntry, Goes
  <2>2. IsSeq(queue') /\ ToSet(queue) = {Head(queue)} \cup ToSet(queue')
    BY <2>1, HeadAndTail DEF QueueInv
  <2>3. \A q \in ToSet(queue) :
          q.depth \in Nat /\ (q.depth <= MaxDepth => q.id \in Level(server, args.root)[q.depth])
    BY <2>1 DEF QueueInv
  <2> DEFINE h == Head(queue)
  <2>4. h.depth \in Nat /\ (h.depth <= MaxDepth => h.id \in Level(server, args.root)[h.depth])
    BY <2>2, <2>3
  <2> HIDE DEF h
  <2>5. ~(h.depth > MaxDepth) => h.depth \in 0 .. MaxDepth
    BY <2>4, DlnaAssumption
  <2>6. pc' = "page" => at' = h /\ ~(h.depth > MaxDepth)
    BY <2>1 DEF h
  <2> QED BY <2>1, <2>2, <2>3, <2>4, <2>5, <2>6 DEF QueueInv
<1>5. CASE PageArrives
  BY <1>5, PageQueueInv
<1>6. CASE Dropping
  BY <1>6 DEF Dropping, QueueInv
<1>7. CASE Built
  BY <1>7 DEF Built, Goes, dlnaVars, locals, QueueInv
<1>8. CASE Restart
  BY <1>8, EmptyIsSeq DEF Restart, Begins, DlnaForgets, QueueInv
<1>9. CASE UNCHANGED vars
  BY <1>9 DEF vars, common, dlnaVars, locals, QueueInv
<1> QED
  BY <1>1, <1>2, <1>3, <1>4, <1>5, <1>6, <1>7, <1>8, <1>9, DlnaForm

\* What waits may go when it is too deep.
LEMMA ClosedStill ==
  ASSUME NEW V, NEW s, NEW root, NEW songs, NEW w, Closed(V, s, root, songs, w),
         NEW w2, \A c : \A d \in 0 .. MaxDepth : <<c, d>> \in w => <<c, d>> \in w2
  PROVE  Closed(V, s, root, songs, w2)
<1>0. MaxDepth \in Nat
  BY DlnaAssumption
<1>1. <<root, 0>> \in V \cup w2
  BY <1>0 DEF Closed
<1>2. ASSUME NEW p \in V, p[2] + 1 <= MaxDepth, NEW c \in ChildrenOf(s, root, p[1], p[2])
      PROVE  <<c, p[2] + 1>> \in V \cup w2
  <2>1. <<c, p[2] + 1>> \in V \cup w /\ p[2] \in 0 .. MaxDepth
    BY <1>2 DEF Closed
  <2>2. p[2] + 1 \in 0 .. MaxDepth
    BY <1>0, <1>2, <2>1
  <2> QED BY <2>1, <2>2
<1> QED BY <1>1, <1>2 DEF Closed

\* A container that was read is seen.
LEMMA ClosedNext ==
  ASSUME NEW V, NEW s, NEW root, NEW songs, NEW w, NEW c, NEW d \in 0 .. MaxDepth,
         Closed(V, s, root, songs, w \cup {<<c, d>>}),
         NEW songs2, songs \subseteq songs2, AudioOf(s, c) \subseteq songs2,
         NEW w2, w \subseteq w2, \A x \in ChildrenOf(s, root, c, d) : <<x, d + 1>> \in w2
  PROVE  Closed(V \cup {<<c, d>>}, s, root, songs2, w2)
<1> DEFINE pair == <<c, d>>
           U == V \cup {pair}
<1>0. pair[1] = c /\ pair[2] = d /\ pair = <<pair[1], pair[2]>>
  OBVIOUS
<1>1. <<root, 0>> \in U \cup w2
  BY DEF Closed
<1>2. \A p \in V : <<p[1], p[2]>> = p /\ p[2] \in 0 .. MaxDepth /\ AudioOf(s, p[1]) \subseteq songs
  BY DEF Closed
<1>3. \A p \in V : p[2] + 1 <= MaxDepth =>
        \A x \in ChildrenOf(s, root, p[1], p[2]) : <<x, p[2] + 1>> \in V \cup (w \cup {pair})
  BY DEF Closed
<1> HIDE DEF pair
<1>4. \A p \in U : p = <<p[1], p[2]>> /\ p[2] \in 0 .. MaxDepth
  BY <1>0, <1>2
<1>5. \A p \in U : AudioOf(s, p[1]) \subseteq songs2
  BY <1>0, <1>2
<1>6. \A p \in U : p[2] + 1 <= MaxDepth =>
        \A x \in ChildrenOf(s, root, p[1], p[2]) : <<x, p[2] + 1>> \in U \cup w2
  BY <1>0, <1>3
<1> QED BY <1>1, <1>4, <1>5, <1>6 DEF Closed, pair

-----------------------------------------------------------------------------
\* A track of a container that is reached, with its texts.
FromServer(t, s, root) ==
  \E c \in Reached(s, root) :
    c \in Containers(s) /\ \E e \in ToSet(Holds[s][c]) : MadeFrom(t, e)

\* All tracks are from the server.
SoundItems(items, s, root) == \A t \in ToSet(items) : FromServer(t, s, root)

\* A catalogue of a server and a root, and what was missed of it.
HeldBy(c, gone, s, root) ==
  /\ SoundItems(c.items, s, root)
  /\ gone = {} => DlnaSongs(s, root) \subseteq SongsOfItems(c.items)

\* The places that wait: those in the queue and the one that is read.
Waiting ==
  {<<q.id, q.depth>> : q \in ToSet(queue)} \cup {p \in {<<at.id, at.depth>>} : pc = "page"}

\* While it is built, what is in the catalogue was seen and what was not seen
\* waits, unless something was missed; then all of it was.
BuildInv ==
  /\ pc \in Before => cat = Nothing
  /\ pc \in {"next", "page"} => SoundItems(cat.items, server, args.root)
  /\ pc \in {"next", "page"} /\ missed = {} =>
       \E V : Closed(V, server, args.root, SongsOfItems(cat.items), Waiting)
  /\ pc \in {"write", "rename"} \/ Serving("dlna") => HeldBy(cat, missed, server, args.root)

\* So it is with every file.
DiskInv ==
  \A k \in Keys : \A f \in {cache[k], tmp[k]} :
    f.state = "whole" => HeldBy(f.cat, f.missed, k[1], k[2])

\* What a container of a level gives is from the server.
LEMMA FromListing ==
  ASSUME NEW s, NEW root, NEW c \in Containers(s), NEW d \in 0 .. MaxDepth,
         c \in Level(s, root)[d], NEW e \in ToSet(Holds[s][c]), NEW t, MadeFrom(t, e)
  PROVE  FromServer(t, s, root)
BY LevelReached DEF FromServer

\* A page adds what its container holds.
LEMMA PageBuildInv ==
  ASSUME BuildInv, QueueInv, ReadInv, ServerInv, FoundInv, CatsInv, PageArrives
  PROVE  BuildInv'
<1>1. /\ pc = "page" /\ UNCHANGED <<args, server>>
      /\ at.id \in Containers(server) /\ server \in Servers
  BY PageForm DEF PageArrives
<1>2. PICK m \in 0 .. Len(Browsed) : LastStep(m) \/ MoreStep(m)
  BY PageForm
<1>3. Elements(Browsed) /\ Len(Browsed) \in Nat
  BY <1>1, ListingElements, MadeAreSeqs DEF Browsed
<1>4. CASE LastStep(m)
  <2>1. /\ Assemble(ReadOf(Browsed, m)) /\ pc' = "next"
        /\ missed' = IF m < Len(Browsed) THEN missed \cup {at.id} ELSE missed
    BY <1>4 DEF LastStep
  <2>2. /\ \A t \in ToSet(cat'.items) :
              t \in ToSet(cat.items) \/ \E e \in ToSet(Browsed) : MadeFrom(t, e)
        /\ SongsOfItems(cat'.items)
             = SongsOfItems(cat.items) \cup SongsOfItems(Joined(Itemized(Browsed), m))
    BY <1>3, <2>1, AssembledItems DEF CatsInv, Numbered
  <2>3. /\ at.depth \in 0 .. MaxDepth /\ at.id \in Level(server, args.root)[at.depth]
        /\ SoundItems(cat.items, server, args.root)
    BY <1>1 DEF QueueInv, BuildInv
  <2>4. SoundItems(cat'.items, server', args'.root)
    BY <1>1, <2>2, <2>3, FromListing DEF SoundItems, Browsed
  <2>5. ASSUME missed' = {}
        PROVE  \E V : Closed(V, server', args'.root, SongsOfItems(cat'.items), Waiting')
    <3>1. m = Len(Browsed) /\ missed = {}
      BY <1>3, <2>1, <2>5
    <3> DEFINE w == {<<q.id, q.depth>> : q \in ToSet(queue)}
               c == at.id
               d == at.depth
               songs == SongsOfItems(cat.items)
               songs2 == SongsOfItems(cat'.items)
    <3>2. Waiting = w \cup {<<c, d>>}
      BY <1>1 DEF Waiting
    <3>3. PICK V : Closed(V, server, args.root, songs, w \cup {<<c, d>>})
      BY <1>1, <3>1, <3>2 DEF BuildInv
    <3>4. AudioOf(server, c) \subseteq songs2
      <4>1. ListedIn(server, c) = Browsed
        BY <1>1 DEF ListedIn, Browsed
      <4>2. SUFFICES ASSUME NEW e \in ToSet(Browsed), IsAudio(e)
                     PROVE  e.id \in SongsOfItems(Joined(Itemized(Browsed), m))
        BY <2>2, <4>1 DEF AudioOf
      <4>3. PICK x \in ToSet(Joined(Itemized(Browsed), m)) : x.song = e.id
        BY <1>3, <3>1, <4>2, AllItemsOfListing
      <4> QED BY <4>3 DEF SongsOfItems
    <3> DEFINE w2 == Waiting'
    <3>5. ToSet(queue') = ToSet(queue) \cup
             {EntryOf(x, at.depth + 1) :
                x \in {y \in ToSet(Joined(Contained(Browsed), m)) : ~Skip(y)}}
      BY <1>3, <2>1, AssembledQueue DEF QueueInv
    <3>6. w2 = {<<q.id, q.depth>> : q \in ToSet(queue')}
      BY <2>1 DEF Waiting
    <3>7. w \subseteq w2
      BY <3>5, <3>6
    <3>8. ASSUME NEW x \in ChildrenOf(server, args.root, c, d)
          PROVE  <<x, d + 1>> \in w2
      <4>1. PICK y \in {z \in ToSet(Joined(Contained(Browsed), m)) : ~Skip(z)} : y.id = x
        BY <1>1, <3>1, FollowAreChildren
      <4>2. EntryOf(y, d + 1) \in ToSet(queue')
        BY <3>5
      <4>3. EntryOf(y, d + 1).id = x /\ EntryOf(y, d + 1).depth = d + 1
        BY <4>1 DEF EntryOf
      <4> QED BY <3>6, <4>2, <4>3
    <3>9. songs \subseteq songs2 /\ d \in 0 .. MaxDepth
      BY <2>2, <2>3
    <3> HIDE DEF w, w2, c, d, songs, songs2
    <3>10. Closed(V \cup {<<c, d>>}, server, args.root, songs2, w2)
      BY <3>3, <3>4, <3>7, <3>8, <3>9, ClosedNext
    <3>11. Closed(V \cup {<<c, d>>}, server', args'.root, songs2, w2)
      BY <1>1, <3>10
    <3> QED BY <3>11 DEF w2, songs2
  <2> QED BY <2>1, <2>4, <2>5 DEF BuildInv, Before, Serving
<1>5. CASE MoreStep(m)
  <2>1. UNCHANGED <<pc, cat, missed, at, queue, args, server>>
    BY <1>1, <1>5 DEF MoreStep
  <2>2. Waiting' = Waiting
    BY <2>1 DEF Waiting
  <2> QED BY <1>1, <2>1, <2>2 DEF BuildInv, Before, Serving
<1> QED BY <1>2, <1>4, <1>5

\* When nothing was seen, the root waits,
LEMMA EmptyCloses ==
  ASSUME NEW s, NEW root, NEW songs
  PROVE  Closed({}, s, root, songs, {<<root, 0>>})
BY DEF Closed

\* and the catalogue has nothing to be wrong.
LEMMA NothingSound == ASSUME NEW s, NEW root PROVE SoundItems(Nothing.items, s, root)
BY EmptyElements DEF SoundItems, Nothing

\* The next container is read, or is too deep to be.
LEMMA EntryBuildInv ==
  ASSUME BuildInv, QueueInv, NextEntry
  PROVE  BuildInv'
<1> DEFINE h == Head(queue)
           w == {<<q.id, q.depth>> : q \in ToSet(queue)}
           w2 == {<<q.id, q.depth>> : q \in ToSet(queue')}
<1>1. /\ pc = "next" /\ queue # <<>> /\ queue' = Tail(queue) /\ UNCHANGED <<server, args, cat, missed>>
      /\ \/ pc' = "next" /\ h.depth > MaxDepth
         \/ pc' = "page" /\ at' = h
  BY DEF NextEntry, Goes
<1>2. ToSet(queue) = {h} \cup ToSet(queue')
  BY <1>1, HeadAndTail DEF QueueInv
<1>3. Waiting = w /\ w = w2 \cup {<<h.id, h.depth>>}
  BY <1>1, <1>2 DEF Waiting
<1>4. h.depth \in Nat
  BY <1>1, <1>2 DEF QueueInv
<1> HIDE DEF h
<1>5. SoundItems(cat'.items, server', args'.root)
  BY <1>1 DEF BuildInv
<1>6. ASSUME missed = {}
      PROVE  \E V : Closed(V, server', args'.root, SongsOfItems(cat'.items), Waiting')
  <2>1. PICK V : Closed(V, server, args.root, SongsOfItems(cat.items), w)
    BY <1>1, <1>3, <1>6 DEF BuildInv
  <2>2. CASE pc' = "next" /\ h.depth > MaxDepth
    <3>1. Waiting' = w2
      BY <2>2 DEF Waiting
    <3>2. \A c : \A d \in 0 .. MaxDepth : <<c, d>> \in w => <<c, d>> \in w2
      <4> SUFFICES ASSUME NEW c, NEW d \in 0 .. MaxDepth, <<c, d>> \in w
                   PROVE  <<c, d>> \in w2
        OBVIOUS
      <4>1. d # h.depth
        BY <1>4, <2>2, DlnaAssumption
      <4>2. <<c, d>> # <<h.id, h.depth>>
        BY <4>1
      <4> HIDE DEF w, w2
      <4> QED BY <1>3, <4>2
    <3> HIDE DEF w, w2
    <3>3. Closed(V, server, args.root, SongsOfItems(cat.items), w2)
      BY <2>1, <3>2, ClosedStill
    <3> QED BY <1>1, <3>1, <3>3
  <2>3. CASE pc' = "page" /\ at' = h
    <3>1. Waiting' = w2 \cup {<<h.id, h.depth>>}
      BY <2>3 DEF Waiting
    <3> HIDE DEF w, w2
    <3>2. Waiting' = w
      BY <1>3, <3>1
    <3> QED BY <1>1, <2>1, <3>2
  <2> QED BY <1>1, <2>2, <2>3
<1> QED BY <1>1, <1>5, <1>6 DEF BuildInv, Before, Serving

\* When nothing waits, all was seen.
LEMMA BuiltBuildInv ==
  ASSUME BuildInv, Built
  PROVE  BuildInv'
<1>1. /\ pc = "next" /\ queue = <<>> /\ UNCHANGED <<server, args, cat, missed>>
      /\ pc' \in {"write", "serving"}
  BY DEF Built, Goes, dlnaVars, locals
<1>2. Waiting = {}
  BY <1>1, EmptyElements DEF Waiting
<1>3. SoundItems(cat.items, server, args.root)
  BY <1>1 DEF BuildInv
<1>4. ASSUME missed = {}
      PROVE  DlnaSongs(server, args.root) \subseteq SongsOfItems(cat.items)
  <2>1. PICK V : Closed(V, server, args.root, SongsOfItems(cat.items), {})
    BY <1>1, <1>2, <1>4 DEF BuildInv
  <2> QED BY <2>1, ClosedIsAll
<1>5. HeldBy(cat, missed, server, args.root)
  BY <1>3, <1>4 DEF HeldBy
<1>6. HeldBy(cat, missed, server, args.root)'
  BY <1>1, <1>5
<1> QED BY <1>1, <1>6 DEF BuildInv, Before

\* A catalogue from the disk is as sound as it was written.
LEMMA LoadBuildInv ==
  ASSUME BuildInv, DiskInv, ServerInv, LoadCache
  PROVE  BuildInv'
<1>1. /\ pc = "connect" /\ args.source = "dlna" /\ args \in Args /\ server \in Servers
      /\ cache[Key].state = "whole" /\ cat' = cache[Key].cat /\ missed' = cache[Key].missed
      /\ pc' = "serving" /\ UNCHANGED <<server, args>>
  BY DEF LoadCache, ServerInv, Connected, Goes, dlnaVars, locals
<1>2. Key \in Keys /\ Key[1] = server /\ Key[2] = args.root
  BY <1>1 DEF Key, Keys, Roots
<1>3. HeldBy(cache[Key].cat, cache[Key].missed, Key[1], Key[2])
  BY <1>1, <1>2 DEF DiskInv
<1>4. HeldBy(cat', missed', server', args'.root)
  BY <1>1, <1>2, <1>3
<1> QED BY <1>1, <1>4 DEF BuildInv, Before

\* Every step keeps what was seen in the catalogue.
LEMMA NextBuildInv ==
  ASSUME BuildInv, DiskInv, QueueInv, ReadInv, ServerInv, FoundInv, CatsInv, SourceInv,
         [Next]_vars
  PROVE  BuildInv'
<1>1. CASE Arriving \/ Elsewhere
  BY <1>1 DEF Arriving, Elsewhere, BuildInv, Before, Serving
<1>2. CASE LoadCache
  BY <1>2, LoadBuildInv
<1>3. CASE CacheMiss
  <2> DEFINE q == [id |-> args.root, title |-> <<>>, depth |-> 0]
  <2>1. /\ queue' = <<q>> /\ pc' = "next" /\ pc \in Before
        /\ UNCHANGED <<server, args, cat, missed>>
    BY <1>3 DEF CacheMiss, Goes, Before
  <2>2. q.depth = 0 /\ q.id = args.root
    OBVIOUS
  <2> HIDE DEF q
  <2>3. Waiting' = {<<args.root, 0>>}
    BY <2>1, <2>2, OneElement DEF Waiting
  <2>4. Closed({}, server, args.root, SongsOfItems(cat.items), {<<args.root, 0>>})
    BY EmptyCloses
  <2>5. Closed({}, server, args.root, SongsOfItems(cat.items), Waiting)'
    BY <2>1, <2>3, <2>4
  <2>6. SoundItems(cat.items, server, args.root)'
    BY <2>1, NothingSound DEF BuildInv
  <2> QED BY <2>1, <2>5, <2>6 DEF BuildInv, Before, Serving
<1>4. CASE NextEntry
  BY <1>4, EntryBuildInv
<1>5. CASE PageArrives
  BY <1>5, PageBuildInv
<1>6. CASE Dropping
  <2>1. SoundItems(cat.items, server, args.root) /\ missed' # {}
    BY <1>6 DEF Dropping, BuildInv
  <2>2. SoundItems(cat.items, server, args.root)'
    BY <1>6, <2>1 DEF Dropping
  <2> QED BY <1>6, <2>1, <2>2 DEF Dropping, BuildInv, Before, Serving
<1>7. CASE Built
  BY <1>7, BuiltBuildInv
<1>8. CASE Storing
  BY <1>8 DEF Storing, BuildInv, Before
<1>9. CASE Restart
  BY <1>9 DEF Restart, Begins, BuildInv, Before, Serving
<1>10. CASE UNCHANGED vars
  <2>1. UNCHANGED <<pc, cat, missed, at, queue, args, server>>
    BY <1>10 DEF vars, common, dlnaVars, locals
  <2>2. Waiting' = Waiting
    BY <2>1 DEF Waiting
  <2> QED BY <2>1, <2>2 DEF BuildInv, Serving
<1> QED
  BY <1>1, <1>2, <1>3, <1>4, <1>5, <1>6, <1>7, <1>8, <1>9, <1>10, DlnaForm

\* A disk that stays the same stays sound.
LEMMA KeptDisk == ASSUME DiskInv, UNCHANGED disk PROVE DiskInv'
<1>1. \A k \in Keys : cache'[k] = cache[k] /\ tmp'[k] = tmp[k]
  BY DEF disk
<1>2. \A k \in Keys : \A f \in {cache[k], tmp[k]} :
        f.state = "whole" => HeldBy(f.cat, f.missed, k[1], k[2])
  BY DEF DiskInv
<1>3. \A k \in Keys : \A f \in {cache'[k], tmp'[k]} :
        f.state = "whole" => HeldBy(f.cat, f.missed, k[1], k[2])
  BY <1>1, <1>2
<1> QED BY <1>3 DEF DiskInv

\* Every step keeps the files sound.
LEMMA NextDiskInv ==
  ASSUME DiskInv, BuildInv, CacheInv, ServerInv, [Next]_vars
  PROVE  DiskInv'
<1> DEFINE Good(k, f) == f.state = "whole" => HeldBy(f.cat, f.missed, k[1], k[2])
<1>1. \A k \in Keys : Good(k, cache[k]) /\ Good(k, tmp[k])
  BY DEF DiskInv
<1>2. CASE WriteTmp
  <2>1. /\ pc = "write" /\ UNCHANGED cache
        /\ \/ tmp' = [tmp EXCEPT ![Key] = Partial]
           \/ tmp' = [tmp EXCEPT ![Key] = File]
    BY <1>2 DEF WriteTmp
  <2>2. Good(Key, Partial)
    BY DEF Partial
  <2>3. Good(Key, File)
    BY <2>1 DEF File, Key, BuildInv
  <2>4. ASSUME NEW k \in Keys
        PROVE  tmp'[k] = tmp[k] \/ (k = Key /\ tmp'[k] \in {Partial, File})
    BY <2>1 DEF CacheInv
  <2> HIDE DEF Good
  <2>5. \A k \in Keys : Good(k, cache'[k]) /\ Good(k, tmp'[k])
    BY <1>1, <2>1, <2>2, <2>3, <2>4
  <2> QED BY <2>5 DEF DiskInv, Good
<1>3. CASE RenameTmp
  <2>1. /\ cache' = [cache EXCEPT ![Key] = tmp[Key]]
        /\ tmp' = [tmp EXCEPT ![Key] = NoFile]
    BY <1>3 DEF RenameTmp
  <2>2. Good(Key, NoFile)
    BY DEF NoFile
  <2>3. ASSUME NEW k \in Keys
        PROVE  /\ tmp'[k] = tmp[k] \/ (k = Key /\ tmp'[k] = NoFile)
               /\ cache'[k] \in {cache[k], tmp[k]}
    BY <2>1 DEF CacheInv
  <2> HIDE DEF Good
  <2>4. \A k \in Keys : Good(k, cache'[k]) /\ Good(k, tmp'[k])
    BY <1>1, <2>2, <2>3
  <2> QED BY <2>4 DEF DiskInv, Good
<1> QED BY <1>2, <1>3, DiskForm, KeptDisk

-----------------------------------------------------------------------------
(* The catalogue of a Subsonic server *)

\* The answers are those to what was asked, in whatever order they came, and of
\* an answer that is there nothing is missing; what a list is made of is the
\* answer to all of it.
AnswersInv ==
  /\ pc = "artists" => asked = Artists
  /\ pc = "albums" => /\ ToSet(asked) \subseteq AlbumsHeld
                      /\ missed = {} => AlbumsHeld \subseteq ToSet(asked)
  /\ pc \in {"artists", "albums"} =>
       /\ \A x \in ToSet(answers) : \E i \in 1 .. sent : x \in ToSet(Brings(asked[i]))
       /\ missed = {} =>
            \A i \in 1 .. sent : i \in flying \/ ToSet(Brings(asked[i])) \subseteq ToSet(answers)
  /\ pc \in {"lists", "list"} \/ Serving("subsonic") =>
       /\ SongsOfItems(cat.items) \subseteq SubsonicSongs
       /\ missed = {} => SubsonicSongs \subseteq SongsOfItems(cat.items)

\* The steps of other sources.
Unrelated ==
  /\ pc' \notin {"artists", "albums", "lists", "list"}
  /\ pc' = "serving" => args'.source # "subsonic"

\* No step is of another form.
LEMMA AnswersForm ==
  ASSUME [Next]_vars, SourceInv, ServerInv
  PROVE  \/ ArtistsKnown \/ Send \/ AlbumsKnown \/ SongsKnown \/ ListKnown
         \/ \E n \in flying : Answer(n) \/ RequestFails(n)
         \/ ListsKnown \/ ListsFail \/ ListFails \/ ListsDone \/ Unrelated \/ UNCHANGED vars
<1>1. CASE DlnaStep \/ DlnaFails
  <2>1. CASE PageArrives
    BY <2>1 DEF PageArrives, Goes, common, Unrelated
  <2>2. CASE ~PageArrives
    BY <1>1, <2>2 DEF DlnaStep, DlnaFails, ByUrl, BySearch, SearchOver, ConnectFails,
       LoadCache, CacheMiss, Reply, NextEntry, BrowseFails, NoSuchObject, Built, WriteTmp,
       RenameTmp, SaveFails, Goes, common, Unrelated, ServerInv, Connected
  <2> QED BY <2>1, <2>2
<1>2. CASE (SubsonicStep \/ SubsonicFails) /\ UNCHANGED dlnaVars
  BY <1>2 DEF SubsonicStep, SubsonicFails, TakeCredentials, Pong, ServerFails, Steps, Unrelated
<1>3. CASE (FsStep \/ FsFails) /\ UNCHANGED dlnaVars
  BY <1>3 DEF FsStep, FsFails, Scan, Scanned, WalkFile, WalkError, common, Unrelated,
              SourceInv
<1>4. CASE Restart
  BY <1>4 DEF Restart, Begins, Unrelated
<1> QED BY <1>1, <1>2, <1>3, <1>4 DEF Next, Step, Fails, Done

\* An answer adds what it brings.
LEMMA AnswerAnswersInv ==
  ASSUME AnswersInv, AskedInv, WindowInv, NEW n \in flying, Answer(n)
  PROVE  AnswersInv'
<1>1. /\ pc \in {"artists", "albums"} /\ flying' = flying \ {n} /\ n \in 1 .. sent
      /\ answers' = answers \o Brings(asked[n])
      /\ UNCHANGED <<args, pc, cat, missed, asked, sent>>
  BY DEF Answer, common, WindowInv
<1>2. \A id : Brings(id)' = Brings(id)
  BY <1>1 DEF Brings
<1>3. n \in 1 .. Len(asked)
  <2>1. sent <= Len(asked) /\ Len(asked) \in Nat /\ sent \in Nat
    BY <1>1 DEF AskedInv, WindowInv
  <2> QED BY <1>1, <2>1
<1>4. IsSeq(answers) /\ IsSeq(Brings(asked[n]))
  <2>1. CASE pc = "artists"
    <3>1. asked[n] \in DOMAIN AlbumsOf /\ answers \in Seq(DOMAIN SongsOf)
      BY <1>3, <2>1, ElementOfSeq DEF AskedInv
    <3> QED BY <2>1, <3>1, SubsonicAssumption DEF Brings, IsSeq
  <2>2. CASE pc = "albums"
    <3>1. asked[n] \in DOMAIN SongsOf /\ IsSeq(answers)
      BY <1>3, <2>2, ElementOfSeq DEF AskedInv
    <3> QED BY <2>2, <3>1, SubsonicAssumption DEF Brings, IsSeq
  <2> QED BY <1>1, <2>1, <2>2
<1>5. ToSet(answers') = ToSet(answers) \cup ToSet(Brings(asked[n]))
  BY <1>1, <1>4, ConcatElements
<1>6. \A x \in ToSet(answers') : \E i \in 1 .. sent : x \in ToSet(Brings(asked[i]))
  BY <1>1, <1>5 DEF AnswersInv
<1>7. missed = {} => \A i \in 1 .. sent :
        i \in flying' \/ ToSet(Brings(asked[i])) \subseteq ToSet(answers')
  BY <1>1, <1>5 DEF AnswersInv
<1>8. \A x \in ToSet(answers') : \E i \in 1 .. sent : x \in ToSet(Brings(asked[i])')
  BY <1>1, <1>2, <1>6
<1>9. missed = {} => \A i \in 1 .. sent :
        i \in flying' \/ ToSet(Brings(asked[i])') \subseteq ToSet(answers')
  BY <1>1, <1>2, <1>7
<1> QED BY <1>1, <1>8, <1>9 DEF AnswersInv, Brings, Serving

\* All the answers are there: the albums of all artists,
LEMMA AlbumsAnswersInv ==
  ASSUME AnswersInv, AskedInv, WindowInv, AlbumsKnown
  PROVE  AnswersInv'
<1>1. /\ pc = "artists" /\ pc' = "albums" /\ asked' = answers /\ sent' = 0 /\ answers' = <<>>
      /\ sent = Len(asked) /\ flying = {} /\ missed' = missed /\ asked = Artists
  BY DEF AlbumsKnown, AllAnswered, AsksFor, Steps, AnswersInv
<1>2. IsSeq(Artists) /\ ToSet(Artists) = {Artists[i] : i \in 1 .. Len(Artists)}
  BY SubsonicAssumption DEF IsSeq, ToSet
<1>3. \A i \in 1 .. sent : Brings(asked[i]) = AlbumsOf[Artists[i]]
  BY <1>1 DEF Brings
<1>4. ToSet(answers) \subseteq AlbumsHeld
  BY <1>1, <1>2, <1>3 DEF AnswersInv, AlbumsHeld
<1>5. missed = {} => AlbumsHeld \subseteq ToSet(answers)
  BY <1>1, <1>2, <1>3 DEF AnswersInv, AlbumsHeld
<1>6. ToSet(<<>>) = {}
  BY EmptyElements
<1> QED BY <1>1, <1>4, <1>5, <1>6 DEF AnswersInv, Serving

\* or the songs of all albums.
LEMMA SongsAnswersInv ==
  ASSUME AnswersInv, AskedInv, WindowInv, CatsInv, SongsKnown
  PROVE  AnswersInv'
<1>1. /\ pc = "albums" /\ pc' = "lists" /\ sent = Len(asked) /\ flying = {} /\ missed' = missed
      /\ cat'.items = NumberedFrom(answers, 1)
      /\ IsSeq(answers) /\ asked \in Seq(DOMAIN SongsOf)
  BY DEF SongsKnown, AllAnswered, AsksFor, Steps, AskedInv, CatsInv, Numbered
<1>2. SongsOfItems(cat'.items) = {x.song : x \in ToSet(answers)}
  BY <1>1, NumberedSongs DEF SongsOfItems
<1>3. ToSet(asked) = {asked[i] : i \in 1 .. Len(asked)}
  BY <1>1 DEF ToSet
<1>4. \A i \in 1 .. sent : Brings(asked[i]) = SongsOf[asked[i]]
  BY <1>1 DEF Brings
<1>5. ToSet(asked) \subseteq AlbumsHeld /\ (missed = {} => AlbumsHeld \subseteq ToSet(asked))
  BY <1>1 DEF AnswersInv
<1> DEFINE there == UNION {ToSet(SongsOf[b]) : b \in AlbumsHeld}
<1>6. ToSet(answers) \subseteq there
  BY <1>1, <1>3, <1>4, <1>5 DEF AnswersInv
<1>7. missed = {} => there \subseteq ToSet(answers)
  BY <1>1, <1>3, <1>4, <1>5 DEF AnswersInv
<1>8. SubsonicSongs = {s.song : s \in there}
  BY DEF SubsonicSongs
<1> HIDE DEF there
<1>9. /\ SongsOfItems(cat'.items) \subseteq SubsonicSongs
      /\ missed = {} => SubsonicSongs \subseteq SongsOfItems(cat'.items)
  BY <1>2, <1>6, <1>7, <1>8
<1>10. /\ SongsOfItems(cat.items)' \subseteq SubsonicSongs
       /\ missed' = {} => SubsonicSongs \subseteq SongsOfItems(cat.items)'
  BY <1>1, <1>9
<1> QED BY <1>1, <1>10 DEF AnswersInv, Serving

\* Every step keeps the answers those to what was asked.
LEMMA NextAnswersInv ==
  ASSUME AnswersInv, AskedInv, WindowInv, CatsInv, SourceInv, ServerInv, [Next]_vars
  PROVE  AnswersInv'
<1>1. CASE ArtistsKnown
  BY <1>1, EmptyElements DEF ArtistsKnown, AsksFor, Steps, AnswersInv, Serving
<1>2. CASE Send
  <2>1. /\ pc \in {"artists", "albums"} /\ sent' = sent + 1 /\ flying' = flying \cup {sent + 1}
        /\ sent \in Nat /\ UNCHANGED <<args, pc, cat, missed, asked, answers>>
    BY <1>2 DEF Send, common, WindowInv
  <2>2. \A id : Brings(id)' = Brings(id)
    BY <2>1 DEF Brings
  <2>3. 1 .. sent' = 1 .. sent \cup {sent + 1}
    BY <2>1
  <2> QED BY <2>1, <2>2, <2>3 DEF AnswersInv, Brings, Serving
<1>3. CASE \E n \in flying : Answer(n)
  BY <1>3, AnswerAnswersInv
<1>4. CASE \E n \in flying : RequestFails(n)
  <2>1. /\ pc \in {"artists", "albums"} /\ missed' # {}
        /\ UNCHANGED <<args, pc, cat, asked, sent, answers>>
    BY <1>4 DEF RequestFails
  <2>2. \A id : Brings(id)' = Brings(id)
    BY <2>1 DEF Brings
  <2> QED BY <2>1, <2>2 DEF AnswersInv, Brings, Serving
<1>5. CASE AlbumsKnown
  BY <1>5, AlbumsAnswersInv
<1>6. CASE SongsKnown
  BY <1>6, SongsAnswersInv
<1>7. CASE ListKnown
  <2>1. /\ pc = "list" /\ pc' = "list" /\ missed' = missed
        /\ \E l : cat' = [cat EXCEPT !.playlists = l] \/ cat' = cat
    BY <1>7 DEF ListKnown
  <2>2. cat'.items = cat.items
    BY <2>1 DEF CatsInv, Numbered
  <2> QED BY <2>1, <2>2 DEF AnswersInv, Serving
<1>8. CASE ListsKnown \/ ListsDone
  BY <1>8 DEF ListsKnown, ListsDone, Steps, AnswersInv, Serving
<1>9. CASE ListFails
  BY <1>9 DEF ListFails, AnswersInv, Serving
<1>10. CASE ListsFail
  <2>1. pc = "lists" /\ pc' = "serving" /\ cat' = cat /\ missed' = missed \cup ToSet(ServerLists)
    BY <1>10 DEF ListsFail, Steps
  <2> QED BY <2>1 DEF AnswersInv, Serving
<1>11. CASE Unrelated
  BY <1>11 DEF Unrelated, AnswersInv, Serving
<1>12. CASE UNCHANGED vars
  BY <1>12 DEF vars, common, subsonicVars, AnswersInv, Brings, Serving
<1> QED
  BY <1>1, <1>2, <1>3, <1>4, <1>5, <1>6, <1>7, <1>8, <1>9, <1>10, <1>11, <1>12, AnswersForm

-----------------------------------------------------------------------------
(* The catalogue of a directory: its files in the order of their paths *)

\* The place i where p first differs from a path after it.
Differs(p, q, i) ==
  /\ i \in 1 .. Len(p) + 1 /\ i <= Len(q)
  /\ \A j \in 1 .. i - 1 : p[j] = q[j]
  /\ i <= Len(p) => p[i] < q[i]

\* Prefixes are the same when all of their names are.
LEMMA SamePrefix ==
  ASSUME NEW p \in Seq(Nat), NEW q \in Seq(Nat), NEW k \in Nat, k <= Len(p), k <= Len(q)
  PROVE  SubSeq(p, 1, k) = SubSeq(q, 1, k) <=> \A j \in 1 .. k : p[j] = q[j]
<1>1. /\ SubSeq(p, 1, k) \in Seq(Nat) /\ Len(SubSeq(p, 1, k)) = k
      /\ \A j \in 1 .. k : SubSeq(p, 1, k)[j] = p[j]
  <2>1. \A j \in 1 .. k : p[j] \in Nat
    BY ElementOfSeq
  <2> QED BY <2>1, SubSeqProperties
<1>2. /\ SubSeq(q, 1, k) \in Seq(Nat) /\ Len(SubSeq(q, 1, k)) = k
      /\ \A j \in 1 .. k : SubSeq(q, 1, k)[j] = q[j]
  <2>1. \A j \in 1 .. k : q[j] \in Nat
    BY ElementOfSeq
  <2> QED BY <2>1, SubSeqProperties
<1> DEFINE a == SubSeq(p, 1, k)
           b == SubSeq(q, 1, k)
<1> HIDE DEF a, b
<1>3. ASSUME \A j \in 1 .. k : p[j] = q[j] PROVE a = b
  <2>1. Len(a) = Len(b) /\ \A j \in 1 .. Len(a) : a[j] = b[j]
    BY <1>1, <1>2, <1>3 DEF a, b
  <2> QED BY <1>1, <1>2, <2>1, SeqEqual DEF a, b
<1>4. ASSUME a = b, NEW j \in 1 .. k PROVE p[j] = q[j]
  BY <1>1, <1>2, <1>4 DEF a, b
<1> QED BY <1>3, <1>4 DEF a, b

\* Where the first path is before the second, they differ in this way.
LEMMA BeforeDiffers ==
  ASSUME NEW p \in Seq(Nat), NEW q \in Seq(Nat)
  PROVE  PathBefore(p, q) <=> \E i : Differs(p, q, i)
<1>0. Len(p) \in Nat /\ Len(q) \in Nat
  OBVIOUS
<1>1. SubSeq(p, 1, Len(p)) = p
  BY SubSeqFull
<1>2. ASSUME Len(p) < Len(q)
      PROVE  p = SubSeq(q, 1, Len(p)) <=> \A j \in 1 .. Len(p) : p[j] = q[j]
  BY <1>0, <1>1, <1>2, SamePrefix
<1>3. ASSUME NEW i \in 1 .. Len(p), i <= Len(q)
      PROVE  SubSeq(p, 1, i - 1) = SubSeq(q, 1, i - 1) <=> \A j \in 1 .. i - 1 : p[j] = q[j]
  <2>1. i - 1 \in Nat /\ i - 1 <= Len(p) /\ i - 1 <= Len(q)
    BY <1>0, <1>3
  <2> QED BY <2>1, SamePrefix
<1>4. ASSUME PathBefore(p, q) PROVE \E i : Differs(p, q, i)
  <2>1. CASE Len(p) < Len(q) /\ p = SubSeq(q, 1, Len(p))
    <3>1. \A j \in 1 .. Len(p) + 1 - 1 : p[j] = q[j]
      BY <1>0, <1>2, <2>1
    <3>2. Differs(p, q, Len(p) + 1)
      BY <1>0, <2>1, <3>1 DEF Differs
    <3> QED BY <3>2
  <2>2. CASE \E i \in 1 .. Len(p) : i <= Len(q) /\ p[i] < q[i]
                                   /\ SubSeq(p, 1, i - 1) = SubSeq(q, 1, i - 1)
    <3>1. PICK i \in 1 .. Len(p) : i <= Len(q) /\ p[i] < q[i]
                                   /\ SubSeq(p, 1, i - 1) = SubSeq(q, 1, i - 1)
      BY <2>2
    <3>2. Differs(p, q, i)
      BY <1>0, <1>3, <3>1 DEF Differs
    <3> QED BY <3>2
  <2> QED BY <1>4, <2>1, <2>2 DEF PathBefore
<1>5. ASSUME NEW i, Differs(p, q, i) PROVE PathBefore(p, q)
  <2>1. CASE i <= Len(p)
    BY <1>0, <1>3, <1>5, <2>1 DEF Differs, PathBefore
  <2>2. CASE ~(i <= Len(p))
    <3>1. i = Len(p) + 1 /\ Len(p) < Len(q)
      BY <1>0, <1>5, <2>2 DEF Differs
    <3>2. \A j \in 1 .. Len(p) : p[j] = q[j]
      BY <1>0, <1>5, <3>1 DEF Differs
    <3> QED BY <1>2, <3>1, <3>2 DEF PathBefore
  <2> QED BY <2>1, <2>2
<1> QED BY <1>4, <1>5

\* It is a strict total order.
LEMMA BeforeIrreflexive ==
  ASSUME NEW p \in Seq(Nat)
  PROVE  ~PathBefore(p, p)
<1>1. ASSUME NEW i, Differs(p, p, i) PROVE FALSE
  <2>1. Len(p) \in Nat /\ i \in 1 .. Len(p) /\ p[i] < p[i]
    BY <1>1 DEF Differs
  <2>2. p[i] \in Nat
    BY <2>1, ElementOfSeq
  <2> QED BY <2>1, <2>2
<1> QED BY <1>1, BeforeDiffers

\* transitive,
LEMMA BeforeTransitive ==
  ASSUME NEW p \in Seq(Nat), NEW q \in Seq(Nat), NEW r \in Seq(Nat),
         PathBefore(p, q), PathBefore(q, r)
  PROVE  PathBefore(p, r)
<1>1. PICK i : Differs(p, q, i)
  BY BeforeDiffers
<1>2. PICK k : Differs(q, r, k)
  BY BeforeDiffers
<1>3. Len(p) \in Nat /\ Len(q) \in Nat /\ Len(r) \in Nat
  OBVIOUS
<1>4. /\ \A j \in 1 .. Len(p) : p[j] \in Nat
      /\ \A j \in 1 .. Len(q) : q[j] \in Nat
      /\ \A j \in 1 .. Len(r) : r[j] \in Nat
  BY ElementOfSeq
<1> DEFINE m == IF k < i THEN k ELSE i
<1>5. m \in 1 .. Len(p) + 1 /\ m <= Len(r) /\ \A j \in 1 .. m - 1 : p[j] = r[j]
  BY SMTT(40), <1>1, <1>2, <1>3 DEF Differs
<1>6. m <= Len(p) => p[m] < r[m]
  <2>1. CASE k < i
    BY <1>1, <1>2, <1>3, <1>4, <2>1 DEF Differs
  <2>2. CASE i < k
    <3> SUFFICES ASSUME i <= Len(p) PROVE p[i] < r[i]
      BY SMTT(40), <1>1, <1>2, <1>3, <2>2 DEF Differs
    <3>1. p[i] < q[i] /\ i \in 1 .. Len(p) /\ i \in 1 .. Len(q)
      BY <1>1, <1>3 DEF Differs
    <3>2. i \in 1 .. k - 1 /\ k \in Nat
      BY <1>2, <1>3, <2>2, <3>1 DEF Differs
    <3>3. q[i] = r[i]
      BY <1>2, <3>2 DEF Differs
    <3> QED BY <3>1, <3>3
  <2>3. CASE i = k
    BY SMTT(40), <1>1, <1>2, <1>3, <1>4, <2>3 DEF Differs
  <2> QED BY <1>1, <1>2, <1>3, <2>1, <2>2, <2>3 DEF Differs
<1> HIDE DEF m
<1>7. Differs(p, r, m)
  BY <1>5, <1>6 DEF Differs
<1> QED BY <1>7, BeforeDiffers

\* and total.
LEMMA BeforeTotal ==
  ASSUME NEW p \in Seq(Nat), NEW q \in Seq(Nat), p # q
  PROVE  PathBefore(p, q) \/ PathBefore(q, p)
<1>0. Len(p) \in Nat /\ Len(q) \in Nat
  OBVIOUS
<1>1. /\ \A j \in 1 .. Len(p) : p[j] \in Nat
      /\ \A j \in 1 .. Len(q) : q[j] \in Nat
  BY ElementOfSeq
<1> DEFINE D == {j \in 1 .. Len(p) : j <= Len(q) /\ p[j] # q[j]}
<1>2. CASE D = {}
  <2>0. \A j \in 1 .. Len(p) : j <= Len(q) => p[j] = q[j]
    BY <1>2
  <2>1. Len(p) # Len(q)
    <3> SUFFICES ASSUME Len(p) = Len(q) PROVE FALSE
      OBVIOUS
    <3>1. \A j \in 1 .. Len(p) : p[j] = q[j]
      BY SMTT(40), <1>0, <1>2
    <3> QED BY <3>1, SeqEqual
  <2>2. CASE Len(p) < Len(q)
    <3>1. Differs(p, q, Len(p) + 1)
      BY <1>0, <2>0, <2>2 DEF Differs
    <3> QED BY <3>1, BeforeDiffers
  <2>3. CASE Len(q) < Len(p)
    <3>1. Differs(q, p, Len(q) + 1)
      BY <1>0, <2>0, <2>3 DEF Differs
    <3> QED BY <3>1, BeforeDiffers
  <2> QED BY <1>0, <2>1, <2>2, <2>3
<1>3. CASE D # {}
  <2>1. D \subseteq Nat
    OBVIOUS
  <2> HIDE DEF D
  <2>2. PICK i \in D : \A j \in D : i <= j
    BY <1>3, <2>1, Least
  <2>3. i \in 1 .. Len(p) /\ i <= Len(q) /\ p[i] # q[i]
    BY <2>2 DEF D
  <2>4. \A j \in 1 .. i - 1 : p[j] = q[j]
    <3> SUFFICES ASSUME NEW j \in 1 .. i - 1, p[j] # q[j] PROVE FALSE
      OBVIOUS
    <3>1. j \in 1 .. Len(p) /\ j <= Len(q) /\ ~(i <= j)
      BY <1>0, <2>3
    <3>2. j \in D
      BY <3>1 DEF D
    <3> QED BY <2>2, <3>1, <3>2
  <2>5. p[i] < q[i] \/ q[i] < p[i]
    BY <1>0, <1>1, <2>3
  <2>6. Differs(p, q, i) \/ Differs(q, p, i)
    BY <1>0, <2>3, <2>4, <2>5 DEF Differs
  <2> QED BY <2>6, BeforeDiffers
<1> QED BY <1>2, <1>3

\* A directory's files: finitely many, each with a path of its own.
IsDirectory(S) ==
  /\ IsFiniteSet(S)
  /\ \A f \in S : f.path \in Seq(Nat)
  /\ \A f, g \in S : f.path = g.path => f = g

\* Of a finite set, a strict total order, and how many members go before one.
Orders(B, S) ==
  /\ IsFiniteSet(S)
  /\ \A x \in S : <<x, x>> \notin B
  /\ \A x, y, z \in S : <<x, y>> \in B /\ <<y, z>> \in B => <<x, z>> \in B
  /\ \A x, y \in S : x # y => <<x, y>> \in B \/ <<y, x>> \in B

\* How many members go before one.
RankIn(B, S, x) == Cardinality({y \in S : <<y, x>> \in B})

\* A rank is a place,
LEMMA RankType ==
  ASSUME NEW S, NEW B, Orders(B, S), NEW x \in S
  PROVE  RankIn(B, S, x) \in 0 .. Cardinality(S) - 1
<1> DEFINE R == {y \in S : <<y, x>> \in B}
<1>1. R \subseteq S \ {x}
  BY DEF Orders
<1>2. IsFiniteSet(S \ {x}) /\ Cardinality(S \ {x}) = Cardinality(S) - 1
  BY FS_RemoveElement DEF Orders
<1> HIDE DEF R
<1>3. IsFiniteSet(R) /\ Cardinality(R) <= Cardinality(S \ {x})
  BY <1>1, <1>2, FS_Subset
<1>4. Cardinality(R) \in Nat /\ Cardinality(S) \in Nat
  BY <1>3, FS_CardinalityType DEF Orders
<1>5. RankIn(B, S, x) = Cardinality(R)
  BY DEF RankIn, R
<1> QED BY <1>2, <1>3, <1>4, <1>5

\* which grows with the order
LEMMA RankGrows ==
  ASSUME NEW S, NEW B, Orders(B, S), NEW x \in S, NEW z \in S, <<x, z>> \in B
  PROVE  RankIn(B, S, x) < RankIn(B, S, z)
<1> DEFINE R(a) == {y \in S : <<y, a>> \in B}
<1>1. x \notin R(x) /\ R(x) \cup {x} \subseteq R(z) /\ R(x) \subseteq S /\ R(z) \subseteq S
  BY DEF Orders
<1>2. RankIn(B, S, x) = Cardinality(R(x)) /\ RankIn(B, S, z) = Cardinality(R(z))
  BY DEF RankIn
<1> HIDE DEF R
<1>3. IsFiniteSet(R(x)) /\ IsFiniteSet(R(z))
  BY <1>1, FS_Subset DEF Orders
<1>4. Cardinality(R(x) \cup {x}) = Cardinality(R(x)) + 1
  BY <1>1, <1>3, FS_AddElement
<1>5. Cardinality(R(x) \cup {x}) <= Cardinality(R(z))
  BY <1>1, <1>3, FS_Subset
<1>6. Cardinality(R(x)) \in Nat /\ Cardinality(R(z)) \in Nat
  BY <1>3, FS_CardinalityType
<1> QED BY <1>2, <1>4, <1>5, <1>6

\* The lower rank goes before,
LEMMA RankOrders ==
  ASSUME NEW S, NEW B, Orders(B, S), NEW x \in S, NEW z \in S
  PROVE  /\ RankIn(B, S, x) < RankIn(B, S, z) => <<x, z>> \in B
         /\ RankIn(B, S, x) = RankIn(B, S, z) => x = z
<1>1. x # z => <<x, z>> \in B \/ <<z, x>> \in B
  BY DEF Orders
<1>2. <<x, z>> \in B => RankIn(B, S, x) < RankIn(B, S, z)
  BY RankGrows
<1>3. <<z, x>> \in B => RankIn(B, S, z) < RankIn(B, S, x)
  BY RankGrows
<1>4. RankIn(B, S, x) \in Nat /\ RankIn(B, S, z) \in Nat
  <2>1. Cardinality(S) \in Nat
    BY FS_CardinalityType DEF Orders
  <2> QED BY <2>1, RankType
<1> QED BY <1>1, <1>2, <1>3, <1>4

\* and each rank is that of one member.
LEMMA RankOnto ==
  ASSUME NEW S, NEW B, Orders(B, S), NEW r \in 0 .. Cardinality(S) - 1
  PROVE  \E x \in S : RankIn(B, S, x) = r
<1> DEFINE N == Cardinality(S)
           P == 0 .. N - 1
           F == [x \in S |-> RankIn(B, S, x)]
<1>1. N \in Nat /\ IsFiniteSet(S)
  BY FS_CardinalityType DEF Orders
<1>2. IsFiniteSet(P) /\ Cardinality(P) = N
  <2> DEFINE m == N - 1
  <2>1. m \in Int /\ (0 > m <=> N = 0) /\ m - 0 + 1 = N /\ P = 0 .. m
    BY <1>1
  <2> HIDE DEF m, P
  <2>2. IsFiniteSet(0 .. m) /\ Cardinality(0 .. m) = IF 0 > m THEN 0 ELSE m - 0 + 1
    BY <2>1, FS_Interval
  <2> QED BY <2>1, <2>2
<1>3. F \in [S -> P]
  BY RankType
<1>4. \A a, b \in S : F[a] = F[b] => a = b
  BY RankOrders
<1>5. r \in P
  OBVIOUS
<1> HIDE DEF F, P
<1>6. F \in Injection(S, P)
  BY <1>3, <1>4, Fun_IsInj
<1>7. F \in Surjection(S, P)
  BY <1>2, <1>6, FS_Injection
<1>8. \E x \in S : F[x] = r
  BY <1>5, <1>7 DEF Surjection
<1> QED BY <1>8 DEF F

\* A sequence with each member at its rank.
PutInOrder(f, B, S) ==
  /\ IsSeq(f) /\ Len(f) = Cardinality(S)
  /\ \A i \in 1 .. Len(f) : f[i] \in S /\ RankIn(B, S, f[i]) = i - 1

\* It has all members, in order.
LEMMA OrderedHasAll ==
  ASSUME NEW S, NEW B, Orders(B, S), NEW f, PutInOrder(f, B, S)
  PROVE  /\ ToSet(f) = S
         /\ \A i, j \in 1 .. Len(f) : i < j => <<f[i], f[j]>> \in B
<1> DEFINE N == Cardinality(S)
<1>0. N \in Nat /\ Len(f) = N
  BY FS_CardinalityType DEF Orders, PutInOrder
<1>1. ToSet(f) = {f[i] : i \in 1 .. N}
  BY IsSeqDef DEF ToSet, PutInOrder
<1>2. \A i \in 1 .. N : f[i] \in S /\ RankIn(B, S, f[i]) = i - 1
  BY DEF PutInOrder
<1>3. ASSUME NEW x \in S PROVE x \in ToSet(f)
  <2>1. RankIn(B, S, x) \in 0 .. N - 1
    BY RankType
  <2> DEFINE i == RankIn(B, S, x) + 1
  <2>2. i \in 1 .. N /\ i - 1 = RankIn(B, S, x)
    BY <1>0, <2>1
  <2> HIDE DEF i, N
  <2>3. f[i] \in S /\ RankIn(B, S, f[i]) = RankIn(B, S, x)
    BY <1>2, <2>2
  <2>4. f[i] = x
    BY <2>3, RankOrders
  <2> QED BY <1>1, <2>2, <2>4
<1>4. ASSUME NEW i \in 1 .. N, NEW j \in 1 .. N, i < j
      PROVE  <<f[i], f[j]>> \in B
  <2>1. RankIn(B, S, f[i]) < RankIn(B, S, f[j])
    BY <1>0, <1>2, <1>4
  <2> QED BY <1>2, <2>1, RankOrders
<1> QED BY <1>0, <1>1, <1>2, <1>3, <1>4

\* Every entry is at one place.
OncePerFile(s) == \A i, j \in 1 .. Len(s) : s[i] = s[j] => i = j

\* Such a sequence has as many elements as places.
LEMMA EntriesCount ==
  ASSUME NEW s, IsSeq(s), OncePerFile(s)
  PROVE  Cardinality(ToSet(s)) = Len(s)
<1> DEFINE F == [i \in 1 .. Len(s) |-> s[i]]
<1>0. Len(s) \in Nat /\ ToSet(s) = {s[i] : i \in 1 .. Len(s)}
  BY IsSeqLen, IsSeqDef DEF ToSet
<1>1. IsFiniteSet(1 .. Len(s)) /\ Cardinality(1 .. Len(s)) = Len(s)
  BY SMTT(40), <1>0, FS_Interval
<1>2. F \in [1 .. Len(s) -> ToSet(s)] /\ \A e \in ToSet(s) : \E i \in 1 .. Len(s) : F[i] = e
  BY <1>0
<1>3. \A i, j \in 1 .. Len(s) : F[i] = F[j] => i = j
  BY DEF OncePerFile
<1> HIDE DEF F
<1>4. F \in Bijection(1 .. Len(s), ToSet(s))
  BY <1>2, <1>3, Fun_IsBij
<1>5. ExistsBijection(1 .. Len(s), ToSet(s))
  BY <1>4 DEF ExistsBijection
<1> QED BY <1>1, <1>5, FS_Bijection

\* Sorting puts every file once, and the files in the order of their paths.
PathOrder(S) == {p \in S \X S : PathBefore(p[1].path, p[2].path)}

\* It orders the files of a directory.
LEMMA PathsOrder ==
  ASSUME NEW S, IsDirectory(S)
  PROVE  Orders(PathOrder(S), S)
<1>1. \A x, y \in S : <<x, y>> \in PathOrder(S) <=> PathBefore(x.path, y.path)
  BY DEF PathOrder
<1> DEFINE B == PathOrder(S)
<1> HIDE DEF B
<1>2. \A x \in S : <<x, x>> \notin B
  BY <1>1, BeforeIrreflexive DEF IsDirectory, B
<1>3. \A x, y, z \in S : <<x, y>> \in B /\ <<y, z>> \in B => <<x, z>> \in B
  <2> SUFFICES ASSUME NEW x \in S, NEW y \in S, NEW z \in S,
                      PathBefore(x.path, y.path), PathBefore(y.path, z.path)
               PROVE  PathBefore(x.path, z.path)
    BY <1>1 DEF B
  <2> QED BY BeforeTransitive DEF IsDirectory
<1>4. \A x, y \in S : x # y => <<x, y>> \in B \/ <<y, x>> \in B
  <2> SUFFICES ASSUME NEW x \in S, NEW y \in S, x # y
               PROVE  PathBefore(x.path, y.path) \/ PathBefore(y.path, x.path)
    BY <1>1 DEF B
  <2>1. x.path # y.path /\ x.path \in Seq(Nat) /\ y.path \in Seq(Nat)
    BY DEF IsDirectory
  <2> QED BY <2>1, BeforeTotal
<1> QED BY <1>2, <1>3, <1>4 DEF Orders, IsDirectory, B

\* The sort returns the files that were found, each once, in the order of their paths.
LEMMA SortedFiles ==
  ASSUME NEW s, IsSeq(s), OncePerFile(s), IsDirectory(ToSet(s))
  PROVE  /\ IsSeq(Sorted(s)) /\ Len(Sorted(s)) = Len(s) /\ ToSet(Sorted(s)) = ToSet(s)
         /\ \A i, j \in 1 .. Len(s) : i < j => PathBefore(Sorted(s)[i].path, Sorted(s)[j].path)
<1> DEFINE S == ToSet(s)
           B == PathOrder(S)
           f == Sorted(s)
<1>1. Cardinality(S) = Len(s)
  BY EntriesCount
<1>2. Orders(B, S)
  BY PathsOrder
<1>3. Len(s) \in Nat /\ \A x \in S : RankIn(B, S, x) = Cardinality({g \in S : PathBefore(g.path, x.path)})
  <2> SUFFICES ASSUME NEW x \in S
               PROVE  RankIn(B, S, x) = Cardinality({g \in S : PathBefore(g.path, x.path)})
    BY IsSeqLen
  <2>1. {g \in S : PathBefore(g.path, x.path)} = {g \in S : <<g, x>> \in B}
    BY DEF PathOrder
  <2> QED BY <2>1 DEF RankIn
<1>4. PutInOrder(f, B, S)
  <2>1. f \in [1 .. Len(s) -> {f[i] : i \in 1 .. Len(s)}]
    BY DEF Sorted
  <2>2. ASSUME NEW i \in 1 .. Len(s)
        PROVE  f[i] = CHOOSE x \in S : Cardinality({g \in S : PathBefore(g.path, x.path)}) = i - 1
    BY DEF Sorted
  <2> HIDE DEF f, B, S
  <2>3. IsSeq(f) /\ Len(f) = Len(s)
    BY <1>3, <2>1, FunctionIsSeq
  <2>4. ASSUME NEW i \in 1 .. Len(s)
        PROVE  f[i] \in S /\ RankIn(B, S, f[i]) = i - 1
    <3>1. i - 1 \in 0 .. Cardinality(S) - 1
      BY <1>1, <1>3
    <3>2. \E x \in S : Cardinality({g \in S : PathBefore(g.path, x.path)}) = i - 1
      BY <1>2, <1>3, <3>1, RankOnto
    <3>3. f[i] \in S /\ Cardinality({g \in S : PathBefore(g.path, f[i].path)}) = i - 1
      BY <2>2, <3>2
    <3> QED BY <1>3, <3>3
  <2> QED BY <1>1, <2>3, <2>4 DEF PutInOrder
<1> HIDE DEF f, B, S
<1>5. ToSet(f) = S /\ \A i, j \in 1 .. Len(f) : i < j => <<f[i], f[j]>> \in B
  BY <1>2, <1>4, OrderedHasAll
<1>6. IsSeq(f) /\ Len(f) = Len(s)
  BY <1>1, <1>4 DEF PutInOrder
<1>7. \A i, j \in 1 .. Len(s) : i < j => PathBefore(f[i].path, f[j].path)
  <2> SUFFICES ASSUME NEW i \in 1 .. Len(s), NEW j \in 1 .. Len(s), i < j
               PROVE  PathBefore(f[i].path, f[j].path)
    OBVIOUS
  <2> DEFINE p == <<f[i], f[j]>>
  <2>1. p \in B /\ p[1] = f[i] /\ p[2] = f[j]
    BY <1>5, <1>6
  <2> HIDE DEF p
  <2> QED BY <2>1 DEF B, PathOrder
<1> QED BY <1>5, <1>6, <1>7 DEF f, S

\* Numbers in their order.
LEMMA NumbersInOrder ==
  ASSUME NEW S, IsFiniteSet(S), S \subseteq Nat
  PROVE  /\ IsSeq(InOrder(S)) /\ ToSet(InOrder(S)) = S
         /\ \A i, j \in 1 .. Len(InOrder(S)) : i < j => InOrder(S)[i] < InOrder(S)[j]
<1>1. \A x, y \in Nat : <<x, y>> \in Below <=> x < y
  BY DEF Below
<1>2. Orders(Below, S)
  BY <1>1 DEF Orders
<1> DEFINE f == InOrder(S)
<1>3. /\ Cardinality(S) \in Nat
      /\ \A x \in S : RankIn(Below, S, x) = Cardinality({m \in S : m < x})
  <2> SUFFICES ASSUME NEW x \in S
               PROVE  RankIn(Below, S, x) = Cardinality({m \in S : m < x})
    BY FS_CardinalityType
  <2>1. {m \in S : m < x} = {m \in S : <<m, x>> \in Below}
    BY <1>1
  <2> QED BY <2>1 DEF RankIn
<1>4. PutInOrder(f, Below, S)
  <2> DEFINE N == Cardinality(S)
  <2>1. f \in [1 .. N -> {f[i] : i \in 1 .. N}]
    BY DEF InOrder
  <2>2. ASSUME NEW i \in 1 .. N
        PROVE  f[i] = CHOOSE x \in S : Cardinality({m \in S : m < x}) = i - 1
    BY DEF InOrder
  <2> HIDE DEF f
  <2>3. IsSeq(f) /\ Len(f) = N
    BY <1>3, <2>1, FunctionIsSeq
  <2>4. ASSUME NEW i \in 1 .. N
        PROVE  f[i] \in S /\ RankIn(Below, S, f[i]) = i - 1
    <3>1. i - 1 \in 0 .. Cardinality(S) - 1
      BY <1>3
    <3>2. \E x \in S : Cardinality({m \in S : m < x}) = i - 1
      <4> DEFINE r == i - 1
      <4>1. r \in 0 .. Cardinality(S) - 1
        BY <3>1
      <4> HIDE DEF r
      <4>2. PICK x \in S : RankIn(Below, S, x) = r
        BY ONLY <1>2, <4>1, RankOnto
      <4> QED BY <1>3, <4>2 DEF r
    <3>3. f[i] \in S /\ Cardinality({m \in S : m < f[i]}) = i - 1
      BY <2>2, <3>2
    <3> QED BY <1>3, <3>3
  <2> QED BY <2>3, <2>4 DEF PutInOrder
<1> HIDE DEF f
<1>5. ToSet(f) = S /\ \A i, j \in 1 .. Len(f) : i < j => <<f[i], f[j]>> \in Below
  BY <1>2, <1>4, OrderedHasAll
<1>6. IsSeq(f) /\ \A i \in 1 .. Len(f) : f[i] \in Nat
  BY <1>4 DEF PutInOrder
<1> QED BY <1>1, <1>5, <1>6 DEF f

\* The walk comes to each file once, and what it found, unless something could
\* not be read, is what it came to; the catalogue is what it found.
WalkInv ==
  /\ walk \subseteq Files
  /\ pc = "start" => scanned = <<>>
  /\ pc = "walk" => /\ OncePerFile(scanned)
                    /\ ToSet(scanned) \subseteq AudioFiles \ walk
                    /\ missed = {} => AudioFiles \subseteq ToSet(scanned) \cup walk
  /\ Serving("fs") =>
       /\ SongsOfItems(cat.items) \subseteq {f.path : f \in AudioFiles}
       /\ missed = {} => {f.path : f \in AudioFiles} \subseteq SongsOfItems(cat.items)

\* The steps of other sources.
NotOfFs ==
  /\ UNCHANGED fsVars
  /\ pc' \notin {"start", "walk"}
  /\ pc' = "serving" => args'.source # "fs"

\* No step is of another form.
LEMMA WalkForm ==
  ASSUME [Next]_vars, SourceInv, ServerInv
  PROVE  \/ Scan \/ Scanned \/ \E f \in walk : WalkFile(f) \/ WalkError(f)
         \/ NotOfFs \/ Restart \/ UNCHANGED vars
<1>1. CASE (DlnaStep \/ DlnaFails) /\ UNCHANGED fsVars
  <2>1. CASE PageArrives
    BY <1>1, <2>1 DEF PageArrives, Goes, common, NotOfFs
  <2>2. CASE ~PageArrives
    BY <1>1, <2>2 DEF DlnaStep, DlnaFails, ByUrl, BySearch, SearchOver, ConnectFails,
       LoadCache, CacheMiss, Reply, NextEntry, BrowseFails, NoSuchObject, Built, WriteTmp,
       RenameTmp, SaveFails, Goes, common, NotOfFs, ServerInv, Connected
  <2> QED BY <2>1, <2>2
<1>2. CASE (SubsonicStep \/ SubsonicFails) /\ UNCHANGED fsVars
  BY <1>2 DEF SubsonicStep, SubsonicFails, TakeCredentials, Pong, ArtistsKnown, AlbumsKnown,
              SongsKnown, Send, Answer, RequestFails, ListsKnown, common, SourceInv,
              ListKnown, ListsDone, ServerFails, ListsFail, ListFails, Steps, NotOfFs
<1>3. CASE FsStep \/ FsFails
  BY <1>3 DEF FsStep, FsFails
<1> QED BY <1>1, <1>2, <1>3 DEF Next, Step, Fails, Done

\* An element that is appended is there.
LEMMA AppendElements ==
  ASSUME NEW s, IsSeq(s), NEW x
  PROVE  ToSet(Append(s, x)) = ToSet(s) \cup {x}
<1>1. /\ IsSeq(Append(s, x)) /\ Len(Append(s, x)) = Len(s) + 1
      /\ \A i \in 1 .. Len(s) + 1 : Append(s, x)[i] = IF i = Len(s) + 1 THEN x ELSE s[i]
  BY AppendIsSeq
<1>2. Len(s) \in Nat
  BY IsSeqLen
<1>3. ToSet(s) = {s[i] : i \in 1 .. Len(s)}
  BY IsSeqDef DEF ToSet
<1>4. ToSet(Append(s, x)) = {Append(s, x)[i] : i \in 1 .. Len(s) + 1}
  BY <1>1, IsSeqDef DEF ToSet
<1> QED BY <1>1, <1>2, <1>3, <1>4

\* A file is walked once,
LEMMA FileWalkInv ==
  ASSUME WalkInv, ScanInv, NEW f \in walk, WalkFile(f)
  PROVE  WalkInv'
<1>1. /\ pc = "walk" /\ walk' = walk \ {f} /\ UNCHANGED <<args, pc, cat, missed>>
      /\ scanned' = IF f.ext \in AudioExts THEN Append(scanned, f) ELSE scanned
      /\ f \in Files
  BY DEF WalkFile, common, WalkInv
<1>2. /\ OncePerFile(scanned) /\ ToSet(scanned) \subseteq AudioFiles \ walk
      /\ missed = {} => AudioFiles \subseteq ToSet(scanned) \cup walk
      /\ IsSeq(scanned)
  BY <1>1 DEF WalkInv, ScanInv
<1>3. CASE f.ext \in AudioExts
  <2>1. scanned' = Append(scanned, f) /\ f \in AudioFiles
    BY <1>1, <1>3 DEF AudioFiles
  <2>2. ToSet(scanned') = ToSet(scanned) \cup {f}
    BY <1>2, <2>1, AppendElements
  <2>3. OncePerFile(scanned')
    <3>1. /\ Len(scanned') = Len(scanned) + 1 /\ Len(scanned) \in Nat
          /\ \A i \in 1 .. Len(scanned) + 1 :
               scanned'[i] = IF i = Len(scanned) + 1 THEN f ELSE scanned[i]
      BY <1>2, <2>1, AppendIsSeq, IsSeqLen
    <3>2. \A i \in 1 .. Len(scanned) : scanned[i] # f
      <4>1. ToSet(scanned) = {scanned[i] : i \in 1 .. Len(scanned)}
        BY <1>2, IsSeqDef DEF ToSet
      <4> QED BY <1>2, <4>1
    <3> QED BY <1>2, <3>1, <3>2 DEF OncePerFile
  <2>4. ToSet(scanned') \subseteq AudioFiles \ walk'
    BY <1>1, <1>2, <2>1, <2>2
  <2>5. missed' = {} => AudioFiles \subseteq ToSet(scanned') \cup walk'
    BY <1>1, <1>2, <2>2
  <2>6. walk' \subseteq Files
    BY <1>1 DEF WalkInv
  <2> QED BY <1>1, <2>3, <2>4, <2>5, <2>6 DEF WalkInv, Serving
<1>4. CASE f.ext \notin AudioExts
  <2>1. scanned' = scanned /\ f \notin AudioFiles
    BY <1>1, <1>4 DEF AudioFiles
  <2> QED BY <1>1, <1>2, <2>1 DEF WalkInv, Serving
<1> QED BY <1>3, <1>4

\* the catalogue has all that were walked,
LEMMA ScannedWalkInv ==
  ASSUME WalkInv, ScanInv, Scanned
  PROVE  WalkInv'
<1> DEFINE files == Sorted(scanned)
           made(readable) == [i \in 1 .. Len(files) |->
                                [song |-> files[i].path,
                                 texts |-> TagsOf(files[i], readable)]]
<1>1. /\ pc = "walk" /\ walk = {} /\ pc' = "serving" /\ UNCHANGED <<walk, scanned, missed>>
      /\ OncePerFile(scanned) /\ ToSet(scanned) \subseteq AudioFiles /\ IsSeq(scanned)
      /\ missed = {} => AudioFiles \subseteq ToSet(scanned)
  BY DEF Scanned, WalkInv, fsVars, ScanInv
<1>2. IsDirectory(ToSet(scanned))
  <2>1. ToSet(scanned) \subseteq Files
    BY <1>1 DEF AudioFiles
  <2>2. IsFiniteSet(ToSet(scanned))
    BY <2>1, FsAssumption, FS_Subset
  <2> QED BY <2>1, <2>2, FsAssumption DEF IsDirectory
<1>3. IsSeq(files) /\ Len(files) = Len(scanned) /\ ToSet(files) = ToSet(scanned)
  BY <1>1, <1>2, SortedFiles
<1>4. PICK readable : cat' = [items |-> NumberedFrom(made(readable), 1),
                              playlists |-> SubdirPlaylists(files)]
  BY DEF Scanned, files
<1> HIDE DEF files
<1> DEFINE m == made(readable)
<1>5. IsSeq(m) /\ Len(m) = Len(files) /\ \A i \in 1 .. Len(files) : m[i].song = files[i].path
  <2>1. Len(files) \in Nat
    BY <1>3, IsSeqLen
  <2>2. /\ m \in [1 .. Len(files) -> {m[i] : i \in 1 .. Len(files)}]
        /\ \A i \in 1 .. Len(files) : m[i].song = files[i].path
    OBVIOUS
  <2> HIDE DEF m, made
  <2> QED BY <2>1, <2>2, FunctionIsSeq
<1> HIDE DEF made
<1>6. SongsOfItems(cat'.items) = SongsOfItems(m)
  BY <1>4, <1>5, NumberedSongs
<1> HIDE DEF m
<1>7. ToSet(m) = {m[i] : i \in 1 .. Len(files)} /\ ToSet(files) = {files[i] : i \in 1 .. Len(files)}
  BY <1>3, <1>5, IsSeqDef DEF ToSet
<1>8. SongsOfItems(m) = {f.path : f \in ToSet(files)}
  BY <1>5, <1>7 DEF SongsOfItems
<1>9. SongsOfItems(cat'.items) = {f.path : f \in ToSet(scanned)}
  BY <1>3, <1>6, <1>8
<1>10. /\ SongsOfItems(cat'.items) \subseteq {f.path : f \in AudioFiles}
       /\ missed' = {} => {f.path : f \in AudioFiles} \subseteq SongsOfItems(cat'.items)
  BY <1>1, <1>9
<1> QED BY <1>1, <1>10 DEF WalkInv

\* and so it is in every step.
LEMMA NextWalkInv ==
  ASSUME WalkInv, ScanInv, SourceInv, ServerInv, [Next]_vars
  PROVE  WalkInv'
<1>1. CASE Scan
  <2>1. /\ pc = "start" /\ scanned' = <<>> /\ walk' = Files /\ pc' = "walk"
    BY <1>1 DEF Scan, WalkInv
  <2>2. OncePerFile(<<>>) /\ ToSet(<<>>) = {}
    BY EmptyElements DEF OncePerFile
  <2> QED BY <2>1, <2>2 DEF WalkInv, AudioFiles, Serving
<1>2. CASE Scanned
  BY <1>2, ScannedWalkInv
<1>3. CASE \E f \in walk : WalkFile(f)
  BY <1>3, FileWalkInv
<1>4. CASE \E f \in walk : WalkError(f)
  <2>1. /\ pc = "walk" /\ walk' \subseteq walk /\ scanned' = scanned /\ missed' # {}
        /\ UNCHANGED <<args, pc, cat>>
    BY <1>4 DEF WalkError
  <2> QED BY <2>1 DEF WalkInv, Serving
<1>5. CASE NotOfFs
  BY <1>5 DEF NotOfFs, fsVars, WalkInv, Serving
<1>6. CASE Restart
  BY <1>6 DEF Restart, Begins, FsForgets, WalkInv, Serving
<1>7. CASE UNCHANGED vars
  BY <1>7 DEF vars, common, fsVars, WalkInv, Serving
<1> QED
  BY <1>1, <1>2, <1>3, <1>4, <1>5, <1>6, <1>7, WalkForm

-----------------------------------------------------------------------------
(* Every catalogue *)

\* All of it together: the inductive invariant of the catalogues.
WholeInv ==
  /\ NumberInv /\ ReadInv /\ SourceInv
  /\ QueueInv /\ BuildInv /\ DiskInv
  /\ AnswersInv /\ WalkInv

\* It holds at first
LEMMA InitWholeInv ==
  ASSUME Init, NumberInv
  PROVE  WholeInv
<1>1. pc = "start" /\ cat = Nothing /\ queue = <<>> /\ walk = {} /\ scanned = <<>>
      /\ found = NoneFound /\ start = 0
  BY DEF Init, DlnaInit, FsInit
<1>2. \A k \in Keys : cache[k].state = "absent" /\ tmp[k].state = "absent"
  BY DEF Init, DlnaInit, NoFile
<1>3. ReadInv /\ SourceInv
  BY <1>1 DEF ReadInv, SourceInv
<1>4. QueueInv
  BY <1>1, EmptyIsSeq DEF QueueInv
<1>5. BuildInv /\ AnswersInv /\ WalkInv
  BY <1>1 DEF BuildInv, AnswersInv, WalkInv, Serving
<1>6. DiskInv
  BY <1>2 DEF DiskInv
<1> QED BY <1>3, <1>4, <1>5, <1>6 DEF WholeInv

\* and after every step.
LEMMA NextWholeInv ==
  ASSUME WholeInv, [Next]_vars
  PROVE  WholeInv'
<1>1. /\ CacheInv /\ WindowInv /\ ServerInv /\ FoundInv /\ AskedInv /\ ScanInv /\ CatsInv
      /\ ReadInv /\ SourceInv /\ QueueInv /\ BuildInv /\ DiskInv /\ AnswersInv /\ WalkInv
  BY DEF WholeInv, NumberInv
<1>2. NumberInv'
  BY NextNumberInv DEF WholeInv
<1>3. ReadInv' /\ SourceInv' /\ QueueInv'
  BY <1>1, NextReadInv, NextSourceInv, NextQueueInv
<1>4. BuildInv' /\ DiskInv'
  BY <1>1, NextBuildInv, NextDiskInv
<1>5. AnswersInv' /\ WalkInv'
  BY <1>1, NextAnswersInv, NextWalkInv
<1> QED BY <1>2, <1>3, <1>4, <1>5 DEF WholeInv

\* In every state, what every catalogue has is what was seen of its source.
THEOREM WholeInvariant == Spec => []WholeInv
<1>1. Init /\ NumberInv => WholeInv
  BY InitWholeInv
<1>2. WholeInv /\ [Next]_vars => WholeInv'
  BY NextWholeInv
<1> QED BY <1>1, <1>2, NumberInvariant, PTL DEF Spec

\* What is sound is there.
LEMMA SoundIsThere ==
  ASSUME NEW c, NEW gone, NEW s, NEW root, HeldBy(c, gone, s, root)
  PROVE  /\ SongsOfItems(c.items) \subseteq DlnaSongs(s, root)
         /\ gone = {} => SongsOfItems(c.items) = DlnaSongs(s, root)
<1>1. ASSUME NEW t \in ToSet(c.items)
      PROVE  t.song \in DlnaSongs(s, root)
  <2>1. PICK x \in Reached(s, root) :
          x \in Containers(s) /\ \E e \in ToSet(Holds[s][x]) : MadeFrom(t, e)
    BY <1>1 DEF HeldBy, SoundItems, FromServer
  <2>2. PICK e \in ToSet(Holds[s][x]) : MadeFrom(t, e)
    BY <2>1
  <2>3. e \in ToSet(ListedIn(s, x)) /\ IsAudio(e) /\ e.id = t.song
    BY <2>1, <2>2 DEF ListedIn, MadeFrom
  <2> QED BY <2>3 DEF DlnaSongs
<1>2. SongsOfItems(c.items) \subseteq DlnaSongs(s, root)
  BY <1>1 DEF SongsOfItems
<1> QED BY <1>2 DEF HeldBy

\* A cache file is all of a catalogue or is not read: whatever a crash left,
\* and however the pages came, it holds songs of its server and root only, and
\* all of them unless the start that wrote it had missed a container.
THEOREM CacheStaysSound == Spec => []CacheSound
<1>1. WholeInv => CacheSound
  <2> SUFFICES ASSUME WholeInv PROVE CacheSound
    OBVIOUS
  <2>1. CacheNeverTorn
    BY DEF WholeInv, NumberInv, CacheInv
  <2>2. ASSUME NEW k \in Keys, cache[k].state = "whole"
        PROVE  LET songs == {t.song : t \in ToSet(cache[k].cat.items)}
                   there == DlnaSongs(k[1], k[2])
               IN  /\ songs \subseteq there
                   /\ cache[k].missed = {} => songs = there
    <3>1. HeldBy(cache[k].cat, cache[k].missed, k[1], k[2])
      BY <2>2 DEF WholeInv, DiskInv
    <3>2. /\ SongsOfItems(cache[k].cat.items) \subseteq DlnaSongs(k[1], k[2])
          /\ cache[k].missed = {} =>
               SongsOfItems(cache[k].cat.items) = DlnaSongs(k[1], k[2])
      BY <3>1, SoundIsThere
    <3> QED BY <3>2 DEF SongsOfItems
  <2> QED BY <2>1, <2>2 DEF CacheSound
<1> QED BY <1>1, WholeInvariant, PTL

\* A source that is ready has the songs there are and no other, all of them if
\* nothing was missed: with pages of any length, any total, containers on
\* several paths, answers in any order, files listed in any order, and from a
\* cache as from a build.  An item of a DLNA server has its texts whole,
\* wherever the reader cut them.
THEOREM CatalogueStaysWhole == Spec => []CatalogueWhole
<1>1. WholeInv => CatalogueWhole
  <2> SUFFICES ASSUME WholeInv, pc = "serving"
               PROVE  /\ CatalogueSongs \subseteq SongsThereAre
                      /\ missed = {} => CatalogueSongs = SongsThereAre
                      /\ args.source = "dlna" =>
                           \A t \in ToSet(cat.items) :
                             \E c \in Containers(server) : \E e \in ToSet(Holds[server][c]) :
                               /\ IsAudio(e) /\ e.id = t.song
                               /\ \A tag \in ItemTexts \cap DOMAIN t.texts :
                                    t.texts[tag] = IF tag = "res" THEN TextOf(e, tag)
                                                   ELSE Trim(TextOf(e, tag))
    BY DEF CatalogueWhole
  <2>1. CatalogueSongs = SongsOfItems(cat.items)
    BY DEF CatalogueSongs, SongsOfItems
  <2>2. CASE args.source = "dlna"
    <3>1. HeldBy(cat, missed, server, args.root)
      BY <2>2 DEF WholeInv, BuildInv, Serving
    <3>2. SongsThereAre = DlnaSongs(server, args.root)
      BY <2>2 DEF SongsThereAre
    <3>3. ASSUME NEW t \in ToSet(cat.items)
          PROVE  \E c \in Containers(server) : \E e \in ToSet(Holds[server][c]) :
                   /\ IsAudio(e) /\ e.id = t.song
                   /\ \A tag \in ItemTexts \cap DOMAIN t.texts :
                        t.texts[tag] = IF tag = "res" THEN TextOf(e, tag)
                                       ELSE Trim(TextOf(e, tag))
      <4>1. PICK c \in Containers(server) : \E e \in ToSet(Holds[server][c]) : MadeFrom(t, e)
        BY <3>1, <3>3 DEF HeldBy, SoundItems, FromServer
      <4>2. PICK e \in ToSet(Holds[server][c]) : MadeFrom(t, e)
        BY <4>1
      <4> QED BY <4>2 DEF MadeFrom
    <3> QED BY <2>1, <3>1, <3>2, <3>3, SoundIsThere
  <2>3. CASE args.source = "subsonic"
    <3>1. SongsThereAre = SubsonicSongs
      BY <2>3 DEF SongsThereAre
    <3> QED BY <2>1, <2>3, <3>1 DEF WholeInv, AnswersInv, Serving
  <2>4. CASE args.source = "fs"
    <3>1. SongsThereAre = {f.path : f \in AudioFiles}
      BY <2>4 DEF SongsThereAre
    <3> QED BY <2>1, <2>4, <3>1 DEF WholeInv, WalkInv, Serving
  <2> QED BY <2>2, <2>3, <2>4 DEF WholeInv, SourceInv
<1> QED BY <1>1, WholeInvariant, PTL

-----------------------------------------------------------------------------
(* The playlists of a media server *)

\* The audio items of a listing, and the songs made of its items.
AudioParts(list) == [i \in 1 .. Len(list) |-> IF IsAudio(list[i]) THEN <<list[i]>> ELSE <<>>]

\* Tracks that are those of some elements, in their order.
SongsMatch(tracks, elements) ==
  Len(tracks) = Len(elements) /\ \A i \in 1 .. Len(tracks) : tracks[i].song = elements[i].id

\* They are sequences,
LEMMA AudioPartsSeqs ==
  ASSUME NEW list, Elements(list)
  PROVE  SeqOfSeqs(AudioParts(list)) /\ Len(AudioParts(list)) = Len(list)
<1> DEFINE f == AudioParts(list)
<1>0. Len(list) \in Nat
  BY MadeAreSeqs
<1>1. f = [i \in 1 .. Len(list) |-> f[i]] /\ \A i \in 1 .. Len(list) : IsSeq(f[i])
  BY EmptyIsSeq, OneIsSeq DEF AudioParts
<1> HIDE DEF f
<1>2. SeqOfSeqs(f) /\ Len(f) = Len(list)
  BY <1>0, <1>1, MadeOneByOne
<1> QED BY <1>2 DEF f

\* and joined they are what AudioIn says.
LEMMA AudioInIs ==
  ASSUME NEW s \in Servers, NEW c \in Containers(s)
  PROVE  LET list == Holds[s][c]
         IN  AudioIn(s, c) = Joined(AudioParts(list), Len(list))
<1> DEFINE list == Holds[s][c]
<1>1. Elements(list)
  BY ListingElements
<1>2. AudioIn(s, c) = FlattenSeq(AudioParts(list))
  BY DEF AudioIn, Kept, ListedIn, AudioParts
<1>3. SeqOfSeqs(AudioParts(list)) /\ Len(AudioParts(list)) = Len(list)
  BY <1>1, AudioPartsSeqs
<1> DEFINE parts == AudioParts(list)
<1> HIDE DEF list, parts
<1>4. FlattenSeq(parts) = Joined(parts, Len(parts))
  BY <1>3, JoinedAll DEF SeqOfSeqs, parts
<1> QED BY <1>2, <1>3, <1>4 DEF list, parts

\* Tracks match when both of their parts do,
LEMMA MatchGrows ==
  ASSUME NEW a, NEW b, NEW x, NEW y, IsSeq(a), IsSeq(b), IsSeq(x), IsSeq(y),
         SongsMatch(a, b), SongsMatch(x, y)
  PROVE  SongsMatch(a \o x, b \o y)
<1>0. Len(a) \in Nat /\ Len(b) \in Nat /\ Len(x) \in Nat /\ Len(y) \in Nat
  BY IsSeqLen
<1>1. /\ Len(a \o x) = Len(a) + Len(x)
      /\ \A i \in 1 .. Len(a) + Len(x) :
           (a \o x)[i] = IF i <= Len(a) THEN a[i] ELSE x[i - Len(a)]
  BY ConcatIsSeq
<1>2. /\ Len(b \o y) = Len(b) + Len(y)
      /\ \A i \in 1 .. Len(b) + Len(y) :
           (b \o y)[i] = IF i <= Len(b) THEN b[i] ELSE y[i - Len(b)]
  BY ConcatIsSeq
<1>3. /\ Len(a) = Len(b) /\ Len(x) = Len(y)
      /\ \A i \in 1 .. Len(a) : a[i].song = b[i].id
      /\ \A i \in 1 .. Len(x) : x[i].song = y[i].id
  BY DEF SongsMatch
<1>4. ASSUME NEW i \in 1 .. Len(a) + Len(x)
      PROVE  (a \o x)[i].song = (b \o y)[i].id
  <2>1. CASE i <= Len(a)
    BY <1>0, <1>1, <1>2, <1>3, <2>1
  <2>2. CASE ~(i <= Len(a))
    <3>1. i - Len(a) \in 1 .. Len(x) /\ i \in 1 .. Len(b) + Len(y)
      BY <1>0, <1>3, <2>2
    <3> QED BY ZenonT(60), <1>1, <1>2, <1>3, <2>2, <3>1
  <2> QED BY <2>1, <2>2
<1> QED BY <1>1, <1>2, <1>3, <1>4 DEF SongsMatch

\* when there are none,
LEMMA EmptyMatch == SongsMatch(<<>>, <<>>)
BY DEF SongsMatch

\* and when one does.
LEMMA OneMatches ==
  ASSUME NEW x, NEW e, x.song = e.id
  PROVE  SongsMatch(<<x>>, <<e>>)
BY DEF SongsMatch

\* The first elements of a listing give the tracks of the audio among them.
LEMMA SongsOfListing ==
  ASSUME NEW list, Elements(list), NEW n \in 0 .. Len(list)
  PROVE  SongsMatch(Joined(Itemized(list), n), Joined(AudioParts(list), n))
<1> DEFINE its == Itemized(list)
           aud == AudioParts(list)
           P(m) == m <= Len(list) => SongsMatch(Joined(its, m), Joined(aud, m))
<1>0. /\ Len(list) \in Nat /\ SeqOfSeqs(its) /\ Len(its) = Len(list)
      /\ SeqOfSeqs(aud) /\ Len(aud) = Len(list)
  BY MadeAreSeqs, AudioPartsSeqs
<1>1. P(0)
  BY JoinedNone, EmptyMatch
<1>2. ASSUME NEW m \in Nat, P(m) PROVE P(m + 1)
  <2> SUFFICES ASSUME m + 1 <= Len(list)
               PROVE  SongsMatch(Joined(its, m + 1), Joined(aud, m + 1))
    OBVIOUS
  <2>1. m < Len(list) /\ m <= Len(list) /\ m + 1 \in 1 .. Len(list) /\ m \in 0 .. Len(list)
    BY <1>0
  <2>2. SongsMatch(Joined(its, m), Joined(aud, m))
    BY <1>2, <2>1
  <2>3. SongsMatch(its[m + 1], aud[m + 1])
    <3> DEFINE e == list[m + 1]
    <3>1. Element(e)
      BY <2>1 DEF Elements
    <3>2. its[m + 1] = ItemsMade(e) /\ aud[m + 1] = IF IsAudio(e) THEN <<e>> ELSE <<>>
      BY <2>1 DEF Itemized, AudioParts
    <3> HIDE DEF e, its, aud
    <3>3. CASE IsAudio(e)
      <4>1. PICK x : ItemsMade(e) = <<x>> /\ MadeFrom(x, e)
        BY <3>1, <3>3, ItemMade
      <4>2. x.song = e.id
        BY <4>1 DEF MadeFrom
      <4> QED BY <3>2, <3>3, <4>1, <4>2, OneMatches
    <3>4. CASE ~IsAudio(e)
      <4>1. ItemsMade(e) = <<>>
        BY <3>1, <3>4, ItemMade
      <4> QED BY <3>2, <3>4, <4>1, EmptyMatch
    <3> QED BY <3>3, <3>4
  <2> HIDE DEF its, aud, P
  <2>4. Joined(its, m + 1) = Joined(its, m) \o its[m + 1]
    BY <1>0, <2>1, JoinedNext
  <2>5. Joined(aud, m + 1) = Joined(aud, m) \o aud[m + 1]
    BY <1>0, <2>1, JoinedNext
  <2>6. IsSeq(Joined(its, m)) /\ IsSeq(Joined(aud, m)) /\ IsSeq(its[m + 1]) /\ IsSeq(aud[m + 1])
    BY <1>0, <2>1, JoinedIsSeq DEF SeqOfSeqs
  <2> QED BY <2>2, <2>3, <2>4, <2>5, <2>6, MatchGrows
<1> HIDE DEF P
<1>3. \A m \in Nat : P(m)
  <2> DEFINE G == {m \in Nat : P(m)}
  <2>1. 0 \in G /\ \A m \in Nat : m \in G => m + 1 \in G
    BY <1>1, <1>2
  <2> HIDE DEF G
  <2>2. Nat \subseteq G
    BY <2>1, SetInduction
  <2> QED BY <2>2 DEF G
<1>4. n \in Nat /\ n <= Len(list)
  BY <1>0
<1> QED BY <1>3, <1>4 DEF P

\* The first of some sequences are how all of them begin.
LEMMA JoinedPrefix ==
  ASSUME NEW seqs, SeqOfSeqs(seqs), NEW k \in 0 .. Len(seqs)
  PROVE  LET a == Joined(seqs, k)
             b == Joined(seqs, Len(seqs))
         IN  Len(a) <= Len(b) /\ \A i \in 1 .. Len(a) : b[i] = a[i]
<1> DEFINE a == Joined(seqs, k)
           b == Joined(seqs, Len(seqs))
           n == Len(seqs) - k
           rest == FlattenSeq(Window(seqs, k, n))
<1>0. Len(seqs) \in Nat /\ n \in Nat /\ k \in Nat /\ k + n = Len(seqs)
  BY IsSeqLen DEF SeqOfSeqs
<1>1. b = a \o rest
  <2> HIDE DEF n
  <2>1. k + n <= Len(seqs)
    BY <1>0
  <2>2. Joined(seqs, k + n) = Joined(seqs, k) \o FlattenSeq(Window(seqs, k, n))
    BY <1>0, <2>1, JoinedSplit
  <2> QED BY <1>0, <2>2
<1>2. IsSeq(a)
  BY JoinedIsSeq
<1>3. IsSeq(rest)
  <2> DEFINE w == Window(seqs, k, n)
  <2>1. w = [i \in 1 .. n |-> w[i]] /\ \A i \in 1 .. n : w[i] = seqs[k + i]
    BY DEF Window
  <2>2. \A i \in 1 .. n : k + i \in 1 .. Len(seqs)
    BY <1>0
  <2> HIDE DEF w, n
  <2>3. \A i \in 1 .. n : IsSeq(w[i])
    BY <2>1, <2>2 DEF SeqOfSeqs
  <2>4. SeqOfSeqs(w) /\ Len(w) = n
    BY <1>0, <2>1, <2>3, MadeOneByOne
  <2> QED BY <2>4, FlattenIsSeq DEF SeqOfSeqs, w
<1> HIDE DEF a, b, rest
<1>4. /\ Len(a \o rest) = Len(a) + Len(rest)
      /\ \A i \in 1 .. Len(a) + Len(rest) :
           (a \o rest)[i] = IF i <= Len(a) THEN a[i] ELSE rest[i - Len(a)]
  BY <1>2, <1>3, ConcatIsSeq
<1>5. Len(a) \in Nat /\ Len(rest) \in Nat
  BY <1>2, <1>3, IsSeqLen
<1>6. Len(a) <= Len(b) /\ \A i \in 1 .. Len(a) : b[i] = a[i]
  BY <1>1, <1>4, <1>5
<1> QED BY <1>6 DEF a, b

\* A playlist has n tracks from place k + 1 on, which are the audio items of
\* its container, the first ones if its listing was given up.
HoldsContainer(p, items, gone, s, k, n) ==
  /\ IsSeq(p.tracks) /\ Len(p.tracks) = n
  /\ \A i \in 1 .. n : p.tracks[i] = k + i
  /\ k + n <= Len(items)
  /\ n <= Len(AudioIn(s, p.of))
  /\ \A i \in 1 .. n : items[k + i].song = AudioIn(s, p.of)[i].id
  /\ p.of \notin gone => n = Len(AudioIn(s, p.of))

\* A playlist is such a run of tracks,
ContainerList(p, items, gone, s) ==
  \E k, n \in Nat : HoldsContainer(p, items, gone, s, k, n)

\* as are all of a catalogue.
ListsBuilt(c, gone, s) == \A p \in ToSet(c.playlists) : ContainerList(p, c.items, gone, s)

\* The empty catalogue has no playlist to be wrong.
LEMMA NoListsBuilt == ASSUME NEW gone, NEW s PROVE ListsBuilt(Nothing, gone, s)
BY EmptyElements DEF ListsBuilt, Nothing

\* It stays so when items follow and more is missed.
LEMMA ListStill ==
  ASSUME NEW p, NEW items, IsSeq(items), NEW more, IsSeq(more), NEW gone, NEW gone2,
         gone \subseteq gone2, NEW s, ContainerList(p, items, gone, s)
  PROVE  ContainerList(p, items \o more, gone2, s)
<1>1. PICK k, n \in Nat : HoldsContainer(p, items, gone, s, k, n)
  BY DEF ContainerList
<1>2. /\ Len(items \o more) = Len(items) + Len(more)
      /\ \A i \in 1 .. Len(items) + Len(more) :
           (items \o more)[i] = IF i <= Len(items) THEN items[i] ELSE more[i - Len(items)]
      /\ Len(items) \in Nat /\ Len(more) \in Nat
  BY ConcatIsSeq, IsSeqLen
<1>3. k + n <= Len(items)
  BY <1>1 DEF HoldsContainer
<1>4. k + n <= Len(items \o more)
  BY <1>2, <1>3
<1>5. ASSUME NEW i \in 1 .. n
      PROVE  (items \o more)[k + i] = items[k + i]
  <2>1. k + i \in 1 .. Len(items) + Len(more) /\ k + i <= Len(items)
    BY <1>2, <1>3
  <2> QED BY <1>2, <2>1
<1>6. \A i \in 1 .. n : (items \o more)[k + i].song = AudioIn(s, p.of)[i].id
  BY <1>1, <1>5 DEF HoldsContainer
<1> DEFINE all == items \o more
<1> HIDE DEF all
<1>7. HoldsContainer(p, all, gone2, s, k, n)
  BY <1>1, <1>4, <1>6 DEF HoldsContainer, all
<1> QED BY <1>7 DEF ContainerList, all

\* Nothing of it changes but what is missed.
LEMMA ListsStill ==
  ASSUME NEW c, NEW gone, NEW gone2, gone \subseteq gone2, NEW s, ListsBuilt(c, gone, s)
  PROVE  ListsBuilt(c, gone2, s)
<1>1. ASSUME NEW p \in ToSet(c.playlists) PROVE ContainerList(p, c.items, gone2, s)
  <2>1. PICK k, n \in Nat : HoldsContainer(p, c.items, gone, s, k, n)
    BY DEF ListsBuilt, ContainerList
  <2>2. HoldsContainer(p, c.items, gone2, s, k, n)
    BY <2>1 DEF HoldsContainer
  <2> QED BY <2>2 DEF ContainerList
<1> QED BY <1>1 DEF ListsBuilt

\* The playlist that a listing gives.
LEMMA NewList ==
  ASSUME NEW old, IsSeq(old), NEW new, IsSeq(new), NEW audio, NEW p, NEW s, NEW gone,
         AudioIn(s, p.of) = audio, SongsMatch(new, audio) \/ p.of \in gone,
         Len(new) <= Len(audio), \A i \in 1 .. Len(new) : new[i].song = audio[i].id,
         p.tracks = Ids(NumberedFrom(new, Len(old) + 1))
  PROVE  ContainerList(p, old \o NumberedFrom(new, Len(old) + 1), gone, s)
<1> DEFINE nums == NumberedFrom(new, Len(old) + 1)
           k == Len(old)
           n == Len(new)
<1>0. k \in Nat /\ n \in Nat
  BY IsSeqLen
<1>1. /\ IsSeq(nums) /\ Len(nums) = n
      /\ \A i \in 1 .. n : nums[i].id = k + 1 + i - 1
  BY <1>0, NumberedFromType
<1>2. \A i \in 1 .. n : nums[i].song = new[i].song
  BY DEF NumberedFrom
<1>3. IsSeq(p.tracks) /\ Len(p.tracks) = n /\ \A i \in 1 .. n : p.tracks[i] = k + i
  <2> DEFINE f == Ids(nums)
  <2> HIDE DEF nums, n, k
  <2>1. f \in [1 .. n -> {f[i] : i \in 1 .. n}] /\ \A i \in 1 .. n : f[i] = nums[i].id
    BY <1>1 DEF Ids
  <2> HIDE DEF f
  <2>2. IsSeq(f) /\ Len(f) = n
    BY <1>0, <2>1, FunctionIsSeq
  <2>3. p.tracks = f
    BY DEF f, nums, k
  <2>4. ASSUME NEW i \in 1 .. n
        PROVE  f[i] = k + i
    <3>1. f[i] = nums[i].id
      BY <2>1
    <3>2. nums[i].id = k + 1 + i - 1
      BY <1>1
    <3>3. k + 1 + i - 1 = k + i
      BY <1>0
    <3> QED BY <3>1, <3>2, <3>3
  <2> QED BY <2>2, <2>3, <2>4
<1> HIDE DEF nums
<1>4. /\ Len(old \o nums) = k + n
      /\ \A i \in 1 .. k + n : (old \o nums)[i] = IF i <= k THEN old[i] ELSE nums[i - k]
  BY <1>1, ConcatIsSeq
<1> HIDE DEF k, n
<1>5. ASSUME NEW i \in 1 .. n
      PROVE  (old \o nums)[k + i].song = audio[i].id
  <2>1. k + i \in 1 .. k + n /\ ~(k + i <= k) /\ (k + i) - k = i
    BY <1>0
  <2>2. (old \o nums)[k + i] = nums[i]
    BY <1>4, <2>1
  <2> QED BY <1>2, <2>2 DEF n
<1>6. n <= Len(audio) /\ (p.of \notin gone => n = Len(audio))
  BY DEF n, SongsMatch
<1> DEFINE all == old \o nums
<1>7. k + n <= Len(all)
  BY <1>0, <1>4
<1> HIDE DEF all
<1>8. HoldsContainer(p, all, gone, s, k, n)
  BY <1>3, <1>5, <1>6, <1>7 DEF HoldsContainer, all
<1> QED BY <1>0, <1>8 DEF ContainerList, all, nums, k

\* The playlists of a catalogue when a listing is over.
LEMMA PageLists ==
  ASSUME server \in Servers, at.id \in Containers(server), NEW m \in 0 .. Len(Browsed),
         LastStep(m), Numbered(cat), ListsBuilt(cat, missed, server)
  PROVE  ListsBuilt(cat', missed', server)
<1> DEFINE list == Browsed
           new == Joined(Itemized(list), m)
           some == Joined(AudioParts(list), m)
           audio == Joined(AudioParts(list), Len(list))
           old == cat.items
           nums == NumberedFrom(new, Len(old) + 1)
           l == [id |-> FirstListId + Len(cat.playlists), of |-> at.id,
                 name |-> IF at.title = <<>> THEN <<at.id>> ELSE at.title,
                 tracks |-> Ids(nums)]
<1>1. Elements(list) /\ AudioIn(server, at.id) = audio
  BY ListingElements, AudioInIs DEF Browsed
<1>2. /\ missed \subseteq missed'
      /\ at.id \notin missed' => m = Len(list)
  <2>1. missed' = IF m < Len(list) THEN missed \cup {at.id} ELSE missed
    BY DEF LastStep
  <2>2. Len(list) \in Nat
    BY <1>1, MadeAreSeqs
  <2> QED BY <2>1, <2>2
<1>3. IsSeq(new)
  <2>1. SeqOfSeqs(Itemized(list)) /\ m \in 0 .. Len(Itemized(list))
    BY <1>1, MadeAreSeqs
  <2> HIDE DEF list
  <2> QED BY <2>1, JoinedIsSeq
<1>4. SongsMatch(new, some)
  <2> HIDE DEF list
  <2> QED BY <1>1, SongsOfListing DEF list
<1>5. Len(some) <= Len(audio) /\ \A i \in 1 .. Len(some) : audio[i] = some[i]
  <2> DEFINE parts == AudioParts(list)
  <2>1. SeqOfSeqs(parts) /\ m \in 0 .. Len(parts) /\ Len(parts) = Len(list)
    BY <1>1, AudioPartsSeqs
  <2> HIDE DEF parts, list
  <2>2. /\ Len(Joined(parts, m)) <= Len(Joined(parts, Len(parts)))
        /\ \A i \in 1 .. Len(Joined(parts, m)) :
             Joined(parts, Len(parts))[i] = Joined(parts, m)[i]
    BY <2>1, JoinedPrefix
  <2> QED BY <2>1, <2>2 DEF parts
<1>6. /\ cat'.items = old \o nums
      /\ cat'.playlists \in {cat.playlists, Append(cat.playlists, l)}
  <2>1. ReadOf(list, m).items = new
    BY DEF ReadOf
  <2>2. Assemble(ReadOf(list, m))
    BY DEF LastStep
  <2> HIDE DEF list, new
  <2> QED BY <2>1, <2>2 DEF Assemble
<1>7. IsSeq(nums)
  <2>1. Len(new) \in Nat
    BY <1>3, IsSeqLen
  <2> HIDE DEF new
  <2> QED BY <2>1, NumberedFromType
<1>8. ASSUME NEW p \in ToSet(cat.playlists) PROVE ContainerList(p, old \o nums, missed', server)
  <2>1. ContainerList(p, old, missed, server)
    BY DEF ListsBuilt
  <2>2. IsSeq(old)
    BY DEF Numbered
  <2> HIDE DEF old, nums
  <2> QED BY <1>2, <1>7, <2>1, <2>2, ListStill
<1>9. ContainerList(l, old \o nums, missed', server)
  <2>1. l.of = at.id /\ l.tracks = Ids(nums)
    OBVIOUS
  <2>2. SongsMatch(new, audio) \/ at.id \in missed'
    BY <1>2, <1>4
  <2>3. Len(new) <= Len(audio) /\ \A i \in 1 .. Len(new) : new[i].song = audio[i].id
    <3> HIDE DEF new, some, audio
    <3> QED BY <1>4, <1>5 DEF SongsMatch
  <2>4. IsSeq(old)
    BY DEF Numbered
  <2> HIDE DEF l, new, audio, old
  <2> QED BY <1>1, <1>3, <2>1, <2>2, <2>3, <2>4, NewList
<1>10. ToSet(cat'.playlists) \subseteq ToSet(cat.playlists) \cup {l}
  <2>1. ToSet(Append(cat.playlists, l)) = ToSet(cat.playlists) \cup {l}
    <3> HIDE DEF l
    <3> QED BY AppendElements DEF Numbered
  <2> QED BY <1>6, <2>1
<1> HIDE DEF l, nums, old
<1>11. ASSUME NEW p \in ToSet(cat'.playlists)
       PROVE  ContainerList(p, cat'.items, missed', server)
  BY <1>6, <1>8, <1>9, <1>10
<1> QED BY <1>11 DEF ListsBuilt

\* The playlists of the catalogue that is built or served,
ListsOfCat == pc \in {"next", "page", "write", "rename"} \/ Serving("dlna") =>
                ListsBuilt(cat, missed, server)

\* and of every file.
ListsOfFiles ==
  \A k \in Keys : \A f \in {cache[k], tmp[k]} :
    f.state = "whole" => ListsBuilt(f.cat, f.missed, k[1])

\* Every step keeps the playlists,
LEMMA NextListsOfCat ==
  ASSUME ListsOfCat, ListsOfFiles, BuildInv, ReadInv, ServerInv, FoundInv, CatsInv, SourceInv,
         [Next]_vars
  PROVE  ListsOfCat'
<1>1. CASE Arriving \/ Elsewhere
  BY <1>1 DEF Arriving, Elsewhere, ListsOfCat, Before, Serving
<1>2. CASE LoadCache
  <2>1. /\ pc = "connect" /\ args.source = "dlna" /\ args \in Args /\ server \in Servers
        /\ cache[Key].state = "whole" /\ cat' = cache[Key].cat /\ missed' = cache[Key].missed
        /\ pc' = "serving" /\ UNCHANGED <<server, args>>
    BY <1>2 DEF LoadCache, ServerInv, Connected, Goes, dlnaVars, locals
  <2>2. Key \in Keys /\ Key[1] = server
    BY <2>1 DEF Key, Keys, Roots
  <2>3. ListsBuilt(cache[Key].cat, cache[Key].missed, Key[1])
    BY <2>1, <2>2 DEF ListsOfFiles
  <2> QED BY <2>1, <2>2, <2>3 DEF ListsOfCat
<1>3. CASE CacheMiss
  <2>1. cat = Nothing /\ UNCHANGED <<server, cat, missed>>
    BY <1>3 DEF CacheMiss, BuildInv, Before
  <2> QED BY <2>1, NoListsBuilt DEF ListsOfCat
<1>4. CASE NextEntry \/ Built \/ Storing
  BY <1>4 DEF NextEntry, Built, Storing, Goes, dlnaVars, locals, ListsOfCat, Serving
<1>5. CASE PageArrives
  <2>1. /\ pc = "page" /\ UNCHANGED <<args, server>>
        /\ at.id \in Containers(server) /\ server \in Servers
    BY <1>5, PageForm DEF PageArrives
  <2>2. PICK m \in 0 .. Len(Browsed) : LastStep(m) \/ MoreStep(m)
    BY <1>5, PageForm
  <2>3. CASE LastStep(m)
    BY <2>1, <2>3, PageLists DEF ListsOfCat, CatsInv
  <2>4. CASE MoreStep(m)
    BY <2>1, <2>4 DEF MoreStep, ListsOfCat
  <2> QED BY <2>2, <2>3, <2>4
<1>6. CASE Dropping
  BY <1>6, ListsStill DEF Dropping, ListsOfCat
<1>7. CASE Restart
  BY <1>7 DEF Restart, Begins, ListsOfCat, Serving
<1>8. CASE UNCHANGED vars
  BY <1>8 DEF vars, common, dlnaVars, locals, ListsOfCat, Serving
<1> QED BY <1>1, <1>2, <1>3, <1>4, <1>5, <1>6, <1>7, <1>8, DlnaForm

\* and those of the files.
LEMMA NextListsOfFiles ==
  ASSUME ListsOfFiles, ListsOfCat, CacheInv, [Next]_vars
  PROVE  ListsOfFiles'
<1> DEFINE Good(k, f) == f.state = "whole" => ListsBuilt(f.cat, f.missed, k[1])
<1>1. \A k \in Keys : Good(k, cache[k]) /\ Good(k, tmp[k])
  BY DEF ListsOfFiles
<1>2. CASE WriteTmp
  <2>1. /\ pc = "write" /\ UNCHANGED cache
        /\ \/ tmp' = [tmp EXCEPT ![Key] = Partial]
           \/ tmp' = [tmp EXCEPT ![Key] = File]
    BY <1>2 DEF WriteTmp
  <2>2. Good(Key, Partial)
    BY DEF Partial
  <2>3. Good(Key, File)
    BY <2>1 DEF File, Key, ListsOfCat
  <2>4. ASSUME NEW k \in Keys
        PROVE  tmp'[k] = tmp[k] \/ (k = Key /\ tmp'[k] \in {Partial, File})
    BY <2>1 DEF CacheInv
  <2> HIDE DEF Good
  <2>5. \A k \in Keys : Good(k, cache'[k]) /\ Good(k, tmp'[k])
    BY <1>1, <2>1, <2>2, <2>3, <2>4
  <2> QED BY <2>5 DEF ListsOfFiles, Good
<1>3. CASE RenameTmp
  <2>1. /\ cache' = [cache EXCEPT ![Key] = tmp[Key]]
        /\ tmp' = [tmp EXCEPT ![Key] = NoFile]
    BY <1>3 DEF RenameTmp
  <2>2. Good(Key, NoFile)
    BY DEF NoFile
  <2>3. ASSUME NEW k \in Keys
        PROVE  /\ tmp'[k] = tmp[k] \/ (k = Key /\ tmp'[k] = NoFile)
               /\ cache'[k] \in {cache[k], tmp[k]}
    BY <2>1 DEF CacheInv
  <2> HIDE DEF Good
  <2>4. \A k \in Keys : Good(k, cache'[k]) /\ Good(k, tmp'[k])
    BY <1>1, <2>2, <2>3
  <2> QED BY <2>4 DEF ListsOfFiles, Good
<1>4. CASE UNCHANGED disk
  <2>1. \A k \in Keys : Good(k, cache'[k]) /\ Good(k, tmp'[k])
    BY <1>1, <1>4 DEF disk
  <2> QED BY <2>1 DEF ListsOfFiles
<1> QED BY <1>2, <1>3, <1>4, DiskForm

-----------------------------------------------------------------------------
(* The playlists of a Subsonic server *)

\* The track of each song that is known.
Indexes(map, items) ==
  /\ DOMAIN map = SongsOfItems(items)
  /\ \A s \in DOMAIN map : map[s] \in 1 .. Len(items) /\ items[map[s]].song = s

\* A number of a set that is bounded and not empty is the greatest.
LEMMA Greatest ==
  ASSUME NEW N \in Nat, NEW T, T \subseteq 1 .. N, T # {}
  PROVE  \E x \in T : \A y \in T : y <= x
<1> DEFINE R == {N - x : x \in T}
<1>1. R \subseteq Nat /\ R # {}
  <2>1. ASSUME NEW x \in T PROVE N - x \in Nat
    OBVIOUS
  <2>2. PICK x \in T : TRUE
    OBVIOUS
  <2>3. N - x \in R
    BY <2>2
  <2>4. \A r \in R : r \in Nat
    BY <2>1
  <2> QED BY <2>3, <2>4
<1>2. PICK r \in R : \A y \in R : r <= y
  <2> HIDE DEF R
  <2> QED BY <1>1, Least
<1>3. PICK x \in T : r = N - x
  BY <1>2
<1>4. ASSUME NEW y \in T PROVE y <= x
  <2>1. N - x <= N - y
    BY <1>2, <1>3
  <2> QED BY <2>1
<1> QED BY <1>4

\* The index has every song at one of its tracks.
LEMMA IndexIsThere ==
  ASSUME NEW items, IsSeq(items)
  PROVE  Indexes(IndexOf(items), items)
<1> DEFINE N == Len(items)
           map == IndexOf(items)
           LastAt(s, i) == items[i].song = s /\ \A j \in i + 1 .. N : items[j].song # s
<1>0. N \in Nat /\ ToSet(items) = {items[i] : i \in 1 .. N}
  BY IsSeqLen, IsSeqDef DEF ToSet
<1>1. DOMAIN map = {items[i].song : i \in 1 .. N}
  BY DEF IndexOf
<1>2. \A s \in DOMAIN map : map[s] = CHOOSE i \in 1 .. N : LastAt(s, i)
  BY DEF IndexOf
<1>3. SongsOfItems(items) = {items[i].song : i \in 1 .. N}
  BY <1>0 DEF SongsOfItems
<1> HIDE DEF map, N
<1>4. ASSUME NEW s \in DOMAIN map
      PROVE  \E i \in 1 .. N : LastAt(s, i)
  <2> DEFINE T == {i \in 1 .. N : items[i].song = s}
  <2>1. T \subseteq 1 .. N /\ T # {}
    BY <1>1
  <2>2. PICK i \in T : \A j \in T : j <= i
    <3> HIDE DEF T
    <3> QED BY <1>0, <2>1, Greatest
  <2>3. ASSUME NEW j \in i + 1 .. N PROVE items[j].song # s
    BY <1>0, <2>2
  <2> QED BY <2>2, <2>3
<1>5. ASSUME NEW s \in DOMAIN map
      PROVE  map[s] \in 1 .. N /\ items[map[s]].song = s
  <2>1. map[s] \in 1 .. N /\ LastAt(s, map[s])
    <3> HIDE DEF LastAt
    <3> QED BY <1>2, <1>4
  <2> QED BY <2>1
<1> QED BY <1>1, <1>3, <1>5 DEF Indexes, map, N

\* A playlist that has the tracks of the entries that are known.
HoldsEntries(p, items) ==
  LET known == KeptIn(EntriesOf[p.of], SongsOfItems(items))
  IN  /\ IsSeq(p.tracks) /\ IsSeq(known) /\ Len(p.tracks) = Len(known)
      /\ \A i \in 1 .. Len(known) :
           p.tracks[i] \in 1 .. Len(items) /\ items[p.tracks[i]].song = known[i]

\* A playlist that is resolved has the entries that are known.
LEMMA ResolvedHolds ==
  ASSUME NEW items, Indexes(index, items), NEW p, IsSeq(EntriesOf[p.of]),
         p.tracks = Resolved(EntriesOf[p.of])
  PROVE  HoldsEntries(p, items)
<1> DEFINE entries == EntriesOf[p.of]
           known == KeptIn(entries, SongsOfItems(items))
           n == Len(known)
           f == [i \in 1 .. n |-> index[known[i]]]
<1>1. IsSeq(known) /\ ToSet(known) = ToSet(entries) \cap SongsOfItems(items)
  <2> HIDE DEF entries
  <2> QED BY KeptInIs DEF entries
<1>2. p.tracks = f
  BY DEF Resolved, Kept, KeptIn, Indexes
<1>3. n \in Nat /\ \A i \in 1 .. n : known[i] \in SongsOfItems(items)
  <2>1. \A i \in 1 .. n : known[i] \in ToSet(known)
    BY <1>1, IsSeqDef DEF ToSet
  <2> HIDE DEF known
  <2> QED BY <1>1, <2>1, IsSeqLen
<1>4. \A i \in 1 .. n : f[i] \in 1 .. Len(items) /\ items[f[i]].song = known[i]
  <2> HIDE DEF known, n
  <2> QED BY <1>3 DEF Indexes
<1>5. f \in [1 .. n -> {f[i] : i \in 1 .. n}]
  <2> HIDE DEF known, n
  <2> QED OBVIOUS
<1>6. IsSeq(f) /\ Len(f) = n
  <2> HIDE DEF f, n
  <2> QED BY <1>3, <1>5, FunctionIsSeq
<1> HIDE DEF f
<1> QED BY <1>1, <1>2, <1>4, <1>6 DEF HoldsEntries

\* The steps before there is a catalogue.
Early == {"start", "ping", "index", "artists", "albums"}

\* While the lists are fetched, the index is that of the catalogue.
EntriesInv ==
  /\ pc \in Early => cat = Nothing
  /\ pc = "lists" => cat.playlists = <<>>
  /\ pc \in {"lists", "list"} => Indexes(index, cat.items)
  /\ pc = "list" => lists \in Seq(DOMAIN EntriesOf)
  /\ pc = "list" \/ Serving("subsonic") =>
       \A p \in ToSet(cat.playlists) : HoldsEntries(p, cat.items)

\* It holds at first.
LEMMA InitEntriesInv == Init => EntriesInv
BY DEF Init, EntriesInv, Serving

\* There is none before it is made.
LEMMA EarlyNothing ==
  ASSUME pc \in Early => cat = Nothing, [Next]_vars
  PROVE  pc' \in Early => cat' = Nothing
<1>1. CASE DlnaStep \/ DlnaFails
  <2>1. CASE PageArrives
    BY <2>1 DEF PageArrives, Goes, common, Early
  <2>2. CASE ~PageArrives
    BY <1>1, <2>2 DEF DlnaStep, DlnaFails, ByUrl, BySearch, SearchOver, ConnectFails,
       LoadCache, CacheMiss, Reply, NextEntry, BrowseFails, NoSuchObject, Built, WriteTmp,
       RenameTmp, SaveFails, Goes, common, Early
  <2> QED BY <2>1, <2>2
<1>2. CASE SubsonicStep \/ SubsonicFails
  BY <1>2 DEF SubsonicStep, SubsonicFails, TakeCredentials, Pong, ServerFails, Steps, Early,
     ArtistsKnown, AlbumsKnown, SongsKnown, Send, Answer, RequestFails, ListsKnown, ListsFail,
     ListKnown, ListFails, ListsDone, common
<1>3. CASE FsStep \/ FsFails
  BY <1>3 DEF FsStep, FsFails, Scan, Scanned, WalkFile, WalkError, common, Early
<1>4. CASE Restart
  BY <1>4 DEF Restart, Begins
<1>5. CASE UNCHANGED vars
  BY <1>5 DEF vars, common
<1> QED BY <1>1, <1>2, <1>3, <1>4, <1>5 DEF Next, Step, Fails, Done

\* The index is made of the tracks,
LEMMA SongsEntriesInv ==
  ASSUME EntriesInv, AskedInv, SongsKnown
  PROVE  EntriesInv'
<1> DEFINE items == NumberedFrom(answers, 1)
<1>1. /\ pc = "albums" /\ pc' = "lists" /\ cat = Nothing /\ IsSeq(answers)
      /\ cat' = [cat EXCEPT !.items = items] /\ index' = IndexOf(items)
  BY DEF SongsKnown, Steps, EntriesInv, Early, AskedInv
<1>2. IsSeq(items)
  BY <1>1, IsSeqLen, NumberedFromType
<1> HIDE DEF items
<1>3. cat'.items = items /\ cat'.playlists = <<>>
  BY <1>1 DEF Nothing
<1>4. Indexes(index', items)
  BY <1>1, <1>2, IndexIsThere
<1>5. Indexes(index', cat'.items)
  BY <1>3, <1>4
<1>6. Indexes(index, cat.items)'
  BY <1>5 DEF Indexes, SongsOfItems
<1> QED BY <1>1, <1>3, <1>6 DEF EntriesInv, Early, Serving

\* a playlist of the index,
LEMMA ListEntriesInv ==
  ASSUME EntriesInv, CatsInv, ListKnown
  PROVE  EntriesInv'
<1> DEFINE l == [id |-> FirstListId + Len(cat.playlists), of |-> Head(lists),
                 name |-> <<Head(lists)>>, tracks |-> Resolved(EntriesOf[Head(lists)])]
<1>1. /\ pc = "list" /\ pc' = "list" /\ lists # <<>> /\ lists' = Tail(lists) /\ index' = index
      /\ cat' \in {cat, [cat EXCEPT !.playlists = Append(cat.playlists, l)]}
  BY DEF ListKnown
<1>2. /\ lists \in Seq(DOMAIN EntriesOf) /\ Indexes(index, cat.items)
      /\ \A p \in ToSet(cat.playlists) : HoldsEntries(p, cat.items)
  BY <1>1 DEF EntriesInv
<1>3. Head(lists) \in DOMAIN EntriesOf /\ lists' \in Seq(DOMAIN EntriesOf)
  BY <1>1, <1>2
<1>4. IsSeq(EntriesOf[Head(lists)])
  BY <1>3, SubsonicAssumption DEF IsSeq
<1>5. l.of = Head(lists) /\ l.tracks = Resolved(EntriesOf[Head(lists)])
  OBVIOUS
<1> HIDE DEF l
<1>6. HoldsEntries(l, cat.items)
  <2>1. IsSeq(EntriesOf[l.of]) /\ l.tracks = Resolved(EntriesOf[l.of])
    BY <1>4, <1>5
  <2> QED BY <1>2, <2>1, ResolvedHolds
<1>7. cat'.items = cat.items /\ cat'.playlists \in {cat.playlists, Append(cat.playlists, l)}
  BY <1>1 DEF CatsInv, Numbered
<1>8. ToSet(cat'.playlists) \subseteq ToSet(cat.playlists) \cup {l}
  <2>1. ToSet(Append(cat.playlists, l)) = ToSet(cat.playlists) \cup {l}
    BY AppendElements DEF CatsInv, Numbered
  <2> QED BY <1>7, <2>1
<1>9. \A p \in ToSet(cat'.playlists) : HoldsEntries(p, cat'.items)
  BY <1>2, <1>6, <1>7, <1>8
<1>10. Indexes(index', cat'.items)
  BY <1>1, <1>2, <1>7
<1>11. Indexes(index, cat.items)'
  BY <1>10 DEF Indexes, SongsOfItems
<1>12. \A p \in ToSet(cat.playlists)' : HoldsEntries(p, cat.items)'
  BY <1>9
<1> QED BY <1>1, <1>3, <1>11, <1>12 DEF EntriesInv, Early, Serving

\* and so it is in every step.
LEMMA NextEntriesInv ==
  ASSUME EntriesInv, AskedInv, CatsInv, SourceInv, ServerInv, [Next]_vars
  PROVE  EntriesInv'
<1>0. pc' \in Early => cat' = Nothing
  BY EarlyNothing DEF EntriesInv
<1>1. CASE pc' \in {"artists", "albums"}
  BY <1>0, <1>1 DEF EntriesInv, Early, Serving
<1>2. CASE SongsKnown
  BY <1>2, SongsEntriesInv
<1>3. CASE ListKnown
  BY <1>3, ListEntriesInv
<1>4. CASE ListsKnown
  <2>1. /\ pc = "lists" /\ pc' = "list" /\ lists' = ServerLists /\ UNCHANGED <<index, cat>>
    BY <1>4 DEF ListsKnown, Steps
  <2>2. lists' \in Seq(DOMAIN EntriesOf)
    BY <2>1, SubsonicAssumption
  <2> QED BY <2>1, <2>2, EmptyElements DEF EntriesInv, Early, Serving
<1>5. CASE ListsFail
  BY <1>5, EmptyElements DEF ListsFail, Steps, subsonicVars, EntriesInv, Early, Serving
<1>6. CASE ListFails
  <2>1. /\ pc = "list" /\ pc' = "list" /\ lists # <<>> /\ lists' = Tail(lists)
        /\ UNCHANGED <<index, cat, args>>
    BY <1>6 DEF ListFails
  <2>2. lists' \in Seq(DOMAIN EntriesOf)
    BY <2>1 DEF EntriesInv
  <2> QED BY <2>1, <2>2 DEF EntriesInv, Early, Serving
<1>7. CASE ListsDone
  BY <1>7 DEF ListsDone, Steps, subsonicVars, EntriesInv, Early, Serving
<1>8. CASE Unrelated
  BY <1>0, <1>8 DEF Unrelated, EntriesInv, Early, Serving
<1>9. CASE UNCHANGED vars
  BY <1>9 DEF vars, common, subsonicVars, EntriesInv, Early, Serving
<1>10. ArtistsKnown \/ AlbumsKnown \/ Send \/ (\E n \in flying : Answer(n) \/ RequestFails(n))
         => pc' \in {"artists", "albums"}
  BY DEF ArtistsKnown, AlbumsKnown, Send, Answer, RequestFails, Steps, common
<1> QED BY <1>1, <1>2, <1>3, <1>4, <1>5, <1>6, <1>7, <1>8, <1>9, <1>10, AnswersForm

-----------------------------------------------------------------------------
(* The playlists of a directory *)

\* A playlist that has the tracks of the files below a directory, in order.
HoldsFolder(p, items) ==
  /\ IsSeq(p.tracks)
  /\ \A i \in 1 .. Len(p.tracks) : p.tracks[i] \in 1 .. Len(items)
  /\ {items[p.tracks[i]].song : i \in 1 .. Len(p.tracks)}
       = {s \in SongsOfItems(items) : Len(s) > 1 /\ s[1] = p.of}
  /\ \A i, j \in 1 .. Len(p.tracks) :
       i < j => PathBefore(items[p.tracks[i]].song, items[p.tracks[j]].song)

\* All playlists of a directory.
FolderLists == Serving("fs") => \A p \in ToSet(cat.playlists) : HoldsFolder(p, cat.items)

\* The places of the files below a directory give such a playlist.
LEMMA InsideHolds ==
  ASSUME NEW files, IsSeq(files),
         \A i, j \in 1 .. Len(files) : i < j => PathBefore(files[i].path, files[j].path),
         NEW items, IsSeq(items), Len(items) = Len(files),
         \A i \in 1 .. Len(files) : items[i].song = files[i].path,
         NEW p, p.tracks = InOrder(Inside(files, p.of))
  PROVE  HoldsFolder(p, items)
<1> DEFINE S == Inside(files, p.of)
           N == Len(files)
           f == p.tracks
<1>1. N \in Nat /\ S = {i \in 1 .. N : Len(files[i].path) > 1 /\ files[i].path[1] = p.of}
  BY IsSeqLen DEF Inside
<1>2. S \subseteq Nat /\ IsFiniteSet(S) /\ S \subseteq 1 .. N
  <2>1. S \subseteq 1 .. N
    BY <1>1
  <2> HIDE DEF S, N
  <2>2. IsFiniteSet(1 .. N)
    BY <1>1, FS_Interval
  <2> QED BY <1>1, <2>1, <2>2, FS_Subset
<1>3. /\ IsSeq(f) /\ ToSet(f) = S
      /\ \A i, j \in 1 .. Len(f) : i < j => f[i] < f[j]
  <2> HIDE DEF S
  <2> QED BY ONLY <1>2, NumbersInOrder, f = InOrder(S) DEF S
<1>4. S = {f[i] : i \in 1 .. Len(f)}
  BY <1>3, IsSeqDef DEF ToSet
<1> HIDE DEF f, S
<1>5. \A i \in 1 .. Len(f) : f[i] \in 1 .. N /\ items[f[i]].song = files[f[i]].path
  BY <1>2, <1>4
<1>6. ToSet(items) = {items[i] : i \in 1 .. N}
  BY IsSeqDef DEF ToSet
<1>7. SongsOfItems(items) = {files[i].path : i \in 1 .. N}
  BY <1>6 DEF SongsOfItems
<1>8. {items[f[i]].song : i \in 1 .. Len(f)} = {files[i].path : i \in S}
  BY ZenonT(60), <1>2, <1>4
<1>9. {files[i].path : i \in S} = {s \in SongsOfItems(items) : Len(s) > 1 /\ s[1] = p.of}
  BY <1>1, <1>7
<1>10. ASSUME NEW i \in 1 .. Len(f), NEW j \in 1 .. Len(f), i < j
       PROVE  PathBefore(items[f[i]].song, items[f[j]].song)
  BY <1>3, <1>5, <1>10
<1> QED BY <1>3, <1>5, <1>8, <1>9, <1>10 DEF HoldsFolder, f, N

\* The scan makes one for each directory,
LEMMA ScannedFolderLists ==
  ASSUME WalkInv, ScanInv, Scanned
  PROVE  FolderLists'
<1> DEFINE files == Sorted(scanned)
           made(readable) == [i \in 1 .. Len(files) |->
                                [song |-> files[i].path,
                                 texts |-> TagsOf(files[i], readable)]]
<1>1. OncePerFile(scanned) /\ ToSet(scanned) \subseteq AudioFiles /\ IsSeq(scanned)
  BY DEF Scanned, WalkInv, ScanInv
<1>2. IsDirectory(ToSet(scanned))
  <2>1. ToSet(scanned) \subseteq Files
    BY <1>1 DEF AudioFiles
  <2>2. IsFiniteSet(ToSet(scanned))
    BY <2>1, FsAssumption, FS_Subset
  <2> QED BY <2>1, <2>2, FsAssumption DEF IsDirectory
<1>3. /\ IsSeq(files)
      /\ \A i, j \in 1 .. Len(files) : i < j => PathBefore(files[i].path, files[j].path)
  BY <1>1, <1>2, SortedFiles
<1>4. PICK readable : cat' = [items |-> NumberedFrom(made(readable), 1),
                              playlists |-> SubdirPlaylists(files)]
  BY DEF Scanned, files
<1> HIDE DEF files
<1> DEFINE m == made(readable)
           items == NumberedFrom(m, 1)
<1>5. Len(m) = Len(files) /\ \A i \in 1 .. Len(files) : m[i].song = files[i].path
  <2>1. Len(files) \in Nat
    BY <1>3, IsSeqLen
  <2>2. /\ m \in [1 .. Len(files) -> {m[i] : i \in 1 .. Len(files)}]
        /\ \A i \in 1 .. Len(files) : m[i].song = files[i].path
    OBVIOUS
  <2> HIDE DEF m, made
  <2> QED BY <2>1, <2>2, FunctionIsSeq
<1>6. cat'.items = items /\ cat'.playlists = SubdirPlaylists(files)
  BY <1>4
<1> HIDE DEF made, m
<1>7. /\ IsSeq(items) /\ Len(items) = Len(files)
      /\ \A i \in 1 .. Len(files) : items[i].song = files[i].path
  <2>1. Len(m) \in Nat
    BY <1>3, <1>5, IsSeqLen
  <2>2. IsSeq(items) /\ Len(items) = Len(m)
    BY <2>1, NumberedFromType
  <2>3. \A i \in 1 .. Len(m) : items[i].song = m[i].song
    BY DEF NumberedFrom
  <2> QED BY <1>5, <2>2, <2>3
<1> HIDE DEF items
<1> DEFINE all == SubdirPlaylists(files)
           n == Cardinality(Subdirs(files))
<1>8. \A x \in ToSet(all) : x.tracks = InOrder(Inside(files, x.of))
  BY DEF ToSet, SubdirPlaylists
<1> HIDE DEF all
<1>9. \A x \in ToSet(all) : HoldsFolder(x, items)
  BY <1>3, <1>7, <1>8, InsideHolds
<1>10. \A x \in ToSet(cat'.playlists) : HoldsFolder(x, cat'.items)
  BY <1>6, <1>9 DEF all
<1>11. \A x \in ToSet(cat.playlists)' : HoldsFolder(x, cat.items)'
  BY <1>10
<1> QED BY <1>11 DEF FolderLists

\* and no other step touches them.
LEMMA NextFolderLists ==
  ASSUME FolderLists, WalkInv, ScanInv, SourceInv, ServerInv, [Next]_vars
  PROVE  FolderLists'
<1>1. CASE Scanned
  BY <1>1, ScannedFolderLists
<1>2. CASE Scan
  BY <1>2 DEF Scan, FolderLists, Serving
<1>3. CASE \E f \in walk : WalkFile(f) \/ WalkError(f)
  BY <1>3 DEF WalkFile, WalkError, common, FolderLists, Serving
<1>4. CASE NotOfFs
  BY <1>4 DEF NotOfFs, FolderLists, Serving
<1>5. CASE Restart
  BY <1>5 DEF Restart, Begins, FolderLists, Serving
<1>6. CASE UNCHANGED vars
  BY <1>6 DEF vars, common, FolderLists, Serving
<1> QED BY <1>1, <1>2, <1>3, <1>4, <1>5, <1>6, WalkForm

\* The invariant of the playlists.
ListsInv == ListsOfCat /\ ListsOfFiles /\ EntriesInv /\ FolderLists

\* It holds at first,
LEMMA InitListsInv == Init => ListsInv
<1> SUFFICES ASSUME Init PROVE ListsInv
  OBVIOUS
<1>1. ListsOfCat /\ FolderLists
  BY DEF Init, ListsOfCat, FolderLists, Serving
<1>2. \A k \in Keys : cache[k] = NoFile /\ tmp[k] = NoFile
  BY DEF Init, DlnaInit
<1>3. ListsOfFiles
  BY <1>2 DEF NoFile, ListsOfFiles
<1> QED BY <1>1, <1>3, InitEntriesInv DEF ListsInv

\* after every step,
LEMMA NextListsInv ==
  ASSUME WholeInv, ListsInv, [Next]_vars
  PROVE  ListsInv'
<1>1. /\ CacheInv /\ ServerInv /\ FoundInv /\ AskedInv /\ ScanInv /\ CatsInv
      /\ ReadInv /\ SourceInv /\ BuildInv /\ WalkInv
  BY DEF WholeInv, NumberInv
<1>2. ListsOfCat' /\ ListsOfFiles'
  BY <1>1, NextListsOfCat, NextListsOfFiles DEF ListsInv
<1>3. EntriesInv' /\ FolderLists'
  BY <1>1, NextEntriesInv, NextFolderLists DEF ListsInv
<1> QED BY <1>2, <1>3 DEF ListsInv

\* and in every state: every playlist is made of what it is named for.
THEOREM ListsInvariant == Spec => []ListsInv
<1>1. WholeInv /\ ListsInv /\ [Next]_vars => ListsInv'
  BY NextListsInv
<1> QED BY <1>1, WholeInvariant, InitListsInv, PTL DEF Spec

\* What a playlist stands for, when its tracks are positions of the catalogue.
LEMMA TrackSongs ==
  ASSUME Numbered(cat), NEW p, IsSeq(p.tracks),
         \A i \in 1 .. Len(p.tracks) : p.tracks[i] \in 1 .. Len(cat.items)
  PROVE  /\ ToSet(p.tracks) \subseteq ToSet(Ids(cat.items))
         /\ Len(p.tracks) \in Nat
         /\ SongsIn(p) = [i \in 1 .. Len(p.tracks) |-> cat.items[p.tracks[i]].song]
<1> DEFINE items == cat.items
           N == Len(items)
           n == Len(p.tracks)
<1>0. N \in Nat /\ n \in Nat /\ \A i \in 1 .. N : items[i].id = i
  BY IsSeqLen DEF Numbered
<1>1. \A i \in 1 .. N : Entry(DatabaseId, i) = items[i]
  BY <1>0, NumberedIdentify DEF IdsIdentify, Tracks
<1>2. \A i \in 1 .. n : SongOf(p.tracks[i]) = items[p.tracks[i]].song
  BY <1>1 DEF SongOf
<1>3. SongsIn(p) = [i \in 1 .. n |-> items[p.tracks[i]].song]
  BY <1>2 DEF SongsIn
<1>4. ToSet(p.tracks) = {p.tracks[i] : i \in 1 .. n}
  BY IsSeqDef DEF ToSet
<1>5. \A i \in 1 .. N : i \in ToSet(Ids(items))
  BY <1>0 DEF Ids, ToSet
<1>6. ToSet(p.tracks) \subseteq ToSet(Ids(items))
  BY <1>4, <1>5
<1> QED BY <1>0, <1>3, <1>6

\* A run of tracks is the container it is named for;
LEMMA DlnaPlaylist ==
  ASSUME Numbered(cat), NEW p, ContainerList(p, cat.items, missed, server)
  PROVE  LET audio == AudioIn(server, p.of)
         IN  /\ ToSet(p.tracks) \subseteq ToSet(Ids(cat.items))
             /\ SongsIn(p) = [i \in 1 .. Len(p.tracks) |-> audio[i].id]
             /\ p.of \notin missed => Len(p.tracks) = Len(audio)
<1> DEFINE audio == AudioIn(server, p.of)
           items == cat.items
           N == Len(items)
<1>1. PICK k, n \in Nat : HoldsContainer(p, items, missed, server, k, n)
  BY DEF ContainerList
<1>2. /\ IsSeq(p.tracks) /\ Len(p.tracks) = n
      /\ \A i \in 1 .. n : p.tracks[i] = k + i
      /\ k + n <= N
      /\ \A i \in 1 .. n : items[k + i].song = audio[i].id
      /\ p.of \notin missed => n = Len(audio)
  BY <1>1 DEF HoldsContainer
<1>3. N \in Nat
  BY IsSeqLen DEF Numbered
<1>4. \A i \in 1 .. n : k + i \in 1 .. N
  BY <1>2, <1>3
<1>5. /\ ToSet(p.tracks) \subseteq ToSet(Ids(cat.items))
      /\ SongsIn(p) = [i \in 1 .. Len(p.tracks) |-> cat.items[p.tracks[i]].song]
  BY <1>2, <1>4, TrackSongs
<1>6. \A i \in 1 .. n : cat.items[p.tracks[i]].song = audio[i].id
  BY <1>2
<1> HIDE DEF audio
<1>7. SongsIn(p) = [i \in 1 .. n |-> audio[i].id]
  BY <1>2, <1>5, <1>6
<1> QED BY <1>2, <1>5, <1>7 DEF audio

\* the tracks of entries are those entries;
LEMMA SubsonicPlaylist ==
  ASSUME Numbered(cat), NEW p, HoldsEntries(p, cat.items)
  PROVE  /\ ToSet(p.tracks) \subseteq ToSet(Ids(cat.items))
         /\ SongsIn(p) = Kept(EntriesOf[p.of], LAMBDA s : s \in CatalogueSongs)
<1> DEFINE known == KeptIn(EntriesOf[p.of], SongsOfItems(cat.items))
           n == Len(known)
<1>1. /\ IsSeq(p.tracks) /\ IsSeq(known) /\ Len(p.tracks) = n
      /\ \A i \in 1 .. n : p.tracks[i] \in 1 .. Len(cat.items)
                           /\ cat.items[p.tracks[i]].song = known[i]
  BY DEF HoldsEntries
<1>2. known = Kept(EntriesOf[p.of], LAMBDA s : s \in CatalogueSongs)
  BY DEF Kept, KeptIn, CatalogueSongs, SongsOfItems
<1> HIDE DEF known
<1>3. /\ ToSet(p.tracks) \subseteq ToSet(Ids(cat.items))
      /\ SongsIn(p) = [i \in 1 .. Len(p.tracks) |-> cat.items[p.tracks[i]].song]
  BY <1>1, TrackSongs
<1>4. known = [i \in 1 .. n |-> known[i]]
  BY <1>1 DEF IsSeq
<1>5. SongsIn(p) = known
  BY <1>1, <1>3, <1>4
<1> QED BY <1>2, <1>3, <1>5

\* those of the files below a directory are these files.
LEMMA FsPlaylist ==
  ASSUME Numbered(cat), NEW p, HoldsFolder(p, cat.items)
  PROVE  /\ ToSet(p.tracks) \subseteq ToSet(Ids(cat.items))
         /\ ToSet(SongsIn(p)) = {s \in CatalogueSongs : Len(s) > 1 /\ s[1] = p.of}
         /\ \A i, j \in 1 .. Len(p.tracks) :
              i < j => PathBefore(SongsIn(p)[i], SongsIn(p)[j])
<1> DEFINE n == Len(p.tracks)
<1>1. /\ IsSeq(p.tracks)
      /\ \A i \in 1 .. n : p.tracks[i] \in 1 .. Len(cat.items)
      /\ {cat.items[p.tracks[i]].song : i \in 1 .. n}
           = {s \in SongsOfItems(cat.items) : Len(s) > 1 /\ s[1] = p.of}
      /\ \A i, j \in 1 .. n :
           i < j => PathBefore(cat.items[p.tracks[i]].song, cat.items[p.tracks[j]].song)
  BY DEF HoldsFolder
<1>2. /\ ToSet(p.tracks) \subseteq ToSet(Ids(cat.items))
      /\ SongsIn(p) = [i \in 1 .. n |-> cat.items[p.tracks[i]].song]
  BY <1>1, TrackSongs
<1>3. ToSet(SongsIn(p)) = {cat.items[p.tracks[i]].song : i \in 1 .. n}
  <2> DEFINE g == SongsIn(p)
  <2>1. DOMAIN g = 1 .. n /\ \A i \in 1 .. n : g[i] = cat.items[p.tracks[i]].song
    BY <1>2
  <2> HIDE DEF g, n
  <2>2. ToSet(g) = {g[i] : i \in 1 .. n}
    BY <2>1 DEF ToSet
  <2> QED BY <2>1, <2>2 DEF g
<1>4. SongsOfItems(cat.items) = CatalogueSongs
  BY DEF SongsOfItems, CatalogueSongs
<1>5. \A i, j \in 1 .. n : i < j => PathBefore(SongsIn(p)[i], SongsIn(p)[j])
  <2>1. \A i \in 1 .. n : SongsIn(p)[i] = cat.items[p.tracks[i]].song
    BY <1>2
  <2> QED BY <1>1, <2>1
<1> QED BY <1>1, <1>2, <1>3, <1>4, <1>5

\* Whatever the pages, the order of answers, the failures and the crashes, and
\* also when the catalogue is one of an earlier start: a playlist has the songs
\* of what it is named for, in their order.
THEOREM PlaylistsStayContainers == Spec => []PlaylistsAreContainers
<1>1. ASSUME WholeInv, ListsInv PROVE PlaylistsAreContainers
  <2> SUFFICES ASSUME pc = "serving", NEW p \in ToSet(cat.playlists)
               PROVE  /\ ToSet(p.tracks) \subseteq ToSet(Ids(cat.items))
                      /\ args.source = "dlna" =>
                           LET audio == AudioIn(server, p.of)
                           IN  /\ SongsIn(p) = [i \in 1 .. Len(p.tracks) |-> audio[i].id]
                               /\ p.of \notin missed => Len(p.tracks) = Len(audio)
                      /\ args.source = "subsonic" =>
                           SongsIn(p) = Kept(EntriesOf[p.of], LAMBDA s : s \in CatalogueSongs)
                      /\ args.source = "fs" =>
                           /\ ToSet(SongsIn(p)) = {s \in CatalogueSongs : Len(s) > 1 /\ s[1] = p.of}
                           /\ \A i, j \in 1 .. Len(p.tracks) :
                                i < j => PathBefore(SongsIn(p)[i], SongsIn(p)[j])
    BY DEF PlaylistsAreContainers
  <2>1. Numbered(cat) /\ args.source \in {"dlna", "subsonic", "fs"}
    BY <1>1 DEF WholeInv, NumberInv, CatsInv, SourceInv
  <2>2. CASE args.source = "dlna"
    <3>1. ContainerList(p, cat.items, missed, server)
      BY <1>1, <2>2 DEF ListsInv, ListsOfCat, ListsBuilt, Serving
    <3> QED BY <2>1, <2>2, <3>1, DlnaPlaylist
  <2>3. CASE args.source = "subsonic"
    <3>1. HoldsEntries(p, cat.items)
      BY <1>1, <2>3 DEF ListsInv, EntriesInv, Serving
    <3> QED BY <2>1, <2>3, <3>1, SubsonicPlaylist
  <2>4. CASE args.source = "fs"
    <3>1. HoldsFolder(p, cat.items)
      BY <1>1, <2>4 DEF ListsInv, FolderLists, Serving
    <3> QED BY <2>1, <2>4, <3>1, FsPlaylist
  <2> QED BY <2>1, <2>2, <2>3, <2>4
<1> QED BY <1>1, WholeInvariant, ListsInvariant, PTL
=============================================================================
