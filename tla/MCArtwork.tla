----------------------------- MODULE MCArtwork -----------------------------
(***************************************************************************)
(* Albums for Artwork: every row of up to seven pixels in black and white  *)
(* and some of nine, every shape up to eleven by six with every box up to  *)
(* three by two, albums whose artwork is replaced, broken or absent while  *)
(* two clients ask for it in several forms, and one asked with every kind  *)
(* of bad request.  ShortRow is small enough that packed rows of four      *)
(* bytes and more are read at every depth.                                 *)
(***************************************************************************)
EXTENDS Artwork

Q(t, mw, mh, depth, mode, accept) ==
  [track |-> t, mw |-> mw, mh |-> mh, depth |-> depth, mode |-> mode, accept |-> accept]

Img(w, h, px) == [is |-> "image", w |-> w, h |-> h, px |-> px]
Plain(w, h, shade) == Img(w, h, [y \in 1 .. h |-> [x \in 1 .. w |-> shade]])
Broken == [is |-> "broken"]
Absent == [is |-> "absent"]

\* Two rows, the second a mirror of the first.
RowImages ==
  UNION {{Img(w, 2, <<row, [x \in 1 .. w |-> row[w + 1 - x]]>>) : row \in [1 .. w -> {0, 255}]} :
           w \in 1 .. 7}

\* Rows of nine, of a left and a right part: four bytes at depth 2.
LongRowImages ==
  {Img(9, 2, <<[x \in 1 .. 9 |-> IF x <= cut THEN l ELSE r], [x \in 1 .. 9 |-> IF x = cut THEN l ELSE r]>>) :
     cut \in 1 .. 9, l \in {0, 64, 192}, r \in {128, 255}}

LongRowAlbums ==
  {[art |-> << <<img>> >>, asks |-> <<{Q(1, None, None, d[1], d[2], None)}>>] :
     img \in LongRowImages, d \in {<<1, None>>, <<2, "gray">>, <<4, "color">>, <<8, "color">>, <<24, None>>}}

RowAlbums ==
  {[art |-> << <<img>> >>, asks |-> <<{Q(1, None, None, d[1], d[2], None)}>>] :
     img \in RowImages, d \in {<<1, None>>, <<2, "gray">>, <<4, "color">>, <<8, "color">>, <<24, None>>}}

\* Four shades of which no two bits are alike.
ShadeAlbums ==
  {[art |-> << <<Img(5, 1, <<row>>)>> >>, asks |-> <<{Q(1, None, None, 4, "gray", None)}>>] :
     row \in [1 .. 5 -> {0, 96, 128, 224}]}

ShapeAlbums ==
  {[art |-> << <<Plain(w, h, 0)>> >>, asks |-> <<{Q(1, mw, mh, None, None, a)}>>] :
     w \in 1 .. 11, h \in 1 .. 6, mw \in {None, 1, 2, 3}, mh \in {None, 1, 2}, a \in {None, "pict"}}

Busy ==
  {Q(1, None, None, None, None, "pict"), Q(1, None, None, 8, "gray", None),
   Q(1, 2, None, None, "gray", "pict1"), Q(2, None, None, None, None, "pict"),
   Q(2, None, None, 24, None, None), Q(3, None, None, None, None, None)}

Odd ==
  {Q(1, None, None, 2, "color", "pict"), Q(1, 2, 2, None, "sepia", None),
   Q(1, 0, None, None, None, None), Q(1, None, 5, None, None, None),
   Q(1, None, None, 16, "gray", None), Q(1, None, None, 1, "gray", None),
   Q(1, None, None, 4, None, None), Q(1, None, None, 1, None, None)}

BusyAlbums ==
  {[art |-> << <<Plain(3, 2, 0), Plain(2, 3, 255)>>, <<Plain(2, 2, 128), Broken>>, <<Absent>> >>,
    asks |-> <<Busy, Busy>>],
   [art |-> << <<Broken, Plain(3, 2, 0)>> >>, asks |-> <<Odd>>]}

MCAlbums == RowAlbums \cup LongRowAlbums \cup ShadeAlbums \cup ShapeAlbums \cup BusyAlbums
=============================================================================
