-------------------------------- MODULE Pict --------------------------------
(***************************************************************************)
(* The PICT encoder (pict/src/encoder.rs) and, as its reference, the       *)
(* reader of a classic Mac: rows of pixels are packed into bytes, run      *)
(* through PackBits, counted and laid end to end.  A file is the fields of *)
(* its header that say how to read the rows, and the bytes of the rows;    *)
(* the other opcodes are constants and left out.  The two part over files  *)
(* that are not Representable or not LongEnough.                           *)
(*                                                                         *)
(* A pixel is its shade, 0 .. 255.  The dither of dither.rs is abstracted  *)
(* to cutting off the low bits, the palettes to the shades themselves.     *)
(***************************************************************************)
EXTENDS Integers, SequencesExt, FiniteSetsExt

CONSTANTS
  MaxRun,      \* 128, scaled down: longest run or literal of PackBits
  CountMod,    \* 256, scaled down with it: values of a count byte
  ShortRow,    \* 8, scaled down: a reader takes shorter rows for unpacked
  LongRow,     \* 250, scaled down: longer rows have a count of two bytes
  RowMod,      \* 2^15, scaled down: rowBytes beside its flag
  MaxDim       \* 32767, scaled down: validate_dims

\* A row of LongRow bytes that does not compress still fits a count byte.
ASSUME PictAssumption ==
  /\ {MaxRun, CountMod, LongRow, RowMod, MaxDim} \subseteq Nat \ {0}
  /\ MaxRun >= 3 /\ CountMod = 2 * MaxRun
  /\ LongRow + (LongRow + MaxRun - 1) \div MaxRun < CountMod

ASSUME ShortRowAssumption == ShortRow \in Nat

DivCeil(a, b) == (a + b - 1) \div b

-----------------------------------------------------------------------------
(* Rows of bytes *)

PixmapRowBytes(width, size) == 2 * DivCeil(width * size, 16)
BitmapRowBytes(width) == 2 * DivCeil(width, 16)

\* 1 << k
Bit(k) == <<1, 2, 4, 8, 16, 32, 64, 128, 256>>[k + 1]

\* Where a pixel of size bits is packed: its byte, and what its index is
\* multiplied by there.  The first pixel is in the high bits.
ByteOf(x, size) == ((x - 1) * size) \div 8 + 1
PlaceOf(x, size) == Bit(8 - size - (((x - 1) * size) % 8))

\* A shade as an index of size bits.
Index(shade, size) == shade \div Bit(8 - size)

Times(n, byte) == [k \in 1 .. n |-> byte]

PutPixel(bytes, x, size, shade) ==
  [bytes EXCEPT ![ByteOf(x, size)] = @ + Index(shade, size) * PlaceOf(x, size)]

\* A row of zeros into which one pixel is put after the other.
PackPixels(row, size) ==
  LET buf[x \in 0 .. Len(row)] ==
        IF x = 0 THEN Times(PixmapRowBytes(Len(row), size), 0)
        ELSE PutPixel(buf[x - 1], x, size, row[x])
  IN  buf[Len(row)]

\* Length of the run that starts at i.
RunAt(s, i) ==
  Max({n \in 1 .. MaxRun : i + n - 1 <= Len(s) /\ \A j \in i .. i + n - 1 : s[j] = s[i]})

LooksLikeRun(s, i) == i + 2 <= Len(s) /\ s[i] = s[i + 1] /\ s[i] = s[i + 2]

\* Length of the literal that starts at i: up to a run, the end or MaxRun.
LiteralAt(s, i) ==
  Min({n \in 1 .. MaxRun : n = MaxRun \/ i + n > Len(s) \/ LooksLikeRun(s, i + n)})

\* Fault: a run of k is encoded as -k.
RunCountOffByOne(k) == CountMod - k

\* The count byte of a run of k: 1 - k in two's complement.
RunCount(k) == CountMod + 1 - k

\* pack_bits
PackBits(s) ==
  LET from[i \in 1 .. Len(s) + 1] ==
        CASE i > Len(s) -> <<>>
          [] i <= Len(s) /\ RunAt(s, i) >= 3 ->
               <<RunCount(RunAt(s, i)), s[i]>> \o from[i + RunAt(s, i)]
          [] OTHER ->
               <<LiteralAt(s, i) - 1>> \o SubSeq(s, i, i + LiteralAt(s, i) - 1)
                 \o from[i + LiteralAt(s, i)]
  IN  from[1]

\* The count, in one byte or two (no row of MaxDim pixels needs more), and the
\* packed row.
CountedRow(bytes) ==
  LET packed == PackBits(bytes)
  IN  (IF Len(bytes) > LongRow
       THEN <<Len(packed) \div CountMod, Len(packed) % CountMod>>
       ELSE <<Len(packed) % CountMod>>) \o packed

-----------------------------------------------------------------------------
(* Files; an image is [w, h, px], px its rows of shades *)

ValidDims(img) == img.w \in 1 .. MaxDim /\ img.h \in 1 .. MaxDim

File(op, img, size, colors, rowBytes, data) ==
  [op |-> op, w |-> img.w, h |-> img.h, size |-> size, colors |-> colors,
   rowBytes |-> rowBytes % RowMod, data |-> data]

\* mode chooses the palette, a gray ramp or colors of the Mac.
EncodePackBits(img, size, mode) ==
  File("PackBitsRect", img, size, mode, PixmapRowBytes(img.w, size),
       FlattenSeq([y \in 1 .. img.h |-> CountedRow(PackPixels(img.px[y], size))]))

\* One bit a pixel, rows padded to an even number of bytes, not packed.
EncodeBitmap(img) ==
  File("BitsRect", img, 1, "bits", BitmapRowBytes(img.w),
       FlattenSeq([y \in 1 .. img.h |-> PackPixels(img.px[y], 1)]))

\* Four bytes a pixel: a pad and red, green and blue.
DirectRow(row) == FlattenSeq([x \in 1 .. Len(row) |-> <<0, row[x], row[x], row[x]>>])

EncodeDirect(img) ==
  File("DirectBitsRect", img, 32, "direct", img.w * 4,
       FlattenSeq([y \in 1 .. img.h |-> DirectRow(img.px[y])]))

-----------------------------------------------------------------------------
(* The reader: what QuickDraw makes of a file.  It expects the rows of a    *)
(* PackBitsRect packed and counted only when rowBytes is at least eight;    *)
(* the encoder packs and counts them all.                                   *)

TakenAsPacked(file) == file.op = "PackBitsRect" /\ file.rowBytes >= ShortRow

UnpackBits(s) ==
  LET from[i \in 1 .. Len(s) + 1] ==
        IF i <= Len(s) /\ s[i] < MaxRun /\ i + s[i] + 1 <= Len(s)
        THEN SubSeq(s, i + 1, i + s[i] + 1) \o from[i + s[i] + 2]
        ELSE IF i < Len(s) /\ s[i] > MaxRun
        THEN Times(CountMod + 1 - s[i], s[i + 1]) \o from[i + 2]
        ELSE <<>>
  IN  from[1]

\* Past the end of the file there are zeros.
ByteAt(file, i) == IF i <= Len(file.data) THEN file.data[i] ELSE 0

\* Where a row lies, from its count or from rowBytes alone.
RowAt(file, i) ==
  IF ~TakenAsPacked(file) THEN [from |-> i, to |-> i + file.rowBytes]
  ELSE IF file.rowBytes > LongRow
       THEN [from |-> i + 2, to |-> i + 2 + ByteAt(file, i) * CountMod + ByteAt(file, i + 1)]
       ELSE [from |-> i + 1, to |-> i + 1 + ByteAt(file, i)]

RowBytes(file, i) ==
  [k \in 1 .. RowAt(file, i).to - RowAt(file, i).from |-> ByteAt(file, RowAt(file, i).from + k - 1)]

ReadRow(file, i) ==
  IF TakenAsPacked(file) THEN UnpackBits(RowBytes(file, i)) ELSE RowBytes(file, i)

ReadRows(file) ==
  LET end[y \in 0 .. file.h] == IF y = 0 THEN 1 ELSE RowAt(file, end[y - 1]).to
  IN  [y \in 1 .. file.h |-> ReadRow(file, end[y - 1])]

\* The index or shade of a pixel in a row of bytes.
ReadPixel(bytes, x, size) ==
  IF size = 32 THEN bytes[4 * (x - 1) + 2]
  ELSE (bytes[ByteOf(x, size)] \div PlaceOf(x, size)) % Bit(size)

\* The picture, or none of it when a row is not as long as rowBytes says.
ReadImage(file) ==
  LET rows == ReadRows(file)
  IN  IF \A y \in 1 .. file.h : Len(rows[y]) = file.rowBytes
      THEN [y \in 1 .. file.h |-> [x \in 1 .. file.w |-> ReadPixel(rows[y], x, file.size)]]
      ELSE <<>>

\* A file whose rowBytes is not cut off: at most RowMod \div 4 pixels a row.
Representable(file) ==
  (IF file.size = 32 THEN 4 * file.w ELSE PixmapRowBytes(file.w, file.size)) < RowMod

\* A file whose rows, if the encoder packs them, the reader expects packed.  In
\* life a picture of at most 6 pixels a row at depth 8, 12 at depth 4 and 24 at
\* depth 2 is none: a Mac shows it as noise.
LongEnough(file) ==
  file.op = "PackBitsRect" => PixmapRowBytes(file.w, file.size) >= ShortRow

\* What the image is at that depth.
AtDepth(img, size) ==
  [y \in 1 .. img.h |-> [x \in 1 .. img.w |->
     IF size = 32 THEN img.px[y][x] ELSE Index(img.px[y][x], size)]]
=============================================================================
