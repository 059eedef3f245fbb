------------------------------- MODULE Charset -------------------------------
(***************************************************************************)
(* charset.rs: the bytes of a string for a client that asked for UTF-8 or  *)
(* for MacRoman, and how the client reads them.  A character is its code   *)
(* point.                                                                  *)
(***************************************************************************)
EXTENDS Walk, SequencesExt, FiniteSetsExt

CONSTANTS
  Romaji,    \* ib-romaji's dictionary: Latin text of a run of Japanese
  Composed,  \* NFC: the character of a base and a combining mark
  Approx     \* deunicode: ASCII text for a character, if it has any

Chars == 0 .. 65535
Ascii == 0 .. 127

Utf8 == "utf-8"
MacRoman == "x-mac-roman"

\* The tokens of Accept-Charset, split at commas and semicolons; whatever
\* else a client accepts, and how gladly, one of these names is enough.
CharsetFromAccept(tokens) ==
  IF ToSet(tokens) \cap {"x-mac-roman", "macintosh", "mac-roman", "macroman"} # {}
  THEN MacRoman ELSE Utf8

-----------------------------------------------------------------------------
(* UTF-8, up to U+FFFF *)

Utf8Char(c) ==
  CASE c < 128  -> <<c>>
    [] c >= 128 /\ c < 2048 -> <<192 + c \div 64, 128 + (c % 64)>>
    [] OTHER    -> <<224 + c \div 4096, 128 + ((c \div 64) % 64), 128 + (c % 64)>>

ToUtf8(s) == FlattenSeq([i \in 1 .. Len(s) |-> Utf8Char(s[i])])

\* The character that begins at i, and how many bytes it has; what is none is
\* the replacement character.
WidthAt(bytes, i) ==
  IF bytes[i] \in 192 .. 223 /\ i < Len(bytes) THEN 2
  ELSE IF bytes[i] >= 224 /\ i + 1 < Len(bytes) THEN 3
  ELSE 1

CharAt(bytes, i) ==
  CASE WidthAt(bytes, i) = 3 ->
         (bytes[i] - 224) * 4096 + (bytes[i + 1] % 64) * 64 + (bytes[i + 2] % 64)
    [] WidthAt(bytes, i) = 2 -> (bytes[i] - 192) * 64 + (bytes[i + 1] % 64)
    [] OTHER -> IF bytes[i] < 128 THEN bytes[i] ELSE 65533

FromUtf8(bytes) ==
  Walk([i \in 1 .. Len(bytes) |-> <<CharAt(bytes, i)>>],
       [i \in 1 .. Len(bytes) |-> WidthAt(bytes, i)])

-----------------------------------------------------------------------------
(* MacRoman *)

\* The characters of the bytes 128 to 255, in the order of the bytes.
LatinExt == <<
  196, 197, 199, 201, 209, 214, 220, 225, 224, 226, 228, 227, 229, 231, 233, 232,
  234, 235, 237, 236, 238, 239, 241, 243, 242, 244, 246, 245, 250, 249, 251, 252,
  8224, 176, 162, 163, 167, 8226, 182, 223, 174, 169, 8482, 180, 168, 8800, 198, 216,
  8734, 177, 8804, 8805, 165, 181, 8706, 8721, 8719, 960, 8747, 170, 186, 937, 230, 248,
  191, 161, 172, 8730, 402, 8776, 8710, 171, 187, 8230, 160, 192, 195, 213, 338, 339,
  8211, 8212, 8220, 8221, 8216, 8217, 247, 9674, 255, 376, 8260, 8364, 8249, 8250, 64257,
  64258, 8225, 183, 8218, 8222, 8240, 194, 202, 193, 203, 200, 205, 206, 207, 204, 211,
  212, 63743, 210, 218, 219, 217, 305, 710, 732, 175, 728, 729, 730, 184, 733, 731, 711>>

\* The characters a Mac has beyond ASCII.
Accents == {LatinExt[i] : i \in 1 .. Len(LatinExt)}

Marks == 768 .. 879 \cup {12441, 12442}
Space == 32
Alphabetic(c) == c \in (65 .. 90) \cup (97 .. 122) \/ (c >= 192 /\ c \notin Marks \cup {215, 247})

\* Kana, their extensions and halfwidth forms, and the ideographs: the first
\* and the last character of each block.
JapaneseBlocks ==
  {<<12352, 12543>>, <<12784, 12799>>, <<65382, 65439>>, <<13312, 19903>>, <<19968, 40959>>}
IsJapaneseScript(c) == \E block \in JapaneseBlocks : block[1] <= c /\ c <= block[2]

\* The characters a Mac can show.
OnTheMac(c) == c < 128 \/ c \in Accents

\* The marks that compose with a base, and those of them that make a letter
\* of the Mac, or change one.
Combining == {pair[2] : pair \in DOMAIN Composed}
Accenting == {pair[2] : pair \in {p \in DOMAIN Composed : {p[1], Composed[p]} \cap Accents # {}}}

\* The dictionaries.  No word of Japanese has a letter of the Mac, or a mark
\* that makes one; it is spelled in ASCII.  Marks are neither ASCII nor letters
\* of the Mac, what is composed is not ASCII, and the letters of the Mac are
\* composed of its own, with marks that are not Japanese.  deunicode returns
\* ASCII.
ASSUME CharsetAssumption ==
  /\ \A run \in DOMAIN Romaji :
       /\ run # <<>> /\ Romaji[run] \in Seq(Ascii)
       /\ \A i \in 1 .. Len(run) : run[i] \notin Accents \cup Accenting
  /\ \A pair \in DOMAIN Composed :
       /\ pair[2] \notin Ascii \cup Accents /\ Composed[pair] \in Chars \ Ascii
       /\ Composed[pair] \in Accents => OnTheMac(pair[1]) /\ ~IsJapaneseScript(pair[2])
  /\ \A c \in DOMAIN Approx : Approx[c] \in Seq(Ascii)

\* The characters of Japanese words, and the marks that stand on them.
Kana == (UNION {ToSet(run) : run \in DOMAIN Romaji}) \cup (Combining \ Accenting)

HasJapanese(s) == \E i \in 1 .. Len(s) : IsJapaneseScript(s[i])

\* A tag, as it is written: accents are not put on Japanese.
Writable(s) ==
  /\ s \in Seq(Chars)
  /\ HasJapanese(s) =>
       \A i \in 1 .. Len(s) - 1 : s[i + 1] \in Accenting => s[i] \notin Kana

\* How long the words are that begin at i.
Hits(s, i) == {n \in 1 .. Len(s) - i + 1 : SubSeq(s, i, i + n - 1) \in DOMAIN Romaji}

\* A letter that follows a romanized run is kept off it by a space.
Gap(s, i) == IF i <= Len(s) /\ Hits(s, i) = {} /\ Alphabetic(s[i]) THEN <<Space>> ELSE <<>>

\* Greedy, longest match first; what no word begins with stays.
Taken(s, i) == IF Hits(s, i) = {} THEN 1 ELSE Max(Hits(s, i))

Spelled(s, i) ==
  IF Hits(s, i) = {} THEN <<s[i]>>
  ELSE Romaji[SubSeq(s, i, i + Taken(s, i) - 1)] \o Gap(s, i + Taken(s, i))

RomanizeJapanese(s) ==
  Walk([i \in 1 .. Len(s) |-> Spelled(s, i)], [i \in 1 .. Len(s) |-> Taken(s, i)])

\* char::nfc, for marks that follow their base.
Compose(out, c) ==
  IF out # <<>> /\ <<Last(out), c>> \in DOMAIN Composed
  THEN Append(Front(out), Composed[<<Last(out), c>>])
  ELSE Append(out, c)

Nfc(s) ==
  LET out[i \in 0 .. Len(s)] == IF i = 0 THEN <<>> ELSE Compose(out[i - 1], s[i])
  IN  out[Len(s)]

EncodeChar(c) ==
  CASE c < 128 -> <<c>>
    [] c >= 128 /\ c \in Accents -> <<127 + CHOOSE i \in 1 .. Len(LatinExt) : LatinExt[i] = c>>
    [] c \in Marks \ Accents -> <<>>
    [] OTHER -> IF c \in DOMAIN Approx THEN Approx[c] ELSE <<63>>

\* Fault: the letters are looked up before they are composed.
ToMacRomanDecomposed(s) == FlattenSeq([i \in 1 .. Len(s) |-> EncodeChar(s[i])])

ToMacRoman(s) ==
  LET nfc == Nfc(IF HasJapanese(s) THEN RomanizeJapanese(s) ELSE s)
  IN  FlattenSeq([i \in 1 .. Len(nfc) |-> EncodeChar(nfc[i])])

Encode(charset, s) == IF charset = MacRoman THEN ToMacRoman(s) ELSE ToUtf8(s)

\* The other end: what a client sees of the bytes, by the charset declared.
FromMacRoman(bytes) ==
  [i \in 1 .. Len(bytes) |->
     IF bytes[i] < 128 THEN bytes[i] ELSE LatinExt[bytes[i] - 127]]

Shown(charset, bytes) ==
  IF charset = MacRoman THEN FromMacRoman(bytes) ELSE FromUtf8(bytes)

-----------------------------------------------------------------------------
(* What it should show: in UTF-8 the text itself; on a Mac every character *)
(* of the composed text that the Mac has, in its order, and only ASCII in  *)
(* place of the others.                                                    *)

Legible(charset, text, shown) ==
  LET composed == Nfc(text)
  IN  IF charset = Utf8 THEN shown = text
      ELSE /\ Kept(shown, Accents) = Kept(composed, Accents)
           /\ ((\A i \in 1 .. Len(composed) : OnTheMac(composed[i])) => shown = composed)
=============================================================================
