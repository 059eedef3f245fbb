------------------------------- MODULE MCDaap -------------------------------
(***************************************************************************)
(* Values for Daap: the library of MCListing with its metadata, in texts   *)
(* that a Mac has, has composed only, spells otherwise or does not have.   *)
(* Numbers are counted in bytes of MCByte values, so a size can pass the   *)
(* largest of 32 bits.                                                     *)
(***************************************************************************)
EXTENDS MCListing, Daap

MCByte == 16

Acute == 769
Plain == <<66, 97>>
Composite == <<69, Acute, 116, 233>>         \* E + acute, t, e acute
Stray == <<120, Acute, 8212, 9731>>          \* an acute x does not take, a dash, a snowman
Mixed == <<12354, 12426, 97, 12363, 12441, 21271, 223>> \* ari, a, ka and its mark, a Han character, sharp s

MCRomaji == (<<12354>> :> <<97>>) @@ (<<12354, 12426>> :> <<97, 114, 105>>)
MCComposed == (<<69, Acute>> :> 201) @@ (<<101, Acute>> :> 233) @@ (<<12363, 12441>> :> 12364)
MCApprox == (21271 :> <<66, 101, 105, 32>>)

MCMeta == <<
  [id |-> 1, title |-> Composite, artist |-> Mixed, format |-> "flac", trackNumber |-> 3,
   durationMs |-> 900, sizeBytes |-> 65536, year |-> 7],
  [id |-> 2, title |-> Plain, artist |-> Stray, album |-> Composite, format |-> "mp3",
   bitrateKbps |-> 192, sizeBytes |-> 65535],
  [id |-> 3, title |-> Mixed, artist |-> Mixed, albumArtist |-> Plain, genre |-> <<>>,
   format |-> "ogg", discNumber |-> 1, sampleRate |-> 44100, year |-> 7],
  [id |-> 4, title |-> Stray, format |-> "aac", durationMs |-> 65535, year |-> 8]>>

\* What choose_format makes of the formats for an old client.
MCServedAs == [f \in DOMAIN FormatString |->
  IF f \in {"mp3", "aiff", "wav"} THEN [format |-> f, kbps |-> 0] ELSE [format |-> "mp3", kbps |-> 128]]

MCName == <<83, 233>>
MCDatabases == <<[id |-> 1, name |-> MCName]>>
MCHeaders == {[accept |-> <<>>, dialect |-> "1.0"],
              [accept |-> <<"utf-8", "q=0.5", "x-mac-roman">>, dialect |-> "3.10"]}
=============================================================================
