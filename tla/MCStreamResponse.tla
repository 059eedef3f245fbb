-------------------------- MODULE MCStreamResponse --------------------------
(***************************************************************************)
(* Tracks of a few bytes and of two or three milliseconds for              *)
(* StreamResponse, with the sample and bit rates of the code.              *)
(***************************************************************************)
EXTENDS StreamResponse

T(f, size, ms, us, bytes, produces) ==
  [format |-> f, size |-> size, durationMs |-> ms, micros |-> us,
   bytes |-> bytes, produces |-> produces]

\* Untouched, truncated and grown since the scan, too large for the buffer;
\* probed exactly, not at all, and without any duration; encoded shorter and
\* longer than estimated.
MCTracks ==
  {T("mp3", 5, 2, 2700, 5, 60), T("wav", 5, 2, 2700, 3, 60), T("aac", 4, 2, 1300, 6, 29),
   T("flac", 6, 2, 2700, 6, 60), T("ogg", 5, 2, 2700, 5, 27), T("alac", 5, 3, None, 5, 66),
   T("flac", 6, None, None, 6, 40), T("other", 5, 2, 2700, 9, 37),
   T("mp3", None, 2, 2700, 5, 60), T("flac", None, 2, 2700, 5, 60)}

MCConfigs == [enabled : BOOLEAN, kbps : {128}]
MCClients == [modern : BOOLEAN, aiff : BOOLEAN]
=============================================================================
