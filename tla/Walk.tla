-------------------------------- MODULE Walk --------------------------------
(***************************************************************************)
(* What is made of a sequence by going over it once: the filter of an      *)
(* iterator, and a reader that decides at each place what it makes of what *)
(* is there and how much of it that was.                                   *)
(***************************************************************************)
EXTENDS Naturals, Sequences

\* Iterator::filter: the entries of s that are in S, in the order of s.
Kept(s, S) ==
  LET kept[n \in 0 .. Len(s)] ==
        IF n = 0 THEN <<>>
        ELSE IF s[n] \in S THEN Append(kept[n - 1], s[n]) ELSE kept[n - 1]
  IN  kept[Len(s)]

\* A reader that makes made[i] of what is at i and goes on taken[i] places
\* after it.
Walk(made, taken) ==
  LET from[i \in 1 .. Len(made) + 1] ==
        IF i > Len(made) THEN <<>> ELSE made[i] \o from[i + taken[i]]
  IN  from[1]
=============================================================================
