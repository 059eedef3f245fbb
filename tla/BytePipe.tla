------------------------------ MODULE BytePipe ------------------------------
(***************************************************************************)
(* What a response body promises its client, whatever runs in between: the *)
(* bytes come out in the order they went in, none twice and none missing,  *)
(* and the end the client sees is the end the producer had, after its last *)
(* byte.  BufferedBody is shown to implement it.                           *)
(*                                                                         *)
(* A byte is its position in the stream, so a contiguous run of bytes is a *)
(* slice [lo, hi): the bytes at positions lo .. hi-1.                      *)
(***************************************************************************)
EXTENDS Naturals

VARIABLES
  written,    \* bytes the producer has emitted
  fate,       \* how the producer ended: "open" while it has not
  out,        \* the slice most recently handed to the client
  seen,       \* the end the client has been told of: "open" while none
  attached    \* the client still holds the body

vars == <<written, fate, out, seen, attached>>

Ends == {"eof", "error"}

Init ==
  /\ written \in Nat            \* a header may be there from the start
  /\ fate = "open"
  /\ out = [lo |-> 0, hi |-> 0]
  /\ seen = "open"
  /\ attached = TRUE

Write ==
  /\ fate = "open"
  /\ written' \in Nat
  /\ written' > written
  /\ UNCHANGED <<fate, out, seen, attached>>

Finish ==
  /\ fate = "open"
  /\ fate' \in Ends
  /\ UNCHANGED <<written, out, seen, attached>>

\* The next bytes in order, and only bytes that were written.
Take ==
  /\ attached
  /\ seen = "open"
  /\ \E hi \in (out.hi + 1) .. written : out' = [lo |-> out.hi, hi |-> hi]
  /\ UNCHANGED <<written, fate, seen, attached>>

\* The end comes after the last byte and says how the producer ended.
See ==
  /\ attached
  /\ seen = "open"
  /\ fate \in Ends
  /\ out.hi = written
  /\ seen' = fate
  /\ UNCHANGED <<written, fate, out, attached>>

Detach ==
  /\ attached
  /\ attached' = FALSE
  /\ UNCHANGED <<written, fate, out, seen>>

Next == Write \/ Finish \/ Take \/ See \/ Detach

Spec == Init /\ [][Next]_vars
=============================================================================
