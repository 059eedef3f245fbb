---------------------------- MODULE BufferedBody ----------------------------
(***************************************************************************)
(* The body of a transcoded response: a drainer task reads the producer    *)
(* (ffmpeg's stdout) into a bounded channel, and the HTTP side polls the   *)
(* other end (buffered_body.rs).  A PrefixReader in front of it puts a     *)
(* hand-made AIFF header before the first byte (prefix_reader.rs); its     *)
(* length is PrefixLen, 0 for the bodies that have none.                   *)
(*                                                                         *)
(* A byte is its position in the stream the client is to receive, header   *)
(* included; a chunk is the slice [lo, hi) of it.  An empty slice stands   *)
(* for None.  An error message is the empty slice at the end with err set. *)
(***************************************************************************)
EXTENDS Naturals, Sequences

CONSTANTS
  Chunk,      \* CHUNK: most bytes one read of the producer returns
  CapBytes,   \* cap_bytes of BufferedBody::spawn
  PrefixLen,  \* bytes of the PrefixReader's header
  RoomMax,    \* largest buffer the HTTP side polls with
  MaxBytes    \* bound on the stream length explored

ASSUME BodyAssumption ==
  /\ Chunk \in Nat \ {0}
  /\ CapBytes \in Nat
  /\ PrefixLen \in Nat
  /\ RoomMax \in Nat \ {0}
  /\ MaxBytes \in Nat
  /\ PrefixLen <= MaxBytes

VARIABLES
  produced,      \* position after the last byte read from the producer
  source,        \* what the producer's last read said: "open", "eof", "error"
  drainer,       \* the drainer task: "reading", "sending" or "done"
  hand,          \* the message the drainer is sending
  chan,          \* messages in the channel, oldest first
  receiver,      \* "open", "fused" (has returned its end) or "dropped"
  partial,       \* leftover of a chunk larger than the caller's buffer
  prefixOffset,  \* bytes of the header already handed out
  out,           \* the slice the last poll put in the caller's buffer
  seen           \* the end the caller was told: "open", "eof" or "error"

drainVars == <<produced, source, drainer, hand>>
readVars  == <<receiver, partial, prefixOffset, out, seen>>
vars == <<produced, source, drainer, hand, chan, receiver, partial,
          prefixOffset, out, seen>>

Min2(a, b) == IF a <= b THEN a ELSE b
Slice(lo, hi) == [lo |-> lo, hi |-> hi]
Ok(s) == [lo |-> s.lo, hi |-> s.hi, err |-> FALSE]
Err == [lo |-> produced, hi |-> produced, err |-> TRUE]

\* Capacity of the channel in messages: rounded down, and never below four.
ChanCap == IF CapBytes \div Chunk < 4 THEN 4 ELSE CapBytes \div Chunk

Init ==
  /\ produced = PrefixLen
  /\ source = "open"
  /\ drainer = "reading"
  /\ hand = Ok(Slice(PrefixLen, PrefixLen))
  /\ chan = <<>>
  /\ receiver = "open"
  /\ partial = Slice(PrefixLen, PrefixLen)
  /\ prefixOffset = 0
  /\ out = Slice(0, 0)
  /\ seen = "open"

-----------------------------------------------------------------------------
(* The drainer task.                                                       *)

ReadChunk(n) ==
  /\ drainer = "reading"
  /\ produced + n <= MaxBytes
  /\ produced' = produced + n
  /\ hand' = Ok(Slice(produced, produced + n))
  /\ drainer' = "sending"
  /\ UNCHANGED <<source, chan, readVars>>

\* Fault: a read of zero bytes is sent on like any other.
ReadEofSent ==
  /\ drainer = "reading"
  /\ source' = "eof"
  /\ hand' = Ok(Slice(produced, produced))
  /\ drainer' = "sending"
  /\ UNCHANGED <<produced, chan, readVars>>

ReadEof ==
  /\ drainer = "reading"
  /\ source' = "eof"
  /\ drainer' = "done"          \* drops tx: the channel closes
  /\ UNCHANGED <<produced, hand, chan, readVars>>

ReadError ==
  /\ drainer = "reading"
  /\ source' = "error"
  /\ hand' = Err
  /\ drainer' = "sending"
  /\ UNCHANGED <<produced, chan, readVars>>

\* Fault: an unbounded channel.
SendUnbounded ==
  /\ drainer = "sending"
  /\ receiver # "dropped"
  /\ chan' = Append(chan, hand)
  /\ drainer' = IF hand.err THEN "done" ELSE "reading"
  /\ UNCHANGED <<produced, source, hand, readVars>>

\* send().await waits for a free slot.
Send ==
  /\ drainer = "sending"
  /\ receiver # "dropped"
  /\ Len(chan) < ChanCap
  /\ chan' = Append(chan, hand)
  /\ drainer' = IF hand.err THEN "done" ELSE "reading"
  /\ UNCHANGED <<produced, source, hand, readVars>>

\* Fault: a failed send is noticed only for the error message.
SendFailsUnnoticed ==
  /\ drainer = "sending"
  /\ receiver = "dropped"
  /\ hand.err
  /\ drainer' = "done"
  /\ UNCHANGED <<produced, source, hand, chan, readVars>>

\* The receiver is gone: the send fails, waiting or not, and the task ends.
SendFails ==
  /\ drainer = "sending"
  /\ receiver = "dropped"
  /\ drainer' = "done"
  /\ UNCHANGED <<produced, source, hand, chan, readVars>>

-----------------------------------------------------------------------------
(* poll_read, with room bytes left in the caller's buffer.                 *)

PollPrefix(room) ==
  /\ receiver # "dropped"
  /\ prefixOffset < PrefixLen
  /\ prefixOffset' = prefixOffset + Min2(PrefixLen - prefixOffset, room)
  /\ out' = Slice(prefixOffset, prefixOffset')
  /\ UNCHANGED <<drainVars, chan, receiver, partial, seen>>

\* BufferedBody is reached only once the header is out.
Polled ==
  /\ prefixOffset = PrefixLen
  /\ receiver = "open"

\* Fault: what did not fit is forgotten.
DeliverWhole(chunk, room) ==
  LET cut == chunk.lo + Min2(chunk.hi - chunk.lo, room) IN
  /\ out' = Slice(chunk.lo, cut)
  /\ partial' = Slice(chunk.hi, chunk.hi)

\* Copy what fits of chunk to the caller and keep the rest.
Deliver(chunk, room) ==
  LET cut == chunk.lo + Min2(chunk.hi - chunk.lo, room) IN
  /\ out' = Slice(chunk.lo, cut)
  /\ partial' = Slice(cut, chunk.hi)

PollPartial(room) ==
  /\ Polled
  /\ partial.lo < partial.hi
  /\ Deliver(partial, room)
  /\ UNCHANGED <<drainVars, chan, receiver, prefixOffset, seen>>

PollChunk(room) ==
  /\ Polled
  /\ partial.lo = partial.hi
  /\ chan # <<>>
  /\ ~Head(chan).err
  /\ Deliver(Head(chan), room)
  /\ chan' = Tail(chan)
  /\ UNCHANGED <<drainVars, receiver, prefixOffset, seen>>

PollError ==
  /\ Polled
  /\ partial.lo = partial.hi
  /\ chan # <<>>
  /\ Head(chan).err
  /\ chan' = Tail(chan)
  /\ receiver' = "fused"
  /\ seen' = "error"
  /\ UNCHANGED <<drainVars, partial, prefixOffset, out>>

\* Every sender is gone and nothing is left in the channel.
PollEof ==
  /\ Polled
  /\ partial.lo = partial.hi
  /\ chan = <<>>
  /\ drainer = "done"
  /\ receiver' = "fused"
  /\ seen' = "eof"
  /\ UNCHANGED <<drainVars, chan, partial, prefixOffset, out>>

\* The client disconnects, or the response is complete: the body is dropped
\* with the channel's content.
DropBody ==
  /\ receiver # "dropped"
  /\ receiver' = "dropped"
  /\ chan' = <<>>
  /\ partial' = Slice(partial.hi, partial.hi)
  /\ UNCHANGED <<drainVars, prefixOffset, out, seen>>

-----------------------------------------------------------------------------
Producer == (\E n \in 1 .. Chunk : ReadChunk(n)) \/ ReadEof \/ ReadError
Drainer  == Send \/ SendFails
Reader   == \/ \E room \in 1 .. RoomMax :
                 PollPrefix(room) \/ PollPartial(room) \/ PollChunk(room)
            \/ PollError \/ PollEof

Next == Producer \/ Drainer \/ Reader \/ DropBody

Spec == Init /\ [][Next]_vars

\* The runtime polls a ready task; the producer reads from memory and so
\* answers every read.  Nothing is assumed of the client.
TaskFairness == WF_vars(Producer) /\ WF_vars(Drainer)

LiveSpec == Spec /\ TaskFairness

\* A client that keeps reading until it is told the end.
PatientClient == WF_vars(Reader)
-----------------------------------------------------------------------------
Position == 0 .. MaxBytes
Slices   == [lo : Position, hi : Position]
Message  == [lo : Position, hi : Position, err : BOOLEAN]

\* Every variable keeps its type and the channel keeps its capacity.
TypeOK ==
  /\ produced \in Position
  /\ source \in {"open", "eof", "error"}
  /\ drainer \in {"reading", "sending", "done"}
  /\ hand \in Message
  /\ chan \in Seq(Message)
  /\ Len(chan) <= ChanCap
  /\ receiver \in {"open", "fused", "dropped"}
  /\ partial \in Slices
  /\ prefixOffset \in 0 .. PrefixLen
  /\ out \in Slices
  /\ seen \in {"open", "eof", "error"}

\* The end the client is told is the producer's own, told after its last
\* byte: a failed producer is never a clean end and no tail is cut off.
EndIsTruthful ==
  seen # "open" => seen = source /\ out.hi = produced

\* How far the producer can run ahead of the client: the channel full, one
\* chunk in the drainer's hand, and what is left of the chunk being read.
\* This is what bounds the memory a slow client costs.
RunAheadBounded ==
  receiver # "dropped" =>
    produced - partial.lo <= (ChanCap + 2) * Chunk - 1

\* Once told the end the client is handed nothing more and told nothing else.
SilenceAfterEnd == [][seen # "open" => out' = out /\ seen' = seen]_vars

\* The body implements the abstract pipe.
Pipe == INSTANCE BytePipe WITH
          written  <- produced,
          fate     <- source,
          attached <- receiver # "dropped"

PipeSpec == Pipe!Spec

\* A client that disconnects frees the drainer, and with it ffmpeg and the
\* transcoder slot the reader owns: a send fails, or the producer ends.
DrainerIsReleased == (receiver = "dropped") ~> (drainer = "done")

\* A client that keeps reading is told the end.
EndIsDelivered == PatientClient => <>(seen # "open" \/ receiver = "dropped")
=============================================================================
