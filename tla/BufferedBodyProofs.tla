------------------------- MODULE BufferedBodyProofs -------------------------
(***************************************************************************)
(* What holds of a response body for every chunk size, channel capacity,   *)
(* header length and stream length: the end the client is told is the      *)
(* producer's, the run-ahead is bounded, and the body implements the       *)
(* abstract pipe.                                                          *)
(*                                                                         *)
(* The argument is one inductive invariant: leftover, channel and hand, in *)
(* this order, are adjacent slices that reach from what the client has to  *)
(* what the producer has given.                                            *)
(***************************************************************************)
EXTENDS BufferedBody, TLAPS

Span(k) == k * Chunk

\* Where the next message to enter the channel has to start.
TailPos == IF chan = <<>> THEN partial.hi ELSE chan[Len(chan)].hi

DrainerInv ==
  /\ drainer = "reading" => source = "open"
  /\ drainer = "done" /\ receiver # "dropped" => source # "open"
  /\ drainer = "sending" =>
       /\ hand.hi = produced
       /\ hand.lo <= hand.hi
       /\ hand.hi - hand.lo <= Chunk
       /\ source = IF hand.err THEN "error" ELSE "open"
       /\ hand.err <=> hand.lo = hand.hi

PrefixInv ==
  IF prefixOffset < PrefixLen
  THEN out.hi = prefixOffset /\ partial.lo = PrefixLen /\ receiver = "open"
  ELSE out.hi = partial.lo

PartialInv ==
  /\ partial.lo <= partial.hi
  /\ partial.hi - partial.lo <= Chunk - 1

LinkInv ==
  \A i \in 1 .. Len(chan) :
    /\ chan[i].lo = IF i = 1 THEN partial.hi ELSE chan[i - 1].hi
    /\ chan[i].lo <= chan[i].hi
    /\ chan[i].hi - chan[i].lo <= Chunk
    /\ chan[i].err <=> chan[i].lo = chan[i].hi
    /\ chan[i].hi <= TailPos
    /\ TailPos - chan[i].lo <= Span(Len(chan) - i + 1)
    /\ chan[i].err => /\ i = Len(chan)
                      /\ drainer = "done"
                      /\ source = "error"

TailInv ==
  /\ TailPos = IF drainer = "sending" THEN hand.lo ELSE produced
  /\ drainer = "done" /\ source = "error" /\ receiver = "open" =>
       chan # <<>> /\ chan[Len(chan)].err

SeenInv ==
  /\ receiver = "open" => seen = "open"
  /\ seen # "open" => /\ seen = source
                      /\ out.hi = produced
                      /\ drainer = "done"
                      /\ receiver # "open"
                      /\ prefixOffset = PrefixLen

IInv ==
  /\ TypeOK
  /\ DrainerInv
  /\ SeenInv
  /\ receiver # "dropped" => PrefixInv /\ PartialInv /\ LinkInv /\ TailInv

-----------------------------------------------------------------------------
(* Arithmetic of spans, so that no later step multiplies two unknowns.     *)

\* A span of one message more is one chunk longer.
LEMMA SpanStep ==
  ASSUME NEW k \in Nat
  PROVE  /\ Span(k) \in Nat
         /\ Span(k + 1) = Span(k) + Chunk
BY BodyAssumption, SMT DEF Span

\* A span of more messages is at least as long.
LEMMA SpanMonotone ==
  ASSUME NEW j \in Nat, NEW k \in Nat, j <= k
  PROVE  Span(j) <= Span(k)
<1>1. (k - j) * Chunk >= 0
  BY BodyAssumption, SMT
<1>2. k * Chunk = j * Chunk + (k - j) * Chunk
  BY BodyAssumption, SMT
<1>3. QED
  BY <1>1, <1>2, BodyAssumption, SMT DEF Span

\* The channel's capacity is a number, at least four.
LEMMA ChanCapNat == ChanCap \in Nat /\ ChanCap >= 4
BY BodyAssumption, SMT DEF ChanCap

-----------------------------------------------------------------------------
(* What Head, Tail and Append do to a sequence, cell by cell.              *)

LEMMA HeadTail ==
  ASSUME NEW S, NEW s \in Seq(S), s # <<>>
  PROVE  /\ Len(s) \in Nat \ {0}
         /\ Head(s) = s[1]
         /\ Head(s) \in S
         /\ Tail(s) \in Seq(S)
         /\ Len(Tail(s)) = Len(s) - 1
         /\ \A i \in 1 .. Len(s) - 1 : Tail(s)[i] = s[i + 1]
OBVIOUS

LEMMA AppendCells ==
  ASSUME NEW S, NEW s \in Seq(S), NEW e \in S
  PROVE  /\ Len(s) \in Nat
         /\ Append(s, e) \in Seq(S)
         /\ Len(Append(s, e)) = Len(s) + 1
         /\ \A i \in 1 .. Len(s) : Append(s, e)[i] = s[i]
         /\ Append(s, e)[Len(s) + 1] = e
         /\ Append(s, e) # <<>>
OBVIOUS

-----------------------------------------------------------------------------
\* The invariant holds initially.
LEMMA InitIInv == Init => IInv
<1> SUFFICES ASSUME Init PROVE IInv
  OBVIOUS
<1> USE BodyAssumption DEF Init
<1>1. TypeOK
  BY ChanCapNat DEF TypeOK, Ok, Slice, Message, Slices, Position
<1>2. DrainerInv /\ SeenInv
  BY DEF DrainerInv, SeenInv
<1>3. PrefixInv /\ PartialInv /\ LinkInv /\ TailInv
  BY DEF PrefixInv, PartialInv, LinkInv, TailInv, TailPos, Slice
<1>4. QED
  BY <1>1, <1>2, <1>3 DEF IInv

\* Every step keeps the types.
LEMMA TypeStep == TypeOK /\ DrainerInv /\ (receiver # "dropped" => PrefixInv /\ PartialInv /\ LinkInv) /\ [Next]_vars => TypeOK'
<1> SUFFICES ASSUME TypeOK, [Next]_vars, DrainerInv,
                    receiver # "dropped" => PrefixInv /\ PartialInv /\ LinkInv
             PROVE  TypeOK'
  OBVIOUS
<1> USE BodyAssumption, ChanCapNat
    DEF TypeOK, Message, Slices, Position, Slice, drainVars, readVars
<1>1. ASSUME NEW n \in 1 .. Chunk, ReadChunk(n) PROVE TypeOK'
  BY <1>1 DEF ReadChunk, Ok
<1>2. CASE ReadEof
  BY <1>2 DEF ReadEof
<1>3. CASE ReadError
  BY <1>3 DEF ReadError, Err
<1>4. CASE Send
  BY <1>4 DEF Send
<1>5. CASE SendFails
  BY <1>5 DEF SendFails
<1>6. ASSUME NEW room \in 1 .. RoomMax, PollPrefix(room) PROVE TypeOK'
  BY <1>6 DEF PollPrefix, Min2
<1>7. ASSUME NEW room \in 1 .. RoomMax, PollPartial(room) PROVE TypeOK'
  BY <1>7 DEF PollPartial, Polled, Deliver, Min2
<1>8. ASSUME NEW room \in 1 .. RoomMax, PollChunk(room) PROVE TypeOK'
  <2>1. chan # <<>> /\ chan \in Seq(Message)
    BY <1>8 DEF PollChunk
  <2>2. Head(chan) \in Message /\ Head(chan) = chan[1] /\ 1 \in 1 .. Len(chan)
    <3> HIDE DEF Message
    <3>1. Len(chan) \in Nat \ {0}
      BY <2>1, HeadTail
    <3>2. Head(chan) = chan[1] /\ Head(chan) \in Message
      BY <2>1, HeadTail
    <3>3. QED
      BY <3>1, <3>2
  <2>3. Head(chan).lo <= Head(chan).hi
    BY <2>2, <1>8 DEF PollChunk, Polled, LinkInv
  <2>4. chan' \in Seq(Message) /\ Len(chan') <= ChanCap
    BY <2>1, <1>8, HeadTail DEF PollChunk
  <2>5. out' \in Slices /\ partial' \in Slices
    BY SMTT(40), <1>8, <2>2, <2>3 DEF PollChunk, Deliver, Min2
  <2>6. QED
    BY <1>8, <2>4, <2>5 DEF PollChunk
<1>9. CASE PollError
  BY <1>9 DEF PollError
<1>10. CASE PollEof
  BY <1>10 DEF PollEof
<1>11. CASE DropBody
  BY <1>11 DEF DropBody
<1>12. CASE UNCHANGED vars
  BY <1>12 DEF vars
<1>13. QED
  BY <1>1, <1>2, <1>3, <1>4, <1>5, <1>6, <1>7, <1>8, <1>9, <1>10, <1>11,
     <1>12 DEF Next, Producer, Drainer, Reader

-----------------------------------------------------------------------------
(* The rest of the invariant, one action at a time.                        *)

Attached == receiver # "dropped"

\* The slices between the client and the producer.
ChainInv == PrefixInv /\ PartialInv /\ LinkInv /\ TailInv

\* What reading the producer keeps.
LEMMA ProducerStep ==
  ASSUME IInv, Producer, TypeOK'
  PROVE  DrainerInv' /\ SeenInv' /\ (Attached => ChainInv)'
<1> USE BodyAssumption DEF IInv, Attached
<1>1. CASE \E n \in 1 .. Chunk : ReadChunk(n)
  <2> PICK n \in 1 .. Chunk : ReadChunk(n)
    BY <1>1
  <2> USE DEF ReadChunk, readVars, Ok, Slice
  <2>1. DrainerInv'
    BY DEF DrainerInv, TypeOK, Position
  <2>2. SeenInv'
    BY DEF SeenInv, TypeOK
  <2>3. ASSUME Attached PROVE ChainInv'
    <3>1. PrefixInv' /\ PartialInv'
      BY <2>3 DEF PrefixInv, PartialInv
    <3>2. LinkInv' /\ TailInv'
      BY <2>3 DEF LinkInv, TailInv, TailPos, TypeOK
    <3>3. QED
      BY <3>1, <3>2 DEF ChainInv
  <2>4. QED
    BY <2>1, <2>2, <2>3
<1>2. CASE ReadEof
  <2> USE <1>2 DEF ReadEof, readVars
  <2>1. DrainerInv' /\ SeenInv'
    BY DEF DrainerInv, SeenInv, TypeOK
  <2>2. ASSUME Attached PROVE ChainInv'
    BY <2>2 DEF ChainInv, PrefixInv, PartialInv, LinkInv, TailInv, TailPos
  <2>3. QED
    BY <2>1, <2>2
<1>3. CASE ReadError
  <2> USE <1>3 DEF ReadError, readVars, Err
  <2>1. DrainerInv' /\ SeenInv'
    BY DEF DrainerInv, SeenInv, TypeOK, Position
  <2>2. ASSUME Attached PROVE ChainInv'
    BY <2>2 DEF ChainInv, PrefixInv, PartialInv, LinkInv, TailInv, TailPos
  <2>3. QED
    BY <2>1, <2>2
<1>4. QED
  BY <1>1, <1>2, <1>3 DEF Producer

\* What a completed send keeps: the message joins the chain at its end.
LEMMA SendStep ==
  ASSUME IInv, Send, TypeOK'
  PROVE  DrainerInv' /\ SeenInv' /\ (Attached => ChainInv)'
<1> USE BodyAssumption DEF IInv, Attached, Send, readVars
<1>1. DrainerInv' /\ SeenInv'
  BY DEF DrainerInv, SeenInv, TypeOK
<1>2. chan \in Seq(Message) /\ hand \in Message
  BY DEF TypeOK
<1>3. /\ Len(chan) \in Nat
      /\ Len(chan') = Len(chan) + 1
      /\ \A i \in 1 .. Len(chan) : chan'[i] = chan[i]
      /\ chan'[Len(chan) + 1] = hand
      /\ chan' # <<>>
  BY <1>2, AppendCells
<1>4. PrefixInv' /\ PartialInv'
  BY DEF PrefixInv, PartialInv
<1>5. TailPos' = hand.hi /\ TailPos = hand.lo
  BY <1>3 DEF TailPos, TailInv
<1>6. TailInv'
  BY <1>3, <1>5 DEF TailInv, DrainerInv
<1>7. ASSUME NEW i \in 1 .. Len(chan')
      PROVE  /\ chan'[i].lo = IF i = 1 THEN partial'.hi ELSE chan'[i - 1].hi
             /\ chan'[i].lo <= chan'[i].hi
             /\ chan'[i].hi - chan'[i].lo <= Chunk
             /\ chan'[i].err <=> chan'[i].lo = chan'[i].hi
             /\ chan'[i].hi <= TailPos'
             /\ TailPos' - chan'[i].lo <= Span(Len(chan') - i + 1)
             /\ chan'[i].err => /\ i = Len(chan')
                                /\ drainer' = "done"
                                /\ source' = "error"
  <2>1. hand.lo \in Nat /\ hand.hi \in Nat
    BY <1>2 DEF Message, Position
  <2>2. /\ hand.lo <= hand.hi
        /\ hand.hi - hand.lo <= Chunk
        /\ hand.err <=> hand.lo = hand.hi
        /\ hand.err => source = "error"
    BY DEF DrainerInv
  <2>3. CASE i = Len(chan) + 1
    <3>1. chan'[i] = hand
      BY <2>3, <1>3
    <3>2. hand.lo = IF i = 1 THEN partial'.hi ELSE chan'[i - 1].hi
      <4>1. CASE chan = <<>>
        BY <4>1, <2>3, <1>5 DEF TailPos
      <4>2. CASE chan # <<>>
        <5>1. Len(chan) >= 1
          BY <4>2, <1>2, HeadTail
        <5>2. chan'[i - 1] = chan[Len(chan)] /\ i # 1
          BY <5>1, <2>3, <1>3
        <5>3. QED
          BY <5>2, <4>2, <1>5 DEF TailPos
      <4>3. QED
        BY <4>1, <4>2
    <3>3. Span(Len(chan') - i + 1) = Chunk
      BY <2>3, <1>3 DEF Span
    <3>4. QED
      BY <3>1, <3>2, <3>3, <2>1, <2>2, <2>3, <1>3, <1>5
  <2>4. CASE i # Len(chan) + 1
    <3>1. i \in 1 .. Len(chan)
      BY <2>4, <1>3
    <3>2. /\ chan'[i] = chan[i]
          /\ i # 1 => chan'[i - 1] = chan[i - 1]
      BY <3>1, <1>3
    <3>3. chan[i] \in Message
      BY <3>1, <1>2
    <3>4. chan[i].lo \in Nat /\ chan[i].hi \in Nat
      BY <3>3 DEF Message, Position
    <3>5. ~chan[i].err
      BY <3>1 DEF LinkInv
    <3>6. /\ Len(chan) - i + 1 \in Nat
          /\ Len(chan') - i + 1 = (Len(chan) - i + 1) + 1
      BY <3>1, <1>3
    <3>7. /\ Span(Len(chan) - i + 1) \in Nat
          /\ Span(Len(chan') - i + 1) = Span(Len(chan) - i + 1) + Chunk
      BY <3>6, SpanStep
    <3>8. TailPos - chan[i].lo <= Span(Len(chan) - i + 1) /\ chan[i].hi <= TailPos
      BY <3>1 DEF LinkInv
    <3>9. /\ TailPos' - chan[i].lo <= Span(Len(chan') - i + 1)
          /\ chan[i].hi <= TailPos'
      BY SMTT(40), <3>4, <3>7, <3>8, <2>1, <2>2, <1>5
    <3>10. QED
      BY <3>1, <3>2, <3>5, <3>9 DEF LinkInv
  <2>5. QED
    BY <2>3, <2>4
<1>8. LinkInv'
  BY <1>7 DEF LinkInv
<1>9. QED
  BY <1>1, <1>4, <1>6, <1>8 DEF ChainInv

\* What handing out the head of the channel keeps: its place in the chain is
\* taken by the leftover.
LEMMA PollChunkStep ==
  ASSUME IInv, NEW room \in 1 .. RoomMax, PollChunk(room), TypeOK'
  PROVE  DrainerInv' /\ SeenInv' /\ (Attached => ChainInv)'
<1> USE BodyAssumption DEF IInv, Attached, PollChunk, drainVars, Polled
<1>1. chan \in Seq(Message) /\ chan # <<>>
  BY DEF TypeOK
<1>2. /\ Len(chan) \in Nat \ {0}
      /\ Head(chan) = chan[1]
      /\ Head(chan) \in Message
      /\ Len(chan') = Len(chan) - 1
      /\ \A i \in 1 .. Len(chan') : chan'[i] = chan[i + 1]
  BY <1>1, HeadTail
<1> DEFINE cut == chan[1].lo + Min2(chan[1].hi - chan[1].lo, room)
<1>3. chan[1].lo \in Nat /\ chan[1].hi \in Nat
  BY <1>2 DEF Message, Position
<1>4. /\ chan[1].lo = partial.hi
      /\ chan[1].lo < chan[1].hi
      /\ chan[1].hi - chan[1].lo <= Chunk
  <2>1. 1 \in 1 .. Len(chan)
    BY <1>2
  <2>2. /\ chan[1].lo = partial.hi
        /\ chan[1].lo <= chan[1].hi
        /\ chan[1].hi - chan[1].lo <= Chunk
    BY <2>1 DEF LinkInv
  <2>3. chan[1].lo = chan[1].hi => chan[1].err
    BY <2>1 DEF LinkInv
  <2>4. chan[1].lo # chan[1].hi
    BY <2>3, <1>2
  <2>5. QED
    BY <2>2, <2>4, <1>3
<1>5. /\ out' = Slice(chan[1].lo, cut)
      /\ partial' = Slice(cut, chan[1].hi)
  BY <1>2 DEF Deliver
<1>6. /\ cut \in Nat
      /\ chan[1].lo < cut
      /\ cut <= chan[1].hi
  BY <1>3, <1>4 DEF Min2
<1>7. DrainerInv' /\ SeenInv'
  BY DEF DrainerInv, SeenInv, TypeOK
<1>8. PrefixInv' /\ PartialInv'
  BY <1>3, <1>4, <1>5, <1>6 DEF PrefixInv, PartialInv, Slice
<1>9. TailPos' = TailPos
  <2>1. CASE Len(chan) = 1
    BY <2>1, <1>1, <1>2, <1>5 DEF TailPos, Slice
  <2>2. CASE Len(chan) # 1
    <3>1. Len(chan') \in 1 .. Len(chan') /\ Len(chan') + 1 = Len(chan)
      BY <2>2, <1>2
    <3>2. chan'[Len(chan')] = chan[Len(chan)]
      BY <3>1, <1>2
    <3>3. chan' # <<>>
      <4> HIDE DEF PollChunk, IInv
      <4>1. chan' = <<>> => Len(chan') = 0
        OBVIOUS
      <4>2. Len(chan') # 0
        BY <3>1, <1>2
      <4>3. QED
        BY <4>1, <4>2
    <3>4. QED
      BY <3>2, <3>3, <1>1 DEF TailPos
  <2>3. QED
    BY <2>1, <2>2
<1>10. TailInv'
  <2>1. ASSUME drainer = "done", source = "error"
        PROVE  chan' # <<>> /\ chan'[Len(chan')].err
    <3>1. chan[Len(chan)].err
      BY <2>1 DEF TailInv
    <3>2. Len(chan) # 1
      BY <3>1, <1>2
    <3>3. Len(chan') \in 1 .. Len(chan') /\ Len(chan') + 1 = Len(chan)
      BY <3>2, <1>2
    <3>4. chan'[Len(chan')] = chan[Len(chan)]
      BY <3>3, <1>2
    <3>5. chan' # <<>>
      <4> HIDE DEF PollChunk, IInv
      <4>1. chan' = <<>> => Len(chan') = 0
        OBVIOUS
      <4>2. Len(chan') # 0
        BY <3>3, <1>2
      <4>3. QED
        BY <4>1, <4>2
    <3>6. QED
      BY <3>1, <3>4, <3>5
  <2>2. QED
    BY <2>1, <1>9 DEF TailInv
<1>11. ASSUME NEW i \in 1 .. Len(chan')
       PROVE  /\ i + 1 \in 1 .. Len(chan)
              /\ chan'[i] = chan[i + 1]
              /\ chan'[i].lo = IF i = 1 THEN partial'.hi ELSE chan'[i - 1].hi
              /\ Len(chan') - i + 1 = Len(chan) - (i + 1) + 1
  <2>1. i + 1 \in 1 .. Len(chan) /\ chan'[i] = chan[i + 1]
    BY <1>2
  <2>2. chan[i + 1].lo = chan[i].hi
    <3>1. chan[i + 1].lo = IF i + 1 = 1 THEN partial.hi ELSE chan[i + 1 - 1].hi
      BY <2>1 DEF LinkInv
    <3>2. i \in Nat \ {0} /\ i + 1 # 1 /\ i + 1 - 1 = i
      BY <1>2
    <3>3. QED
      BY <3>1, <3>2
  <2>3. CASE i = 1
    BY <2>1, <2>2, <2>3, <1>5 DEF Slice
  <2>4. CASE i # 1
    <3>1. i - 1 \in 1 .. Len(chan') /\ (i - 1) + 1 = i
      BY <2>4
    <3>2. chan'[i - 1] = chan[i]
      BY <3>1, <1>2
    <3>3. QED
      BY SMTT(40), <3>2, <2>1, <2>2, <2>4
  <2>5. QED
    BY <2>1, <2>3, <2>4, <1>2
<1>12. LinkInv'
  <2> SUFFICES ASSUME NEW i \in 1 .. Len(chan')
               PROVE  LinkInv!(i)'
    BY DEF LinkInv
  <2>1. LinkInv!(i + 1)
    BY <1>11 DEF LinkInv
  <2>2. chan'[i].err => i = Len(chan')
    <3>1. chan[i + 1].err => i + 1 = Len(chan)
      BY <2>1
    <3>2. i + 1 = Len(chan) => i = Len(chan')
      <4> HIDE DEF PollChunk, IInv
      <4>1. Len(chan) \in Nat /\ Len(chan') = Len(chan) - 1
        BY <1>2
      <4>2. i \in Nat
        BY <4>1
      <4>3. QED
        BY <4>1, <4>2
    <3>3. QED
      BY <3>1, <3>2, <1>11
  <2>3. QED
    BY <2>1, <2>2, <1>9, <1>11
<1>13. QED
  BY <1>7, <1>8, <1>10, <1>12 DEF ChainInv

\* What the other polls keep.
LEMMA OtherPollStep ==
  ASSUME IInv, TypeOK',
         \/ \E room \in 1 .. RoomMax : PollPrefix(room) \/ PollPartial(room)
         \/ PollError
         \/ PollEof
  PROVE  DrainerInv' /\ SeenInv' /\ (Attached => ChainInv)'
<1> USE BodyAssumption DEF IInv, Attached, drainVars
<1>1. ASSUME NEW room \in 1 .. RoomMax, PollPrefix(room)
      PROVE  DrainerInv' /\ SeenInv' /\ (Attached => ChainInv)'
  <2> USE <1>1 DEF PollPrefix
  <2>1. prefixOffset \in Nat /\ prefixOffset' \in Nat
    BY DEF TypeOK
  <2>2. DrainerInv' /\ SeenInv'
    BY <2>1 DEF DrainerInv, SeenInv
  <2>3. PrefixInv'
    BY <2>1 DEF PrefixInv, Slice, Min2
  <2>4. PartialInv' /\ LinkInv' /\ TailInv'
    BY DEF PartialInv, LinkInv, TailInv, TailPos
  <2>5. QED
    BY <2>2, <2>3, <2>4 DEF ChainInv
<1>2. ASSUME NEW room \in 1 .. RoomMax, PollPartial(room)
      PROVE  DrainerInv' /\ SeenInv' /\ (Attached => ChainInv)'
  <2> USE <1>2 DEF PollPartial, Polled, Deliver, Slice
  <2>1. partial.lo \in Nat /\ partial.hi \in Nat
    BY DEF TypeOK, Slices, Position
  <2>2. DrainerInv' /\ SeenInv'
    BY DEF DrainerInv, SeenInv
  <2>3. PrefixInv' /\ PartialInv'
    BY <2>1 DEF PrefixInv, PartialInv, Min2
  <2>4. partial'.hi = partial.hi
    OBVIOUS
  <2>5. LinkInv' /\ TailInv'
    BY <2>4 DEF LinkInv, TailInv, TailPos
  <2>6. QED
    BY <2>2, <2>3, <2>5 DEF ChainInv
<1>3. CASE PollError
  <2> USE <1>3 DEF PollError, Polled
  <2>1. chan \in Seq(Message) /\ chan # <<>>
    BY DEF TypeOK
  <2>2. Len(chan) \in Nat \ {0} /\ Head(chan) = chan[1]
    BY <2>1, HeadTail
  <2>3. 1 \in 1 .. Len(chan) /\ chan[1].err
    BY <2>2
  <2>4. /\ 1 = Len(chan)
        /\ chan[1].lo = chan[1].hi
        /\ chan[1].lo = partial.hi
        /\ drainer = "done"
        /\ source = "error"
    BY <2>3 DEF LinkInv
  <2>5. chan' = <<>>
    BY <2>1, <2>4
  <2>6. TailPos = partial.hi /\ TailPos' = partial.hi /\ produced = partial.hi
    BY <2>1, <2>4, <2>5 DEF TailPos, TailInv
  <2>7. DrainerInv' /\ SeenInv'
    BY <2>4, <2>6 DEF DrainerInv, SeenInv, PrefixInv, TypeOK
  <2>8. PrefixInv' /\ PartialInv' /\ LinkInv' /\ TailInv'
    BY <2>4, <2>5, <2>6 DEF PrefixInv, PartialInv, LinkInv, TailInv
  <2>9. QED
    BY <2>7, <2>8 DEF ChainInv
<1>4. CASE PollEof
  <2> USE <1>4 DEF PollEof, Polled
  <2>1. source = "eof" /\ produced = partial.hi
    BY DEF DrainerInv, TailInv, TailPos, TypeOK
  <2>2. DrainerInv' /\ SeenInv'
    BY <2>1 DEF DrainerInv, SeenInv, PrefixInv, TypeOK
  <2>3. PrefixInv' /\ PartialInv' /\ LinkInv' /\ TailInv'
    BY <2>1 DEF PrefixInv, PartialInv, LinkInv, TailInv, TailPos
  <2>4. QED
    BY <2>2, <2>3 DEF ChainInv
<1>5. QED
  BY <1>1, <1>2, <1>3, <1>4

\* What a disconnect, and what a drainer that notices it, keep.
LEMMA DropStep ==
  ASSUME IInv, TypeOK', DropBody \/ SendFails \/ UNCHANGED vars
  PROVE  DrainerInv' /\ SeenInv' /\ (Attached => ChainInv)'
<1> USE DEF IInv, Attached
<1>1. CASE DropBody
  BY <1>1 DEF DropBody, drainVars, DrainerInv, SeenInv
<1>2. CASE SendFails
  BY <1>2 DEF SendFails, readVars, DrainerInv, SeenInv, TypeOK
<1>3. CASE UNCHANGED vars
  BY <1>3 DEF vars, DrainerInv, SeenInv, ChainInv, PrefixInv, PartialInv,
              LinkInv, TailInv, TailPos
<1>4. QED
  BY <1>1, <1>2, <1>3

\* The invariant is inductive.
LEMMA NextIInv == IInv /\ [Next]_vars => IInv'
<1> SUFFICES ASSUME IInv, [Next]_vars PROVE IInv'
  OBVIOUS
<1>1. TypeOK'
  BY TypeStep DEF IInv
<1>2. DrainerInv' /\ SeenInv' /\ (Attached => ChainInv)'
  <2>1. CASE Producer
    BY <1>1, <2>1, ProducerStep
  <2>2. CASE Send
    BY <1>1, <2>2, SendStep
  <2>3. CASE \E room \in 1 .. RoomMax : PollChunk(room)
    BY <1>1, <2>3, PollChunkStep
  <2>4. CASE \/ \E room \in 1 .. RoomMax : PollPrefix(room) \/ PollPartial(room)
             \/ PollError
             \/ PollEof
    BY <1>1, <2>4, OtherPollStep
  <2>5. CASE DropBody \/ SendFails \/ UNCHANGED vars
    BY <1>1, <2>5, DropStep
  <2>6. QED
    BY <2>1, <2>2, <2>3, <2>4, <2>5 DEF Next, Drainer, Reader
<1>3. QED
  BY <1>1, <1>2 DEF IInv, Attached, ChainInv

\* The invariant holds of every behaviour.
THEOREM Invariance == Spec => []IInv
BY InitIInv, NextIInv, PTL DEF Spec

-----------------------------------------------------------------------------
\* Every variable keeps its type and the channel its capacity.
THEOREM TypeCorrect == Spec => []TypeOK
<1>1. IInv => TypeOK
  BY DEF IInv
<1>2. QED
  BY <1>1, Invariance, PTL

\* The client is never told of a clean end when the producer failed, nor of
\* any end before the producer's last byte.
THEOREM EndTruthful == Spec => []EndIsTruthful
<1>1. IInv => EndIsTruthful
  BY DEF IInv, SeenInv, EndIsTruthful
<1>2. QED
  BY <1>1, Invariance, PTL

\* The chain reaches from the leftover to what the producer has given.
LEMMA ChainReaches ==
  ASSUME IInv, Attached
  PROVE  /\ TailPos \in Nat
         /\ partial.hi <= TailPos
         /\ TailPos - partial.hi <= Span(Len(chan))
         /\ TailPos <= produced
         /\ produced - TailPos <= Chunk
<1> USE DEF IInv, Attached
<1>1. /\ Len(chan) \in Nat
      /\ produced \in Nat
      /\ partial.hi \in Nat
      /\ hand.lo \in Nat
      /\ hand.hi \in Nat
      /\ Chunk \in Nat
  BY BodyAssumption DEF TypeOK, Position, Slices, Message
<1>2. TailPos <= produced /\ produced - TailPos <= Chunk
  BY <1>1 DEF TailInv, DrainerInv
<1>3. CASE chan = <<>>
  BY <1>3, <1>1, <1>2, BodyAssumption DEF TailPos, Span
<1>4. CASE chan # <<>>
  <2>1. chan \in Seq(Message) /\ Len(chan) \in Nat \ {0}
    BY <1>4, HeadTail DEF TypeOK
  <2>2. chan[Len(chan)] \in Message
    BY <2>1
  <2>3. TailPos \in Nat
    BY <1>4, <2>2 DEF TailPos, Message, Position
  <2>4. 1 \in 1 .. Len(chan) /\ Len(chan) - 1 + 1 = Len(chan)
    BY <2>1
  <2>5. /\ chan[1].lo = partial.hi
        /\ chan[1].lo <= chan[1].hi
        /\ chan[1].hi <= TailPos
        /\ TailPos - chan[1].lo <= Span(Len(chan) - 1 + 1)
    BY <2>4 DEF LinkInv
  <2>6. chan[1].hi \in Nat
    <3>1. chan[1] \in Message
      BY <2>1, <2>4
    <3>2. QED
      BY <3>1 DEF Message, Position
  <2>7. QED
    BY <1>1, <2>3, <2>4, <2>5, <2>6, <1>2
<1>5. QED
  BY <1>3, <1>4

\* A slow client costs at most the full channel, a chunk in the drainer's
\* hand and the leftover of another.
THEOREM RunAhead == Spec => []RunAheadBounded
<1>1. IInv => RunAheadBounded
  <2> SUFFICES ASSUME IInv, receiver # "dropped"
               PROVE  produced - partial.lo <= (ChanCap + 2) * Chunk - 1
    BY DEF RunAheadBounded
  <2> USE DEF IInv
  <2>1. /\ Len(chan) \in Nat
        /\ Len(chan) <= ChanCap
        /\ produced \in Nat
        /\ partial.lo \in Nat
        /\ partial.hi \in Nat
        /\ hand.lo \in Nat
        /\ hand.hi \in Nat
        /\ Chunk \in Nat
    BY BodyAssumption DEF TypeOK, Position, Slices, Message
  <2>2. /\ produced - TailPos <= Chunk
        /\ TailPos \in Nat
        /\ TailPos - partial.hi <= Span(Len(chan))
    BY ChainReaches DEF Attached
  <2>4. partial.hi - partial.lo <= Chunk - 1
    BY DEF PartialInv
  <2>5. Span(Len(chan)) <= Span(ChanCap)
    BY <2>1, ChanCapNat, SpanMonotone
  <2>6. /\ Span(ChanCap) \in Nat
        /\ Span(Len(chan)) \in Nat
        /\ (ChanCap + 2) * Chunk = Span(ChanCap) + Chunk + Chunk
    BY <2>1, ChanCapNat, BodyAssumption, SMT DEF Span
  <2>7. QED
    BY SMTT(40), <2>1, <2>2, <2>4, <2>5, <2>6
<1>2. QED
  BY <1>1, Invariance, PTL

\* Nothing follows the end.
THEOREM Silence == Spec => SilenceAfterEnd
<1>1. IInv /\ [Next]_vars => [seen # "open" => out' = out /\ seen' = seen]_vars
  <2> SUFFICES ASSUME IInv, Next, seen # "open"
               PROVE  out' = out /\ seen' = seen
    BY DEF vars
  <2>1. receiver # "open" /\ prefixOffset = PrefixLen /\ PrefixLen \in Nat
    BY BodyAssumption DEF IInv, SeenInv
  <2>2. QED
    BY <2>1 DEF Next, Producer, Drainer, Reader, ReadChunk, ReadEof, ReadError,
         Send, SendFails, PollPrefix, PollPartial, PollChunk, PollError,
         PollEof, Polled, DropBody, readVars, drainVars
<1>2. QED
  BY <1>1, Invariance, PTL DEF Spec, SilenceAfterEnd

-----------------------------------------------------------------------------
\* The initial states are initial states of the pipe.
LEMMA PipeInit == Init => Pipe!Init
BY BodyAssumption DEF Init, Pipe!Init, Slice

\* Each step is a step of the pipe or leaves it alone.
LEMMA PipeStep == IInv /\ IInv' /\ [Next]_vars => [Pipe!Next]_(Pipe!vars)
<1> SUFFICES ASSUME IInv, IInv', [Next]_vars
             PROVE  Pipe!Next \/ UNCHANGED Pipe!vars
  OBVIOUS
<1> USE BodyAssumption DEF Pipe!vars, drainVars, readVars
<1>1. ASSUME NEW n \in 1 .. Chunk, ReadChunk(n) PROVE Pipe!Write
  <2>1. produced \in Nat /\ source = "open"
    BY <1>1 DEF IInv, TypeOK, Position, DrainerInv, ReadChunk
  <2>2. QED
    BY <2>1, <1>1 DEF ReadChunk, Pipe!Write
<1>2. CASE ReadEof \/ ReadError
  <2>1. Pipe!Finish
    BY <1>2 DEF ReadEof, ReadError, Pipe!Finish, Pipe!Ends, IInv, DrainerInv
  <2>2. QED
    BY <2>1 DEF Pipe!Next
<1>3. CASE Send \/ SendFails
  BY <1>3 DEF Send, SendFails
<1>4. ASSUME NEW room \in 1 .. RoomMax,
             PollPrefix(room) \/ PollPartial(room) \/ PollChunk(room)
      PROVE  Pipe!Take
  <2>1. /\ receiver # "dropped"
        /\ seen = "open"
        /\ out'.lo = out.hi
    <3>1. CASE PollPrefix(room)
      BY <3>1, <1>4 DEF PollPrefix, IInv, PrefixInv, SeenInv, TypeOK, Slice
    <3>2. CASE PollPartial(room)
      BY <3>2 DEF PollPartial, Polled, Deliver, IInv, PrefixInv, SeenInv,
                  TypeOK, Slice
    <3>3. CASE PollChunk(room)
      <4>1. /\ chan \in Seq(Message)
            /\ chan # <<>>
        BY <3>3 DEF PollChunk, IInv, TypeOK
      <4>2. Head(chan) = chan[1] /\ 1 \in 1 .. Len(chan)
        BY <4>1, HeadTail
      <4>3. Head(chan).lo = partial.hi
        BY <4>2, <3>3 DEF IInv, LinkInv, PollChunk, Polled
      <4>4. QED
        BY <4>3, <3>3 DEF PollChunk, Polled, Deliver, IInv, PrefixInv, SeenInv,
                          Slice
    <3>4. QED
      BY <1>4, <3>1, <3>2, <3>3
  <2>2. /\ receiver' = receiver
        /\ UNCHANGED <<produced, source, seen>>
    BY <1>4 DEF PollPrefix, PollPartial, PollChunk
  <2>3. /\ out' = [lo |-> out'.lo, hi |-> out'.hi]
        /\ out.hi \in Nat
        /\ out'.hi \in Nat
        /\ produced \in Nat
    BY DEF IInv, TypeOK, Slices, Position
  <2>4. out'.hi <= produced
    <3>1. /\ partial.hi <= TailPos
          /\ TailPos <= produced
          /\ TailPos \in Nat
      BY <2>1, ChainReaches DEF Attached
    <3>2. partial'.hi <= produced
      <4>1. CASE PollPrefix(room) \/ PollPartial(room)
        <5>1. partial'.hi = partial.hi
          BY <4>1 DEF PollPrefix, PollPartial, Deliver, Slice
        <5>2. partial.hi \in Nat
          BY DEF IInv, TypeOK, Slices, Position
        <5>3. QED
          BY <5>1, <5>2, <3>1, <2>3
      <4>2. CASE PollChunk(room)
        <5>1. chan \in Seq(Message) /\ chan # <<>>
          BY <4>2 DEF PollChunk, IInv, TypeOK
        <5>2. /\ Head(chan) = chan[1]
              /\ Head(chan) \in Message
              /\ 1 \in 1 .. Len(chan)
          BY <5>1, HeadTail
        <5>3. Head(chan).hi <= TailPos
          BY <2>1, <5>2 DEF IInv, LinkInv
        <5>4. partial'.hi = Head(chan).hi
          BY <4>2 DEF PollChunk, Deliver, Slice
        <5>5. Head(chan).hi \in Nat
          BY <5>2 DEF Message, Position
        <5>6. QED
          BY <5>3, <5>4, <5>5, <3>1, <2>3
      <4>3. QED
        BY <1>4, <4>1, <4>2
    <3>3. receiver' # "dropped"
      BY <2>1, <2>2
    <3>4. PrefixInv' /\ PartialInv'
      BY <3>3 DEF IInv
    <3>5. /\ partial'.lo \in Nat
          /\ partial'.hi \in Nat
          /\ prefixOffset' \in Nat
      BY DEF IInv, TypeOK, Slices, Position
    <3>6. CASE prefixOffset' < PrefixLen
      BY <3>2, <3>4, <3>5, <3>6, <2>3 DEF PrefixInv, PartialInv
    <3>7. CASE ~(prefixOffset' < PrefixLen)
      BY <3>2, <3>4, <3>5, <3>7, <2>3 DEF PrefixInv, PartialInv
    <3>8. QED
      BY <3>6, <3>7
  <2>5. out.hi < out'.hi
    <3>1. CASE PollPrefix(room)
      BY <3>1 DEF PollPrefix, Slice, Min2, IInv, TypeOK, PrefixInv
    <3>2. CASE PollPartial(room)
      BY <3>2, <2>1 DEF PollPartial, Polled, Deliver, Slice, Min2, IInv, TypeOK,
                        Slices, Position, PrefixInv
    <3>3. CASE PollChunk(room)
      <4>1. chan \in Seq(Message) /\ chan # <<>>
        BY <3>3 DEF PollChunk, IInv, TypeOK
      <4>2. /\ Head(chan) = chan[1]
            /\ Head(chan) \in Message
            /\ 1 \in 1 .. Len(chan)
        BY <4>1, HeadTail
      <4>3. Head(chan).lo <= Head(chan).hi
        BY <4>2, <3>3 DEF IInv, LinkInv, PollChunk, Polled
      <4>4. Head(chan).lo = Head(chan).hi => Head(chan).err
        BY <4>2, <3>3 DEF IInv, LinkInv, PollChunk, Polled
      <4>5. Head(chan).lo # Head(chan).hi
        BY <4>4, <3>3 DEF PollChunk
      <4>6. Head(chan).lo \in Nat /\ Head(chan).hi \in Nat
        BY <4>2 DEF Message, Position
      <4>7. out' = Slice(Head(chan).lo, Head(chan).lo
                         + Min2(Head(chan).hi - Head(chan).lo, room))
        BY <3>3 DEF PollChunk, Deliver
      <4>8. QED
        BY <4>3, <4>5, <4>6, <4>7, <2>1 DEF Slice, Min2
    <3>4. QED
      BY <1>4, <3>1, <3>2, <3>3
  <2>6. QED
    BY <2>1, <2>2, <2>3, <2>4, <2>5 DEF Pipe!Take
<1>5. CASE PollError \/ PollEof
  <2>1. /\ receiver = "open" /\ receiver' = "fused"
        /\ UNCHANGED <<produced, source, out>>
        /\ seen' # "open"
    BY <1>5 DEF PollError, PollEof, Polled
  <2>2. seen' = source' /\ out'.hi = produced'
    BY <2>1 DEF IInv, SeenInv
  <2>3. seen = "open" /\ source \in {"eof", "error"}
    BY <2>1, <2>2 DEF IInv, SeenInv, TypeOK
  <2>4. Pipe!See
    BY <2>1, <2>2, <2>3 DEF Pipe!See, Pipe!Ends
  <2>5. QED
    BY <2>4 DEF Pipe!Next
<1>6. CASE DropBody
  BY <1>6 DEF DropBody, Pipe!Next, Pipe!Detach
<1>7. CASE UNCHANGED vars
  BY <1>7 DEF vars
<1>8. QED
  BY <1>1, <1>2, <1>3, <1>4, <1>5, <1>6, <1>7
     DEF Next, Producer, Drainer, Reader, Pipe!Next

\* The buffered body, header, channel, task and all, implements the pipe:
\* bytes in order, none lost or repeated, and the producer's own end last.
THEOREM ImplementsPipe == Spec => PipeSpec
BY PipeInit, PipeStep, Invariance, PTL DEF Spec, PipeSpec, Pipe!Spec
=============================================================================
