--------------------------- MODULE ProcessProofs ---------------------------
(***************************************************************************)
(* For any number of requests and permits: no permit is lost or made, no   *)
(* request waits beside a free one, and no ffmpeg runs outside the life of *)
(* its handle.  For a source of any length and pipes of any size: the body *)
(* of a transcoded response ends with ffmpeg, and is whole when it was.    *)
(* For any set of handlers that panic: no dns-sd is left behind, and       *)
(* without a panic no SIGTERM goes astray.                                 *)
(*                                                                         *)
(* The facts of IInv are inductive together: that no permit idles needs    *)
(* the queue to be the waiting requests, and handing a permit on keeps the *)
(* count only because its receiver was waiting and held none.              *)
(***************************************************************************)
EXTENDS Transcoder, FfmpegPipe, DnsSdChild, FiniteSetTheorems, TLAPS

IInv ==
  /\ TypeOK
  /\ QueueIsWaiting
  /\ NoIdlePermit
  /\ PermitsConserved

Holding == {"granted", "spawning", "streaming"}

\* The holders are finitely many.
LEMMA HoldersFinite ==
  ASSUME TypeOK
  PROVE  /\ IsFiniteSet(Holders)
         /\ Cardinality(Holders) \in Nat
<1>1. Holders \subseteq Requests
  BY DEF Holders
<1>2. QED
  BY <1>1, FS_Subset, FS_CardinalityType, TranscoderAssumption

\* One holder fewer, one holder more, and one in place of another.
LEMMA HoldersChange ==
  ASSUME TypeOK, NEW r \in Requests
  PROVE  /\ r \in Holders =>
              Cardinality(Holders \ {r}) = Cardinality(Holders) - 1
         /\ r \notin Holders =>
              Cardinality(Holders \cup {r}) = Cardinality(Holders) + 1
         /\ \A h \in Requests : r \in Holders /\ h \notin Holders =>
              Cardinality((Holders \ {r}) \cup {h}) = Cardinality(Holders)
<1>1. IsFiniteSet(Holders) /\ Cardinality(Holders) \in Nat
  BY HoldersFinite
<1>2. r \in Holders => Cardinality(Holders \ {r}) = Cardinality(Holders) - 1
  BY <1>1, FS_RemoveElement
<1>3. r \notin Holders => Cardinality(Holders \cup {r}) = Cardinality(Holders) + 1
  BY <1>1, FS_AddElement
<1>4. ASSUME NEW h \in Requests, r \in Holders, h \notin Holders
      PROVE  Cardinality((Holders \ {r}) \cup {h}) = Cardinality(Holders)
  <2>1. IsFiniteSet(Holders \ {r}) /\ h \notin Holders \ {r}
    BY <1>1, <1>4, FS_RemoveElement
  <2>2. Cardinality((Holders \ {r}) \cup {h}) = Cardinality(Holders \ {r}) + 1
    BY <2>1, FS_AddElement
  <2>3. QED
    BY <2>2, <1>1, <1>2, <1>4
<1>5. QED
  BY <1>2, <1>3, <1>4

\* The front of a queue that is not empty waits, and behind it the others.
LEMMA QueueFront ==
  ASSUME TypeOK, QueueIsWaiting, queue # <<>>
  PROVE  /\ Head(queue) \in Waiting
         /\ Tail(queue) \in Seq(Requests)
         /\ \A i, j \in 1 .. Len(Tail(queue)) :
              Tail(queue)[i] = Tail(queue)[j] => i = j
         /\ {Tail(queue)[i] : i \in 1 .. Len(Tail(queue))}
              = Waiting \ {Head(queue)}
<1>1. /\ queue \in Seq(Requests)
      /\ Len(queue) \in Nat \ {0}
      /\ Head(queue) = queue[1]
      /\ Tail(queue) \in Seq(Requests)
      /\ Len(Tail(queue)) = Len(queue) - 1
      /\ \A i \in 1 .. Len(queue) - 1 : Tail(queue)[i] = queue[i + 1]
  BY DEF TypeOK
<1>2. Head(queue) \in Waiting
  BY <1>1 DEF QueueIsWaiting
<1>3. \A i, j \in 1 .. Len(Tail(queue)) : Tail(queue)[i] = Tail(queue)[j] => i = j
  BY <1>1 DEF QueueIsWaiting
<1>4. ASSUME NEW i \in 1 .. Len(Tail(queue))
      PROVE  Tail(queue)[i] \in Waiting \ {Head(queue)}
  <2>1. i + 1 \in 1 .. Len(queue) /\ i + 1 # 1 /\ 1 \in 1 .. Len(queue)
    BY <1>1
  <2>2. queue[i + 1] # queue[1]
    BY <2>1 DEF QueueIsWaiting
  <2>3. queue[i + 1] \in Waiting
    BY <2>1 DEF QueueIsWaiting
  <2>4. QED
    BY <2>2, <2>3, <1>1
<1>5. ASSUME NEW w \in Waiting \ {Head(queue)}
      PROVE  \E i \in 1 .. Len(Tail(queue)) : Tail(queue)[i] = w
  <2>1. PICK k \in 1 .. Len(queue) : queue[k] = w
    BY DEF QueueIsWaiting
  <2>2. k # 1
    BY <2>1, <1>1
  <2>3. k - 1 \in 1 .. Len(Tail(queue)) /\ (k - 1) + 1 = k
    BY <2>2, <1>1
  <2>4. Tail(queue)[k - 1] = w
    BY <2>3, <2>1, <1>1
  <2>5. QED
    BY <2>3, <2>4
<1>6. QED
  BY <1>1, <1>2, <1>3, <1>4, <1>5

-----------------------------------------------------------------------------
\* What a release keeps, to the pool or to the first waiter.
LEMMA ReleaseStep ==
  ASSUME IInv,
         NEW r \in Holders,
         NEW p \in {"done", "dropping"},
         Release([phase EXCEPT ![r] = p])
  PROVE  /\ phase' \in [Requests -> Phases]
         /\ free' \in Nat
         /\ queue' \in Seq(Requests)
         /\ QueueIsWaiting'
         /\ NoIdlePermit'
         /\ PermitsConserved'
<1> USE DEF IInv
<1>1. r \in Requests /\ phase \in [Requests -> Phases] /\ free \in Nat
  BY DEF Holders, TypeOK
<1>2. phase[r] \in Holding /\ r \notin Waiting
  BY DEF Holders, Holding, Waiting
<1>3. CASE queue = <<>>
  <2>1. /\ free' = free + 1
        /\ phase' = [phase EXCEPT ![r] = p]
        /\ queue' = queue
    BY <1>3 DEF Release
  <2>2. Holders' = Holders \ {r} /\ Waiting' = Waiting
    BY <1>1, <1>2, <2>1 DEF Holders, Waiting, Holding
  <2>3. Waiting = {}
    BY <1>3 DEF QueueIsWaiting
  <2>4. Cardinality(Holders') = Cardinality(Holders) - 1
    BY <2>2, <1>1, HoldersChange
  <2>5. PermitsConserved'
    BY <2>1, <2>4, <1>1, HoldersFinite DEF PermitsConserved
  <2>6. QueueIsWaiting' /\ NoIdlePermit'
    BY <2>1, <2>2, <2>3 DEF QueueIsWaiting, NoIdlePermit
  <2>7. QED
    BY <2>1, <2>5, <2>6, <1>1 DEF TypeOK, Phases
<1>4. CASE queue # <<>>
  <2> DEFINE h == Head(queue)
  <2>1. /\ free' = free
        /\ phase' = [[phase EXCEPT ![r] = p] EXCEPT ![h] = "granted"]
        /\ queue' = Tail(queue)
    BY <1>4 DEF Release
  <2>2. h \in Waiting /\ h \in Requests /\ h # r /\ h \notin Holders
    BY <1>2, <1>4, QueueFront DEF Waiting, Holders
  <2> HIDE DEF h
  <2>3. phase' = [x \in Requests |->
                    IF x = h THEN "granted" ELSE IF x = r THEN p ELSE phase[x]]
    BY <2>1, <2>2, <1>1
  <2>4. Holders' = (Holders \ {r}) \cup {h}
    BY <2>2, <2>3, <1>1 DEF Holders
  <2>5. Waiting' = Waiting \ {h}
    BY <2>2, <2>3, <1>1, <1>2 DEF Waiting
  <2>6. Cardinality(Holders') = Cardinality(Holders)
    BY <2>2, <2>4, <1>1, HoldersChange
  <2>7. PermitsConserved'
    BY <2>1, <2>6 DEF PermitsConserved
  <2>8. queue' \in Seq(Requests) /\ QueueIsWaiting'
    BY <1>4, <2>1, <2>5, QueueFront DEF QueueIsWaiting, h
  <2>9. free = 0
    BY <2>2, <1>1 DEF NoIdlePermit
  <2>10. NoIdlePermit'
    BY <2>1, <2>9 DEF NoIdlePermit
  <2>11. phase' \in [Requests -> Phases]
    BY <2>3, <1>1 DEF Phases
  <2>12. QED
    BY <2>1, <2>7, <2>8, <2>10, <2>11, <1>1
<1>5. QED
  BY <1>3, <1>4

\* What giving up a place in the queue keeps.
LEMMA CancelWaitingStep ==
  ASSUME IInv, NEW r \in Requests, CancelWaiting(r)
  PROVE  /\ phase' \in [Requests -> Phases]
         /\ queue' \in Seq(Requests)
         /\ QueueIsWaiting'
         /\ NoIdlePermit'
         /\ PermitsConserved'
<1> USE DEF IInv, CancelWaiting
<1>1. /\ phase \in [Requests -> Phases]
      /\ free \in Nat
      /\ queue \in Seq(Requests)
      /\ Len(queue) \in Nat
  BY DEF TypeOK
<1>2. PICK k \in 1 .. Len(queue) :
        /\ queue[k] = r
        /\ queue' = [j \in 1 .. Len(queue) - 1 |->
                       IF j < k THEN queue[j] ELSE queue[j + 1]]
  BY DEF LeaveQueue
<1>3. /\ queue' \in Seq(Requests)
      /\ Len(queue') = Len(queue) - 1
      /\ \A j \in 1 .. Len(queue') :
           queue'[j] = IF j < k THEN queue[j] ELSE queue[j + 1]
  <2>1. Len(queue) - 1 \in Nat
    BY <1>1
  <2>2. \A j \in 1 .. Len(queue) - 1 :
          (IF j < k THEN queue[j] ELSE queue[j + 1]) \in Requests
    BY <1>1
  <2>3. QED
    BY <1>2, <2>1, <2>2
<1>4. /\ Holders' = Holders
      /\ Waiting' = Waiting \ {r}
      /\ r \in Waiting
      /\ free' = free
  BY <1>1 DEF Holders, Waiting
<1>5. \A i, j \in 1 .. Len(queue') : queue'[i] = queue'[j] => i = j
  <2> SUFFICES ASSUME NEW i \in 1 .. Len(queue'), NEW j \in 1 .. Len(queue'),
                      queue'[i] = queue'[j]
               PROVE  i = j
    OBVIOUS
  <2> DEFINE I == IF i < k THEN i ELSE i + 1
             J == IF j < k THEN j ELSE j + 1
  <2>1. I \in 1 .. Len(queue) /\ J \in 1 .. Len(queue)
    BY <1>1, <1>3
  <2>2. queue'[i] = queue[I] /\ queue'[j] = queue[J]
    BY <1>3
  <2>3. I = J
    BY <2>1, <2>2 DEF QueueIsWaiting
  <2>4. QED
    BY <2>3, <1>1
<1>6. ASSUME NEW j \in 1 .. Len(queue') PROVE queue'[j] \in Waiting \ {r}
  <2> DEFINE J == IF j < k THEN j ELSE j + 1
  <2>1. J \in 1 .. Len(queue) /\ J # k
    BY <1>1, <1>3
  <2>2. queue'[j] = queue[J]
    BY <1>3
  <2>3. queue[J] \in Waiting
    BY <2>1 DEF QueueIsWaiting
  <2>4. queue[J] # queue[k]
    BY <2>1 DEF QueueIsWaiting
  <2>5. QED
    BY <2>2, <2>3, <2>4, <1>2
<1>7. ASSUME NEW w \in Waiting \ {r}
      PROVE  \E j \in 1 .. Len(queue') : queue'[j] = w
  <2>1. PICK m \in 1 .. Len(queue) : queue[m] = w
    BY DEF QueueIsWaiting
  <2>2. m # k
    BY <2>1, <1>2
  <2> DEFINE j == IF m < k THEN m ELSE m - 1
  <2>3. j \in 1 .. Len(queue') /\ m = IF j < k THEN j ELSE j + 1
    BY <2>2, <1>1, <1>3
  <2>4. queue'[j] = queue[m]
    BY <2>3, <1>3
  <2>5. QED
    BY <2>1, <2>3, <2>4
<1>8. QueueIsWaiting'
  BY <1>4, <1>5, <1>6, <1>7 DEF QueueIsWaiting
<1>9. NoIdlePermit' /\ PermitsConserved'
  BY <1>4 DEF NoIdlePermit, PermitsConserved
<1>10. phase' \in [Requests -> Phases]
  BY <1>1 DEF Phases
<1>11. QED
  BY <1>3, <1>8, <1>9, <1>10

\* What joining the queue keeps.
LEMMA EnqueueStep ==
  ASSUME IInv, NEW r \in Requests, Enqueue(r)
  PROVE  /\ phase' \in [Requests -> Phases]
         /\ queue' \in Seq(Requests)
         /\ QueueIsWaiting'
         /\ NoIdlePermit'
         /\ PermitsConserved'
<1> USE DEF IInv, Enqueue
<1>1. /\ phase \in [Requests -> Phases]
      /\ queue \in Seq(Requests)
      /\ Len(queue) \in Nat
  BY DEF TypeOK
<1>2. /\ queue' \in Seq(Requests)
      /\ Len(queue') = Len(queue) + 1
      /\ \A i \in 1 .. Len(queue) : queue'[i] = queue[i]
      /\ queue'[Len(queue) + 1] = r
  BY <1>1
<1>3. /\ Holders' = Holders
      /\ Waiting' = Waiting \cup {r}
      /\ r \notin Waiting
  BY <1>1 DEF Holders, Waiting
<1>4. \A i \in 1 .. Len(queue) : queue[i] # r
  BY <1>3 DEF QueueIsWaiting
<1>5. \A i, j \in 1 .. Len(queue') : queue'[i] = queue'[j] => i = j
  BY <1>1, <1>2, <1>4 DEF QueueIsWaiting
<1>6. {queue'[i] : i \in 1 .. Len(queue')} = Waiting'
  <2>1. ASSUME NEW i \in 1 .. Len(queue') PROVE queue'[i] \in Waiting'
    <3>1. CASE i = Len(queue) + 1
      BY <3>1, <1>2, <1>3
    <3>2. CASE i # Len(queue) + 1
      <4>1. i \in 1 .. Len(queue)
        BY <3>2, <1>1, <1>2
      <4>2. queue[i] \in Waiting
        BY <4>1 DEF QueueIsWaiting
      <4>3. QED
        BY <4>1, <4>2, <1>2, <1>3
    <3>3. QED
      BY <3>1, <3>2
  <2>2. ASSUME NEW w \in Waiting'
        PROVE  \E i \in 1 .. Len(queue') : queue'[i] = w
    <3>1. CASE w = r
      <4>1. Len(queue) + 1 \in 1 .. Len(queue')
        BY <1>1, <1>2
      <4>2. QED
        BY <4>1, <3>1, <1>2
    <3>2. CASE w # r
      <4>1. PICK k \in 1 .. Len(queue) : queue[k] = w
        BY <3>2, <1>3 DEF QueueIsWaiting
      <4>2. k \in 1 .. Len(queue') /\ queue'[k] = w
        BY <4>1, <1>1, <1>2
      <4>3. QED
        BY <4>2
    <3>3. QED
      BY <3>1, <3>2
  <2>3. QED
    BY <2>1, <2>2
<1>7. QueueIsWaiting'
  BY <1>5, <1>6 DEF QueueIsWaiting
<1>8. NoIdlePermit' /\ PermitsConserved'
  BY <1>3 DEF NoIdlePermit, PermitsConserved
<1>9. phase' \in [Requests -> Phases]
  BY <1>1 DEF Phases
<1>10. QED
  BY <1>2, <1>7, <1>8, <1>9

-----------------------------------------------------------------------------
\* A step that moves one request between phases neither waiting nor holding.
LEMMA QuietStep ==
  ASSUME IInv, NEW r \in Requests, NEW p \in Phases,
         phase[r] \in {"idle", "buffering", "streaming", "dropping"},
         p \notin {"waiting", "granted", "spawning", "streaming"},
         phase[r] # "streaming",
         phase' = [phase EXCEPT ![r] = p],
         UNCHANGED <<free, queue>>
  PROVE  /\ phase' \in [Requests -> Phases]
         /\ queue' \in Seq(Requests)
         /\ QueueIsWaiting'
         /\ NoIdlePermit'
         /\ PermitsConserved'
<1> USE DEF IInv
<1>1. phase' \in [Requests -> Phases] /\ queue' \in Seq(Requests)
  BY DEF TypeOK
<1>2. Holders' = Holders /\ Waiting' = Waiting
  BY DEF Holders, Waiting, TypeOK
<1>3. QueueIsWaiting' /\ NoIdlePermit' /\ PermitsConserved'
  BY <1>2 DEF QueueIsWaiting, NoIdlePermit, PermitsConserved
<1>4. QED
  BY <1>1, <1>3

\* The invariant holds initially.
LEMMA InitIInv == Init => IInv
<1> SUFFICES ASSUME Init PROVE IInv
  OBVIOUS
<1> USE TranscoderAssumption DEF Init
<1>1. TypeOK
  BY DEF TypeOK, Phases
<1>2. Holders = {} /\ Waiting = {}
  BY DEF Holders, Waiting
<1>3. PermitsConserved
  BY <1>2, FS_EmptySet DEF PermitsConserved
<1>4. QueueIsWaiting /\ NoIdlePermit
  BY <1>2 DEF QueueIsWaiting, NoIdlePermit
<1>5. QED
  BY <1>1, <1>3, <1>4 DEF IInv

\* The invariant is inductive.
LEMMA NextIInv == IInv /\ [Next]_vars => IInv'
<1> SUFFICES ASSUME IInv, [Next]_vars PROVE IInv'
  OBVIOUS
<1> USE DEF IInv
<1>1. ASSUME NEW r \in Requests,
             Start(r) \/ SourceFails(r) \/ CancelBuffering(r) \/ DropChild(r)
      PROVE  IInv'
  <2>1. PICK p \in {"buffering", "done"} :
          /\ phase' = [phase EXCEPT ![r] = p]
          /\ phase[r] \in {"idle", "buffering", "dropping"}
          /\ UNCHANGED <<free, queue, gone>>
    BY <1>1 DEF Start, SourceFails, CancelBuffering, DropChild
  <2>2. child' \in [Requests -> {"none", "running", "exited", "killed"}]
    BY <1>1 DEF Start, SourceFails, CancelBuffering, DropChild, TypeOK
  <2>3. p \in Phases
    BY DEF Phases
  <2>4. /\ phase' \in [Requests -> Phases]
        /\ queue' \in Seq(Requests)
        /\ QueueIsWaiting'
        /\ NoIdlePermit'
        /\ PermitsConserved'
    BY <2>1, <2>3, QuietStep
  <2>5. QED
    BY <2>1, <2>2, <2>4 DEF TypeOK
<1>2. ASSUME NEW r \in Requests, Acquire(r) PROVE IInv'
  <2> USE <1>2 DEF Acquire
  <2>1. TypeOK'
    BY DEF TypeOK, Phases
  <2>2. Holders' = Holders \cup {r} /\ r \notin Holders /\ Waiting' = Waiting
    BY DEF Holders, Waiting, TypeOK
  <2>3. Cardinality(Holders') = Cardinality(Holders) + 1
    BY <2>2, HoldersChange
  <2>4. free \in Nat /\ Cardinality(Holders) \in Nat
    BY HoldersFinite DEF TypeOK
  <2>5. PermitsConserved'
    BY <2>3, <2>4 DEF PermitsConserved
  <2>6. QueueIsWaiting' /\ NoIdlePermit'
    BY <2>2, <2>4 DEF QueueIsWaiting, NoIdlePermit
  <2>7. QED
    BY <2>1, <2>5, <2>6
<1>3. ASSUME NEW r \in Requests, Enqueue(r) PROVE IInv'
  <2>1. UNCHANGED <<free, child, gone>>
    BY <1>3 DEF Enqueue
  <2>2. QED
    BY <1>3, <2>1, EnqueueStep DEF TypeOK
<1>4. ASSUME NEW r \in Requests, CancelWaiting(r) PROVE IInv'
  <2>1. UNCHANGED <<free, child, gone>>
    BY <1>4 DEF CancelWaiting
  <2>2. QED
    BY <1>4, <2>1, CancelWaitingStep DEF TypeOK
<1>5. ASSUME NEW r \in Requests,
             SpawnFails(r) \/ CancelGranted(r) \/ DropPermit(r)
      PROVE  IInv'
  <2>1. PICK p \in {"done", "dropping"} : Release([phase EXCEPT ![r] = p])
    BY <1>5 DEF SpawnFails, CancelGranted, DropPermit
  <2>2. r \in Holders /\ UNCHANGED <<child, gone>>
    BY <1>5 DEF SpawnFails, CancelGranted, DropPermit, Holders
  <2>3. QED
    BY <2>1, <2>2, ReleaseStep DEF TypeOK
<1>6. ASSUME NEW r \in Requests, Spawn(r) PROVE IInv'
  <2> USE <1>6 DEF Spawn
  <2>1. TypeOK'
    BY DEF TypeOK, Phases
  <2>2. Holders' = Holders /\ Waiting' = Waiting
    BY DEF Holders, Waiting, TypeOK
  <2>3. QED
    BY <2>1, <2>2 DEF QueueIsWaiting, NoIdlePermit, PermitsConserved
<1>7. ASSUME NEW r \in Requests, Exit(r) \/ Leave(r) PROVE IInv'
  <2>1. TypeOK' /\ UNCHANGED <<phase, free, queue>>
    BY <1>7 DEF Exit, Leave, TypeOK
  <2>2. Holders' = Holders /\ Waiting' = Waiting
    BY <2>1 DEF Holders, Waiting
  <2>3. QED
    BY <2>1, <2>2 DEF QueueIsWaiting, NoIdlePermit, PermitsConserved
<1>8. CASE UNCHANGED vars
  <2>1. Holders' = Holders /\ Waiting' = Waiting
    BY <1>8 DEF vars, Holders, Waiting
  <2>2. QED
    BY <1>8, <2>1 DEF vars, TypeOK, QueueIsWaiting, NoIdlePermit, PermitsConserved
<1>9. QED
  BY <1>1, <1>2, <1>3, <1>4, <1>5, <1>6, <1>7, <1>8
     DEF Next, Buffered, Admitted, Cancel

\* The invariant holds of every behaviour.
THEOREM Invariance == Spec => []IInv
BY InitIInv, NextIInv, PTL DEF Spec

\* Every variable keeps its type: in particular no permit is overdrawn.
THEOREM TypeCorrect == Spec => []TypeOK
BY Invariance, PTL DEF IInv

\* However requests end, the permits in the pool and those held are the
\* configured number.
THEOREM PermitAccounting == Spec => []PermitsConserved
BY Invariance, PTL DEF IInv

\* The queue holds exactly the waiting requests, each once.
THEOREM QueueCorrect == Spec => []QueueIsWaiting
BY Invariance, PTL DEF IInv

\* No request waits beside a free permit.
THEOREM NoLostWakeup == Spec => []NoIdlePermit
BY Invariance, PTL DEF IInv

\* A running ffmpeg belongs to a response in progress or to a handle being
\* dropped.
THEOREM NoStray == Spec => []NoStrayFfmpeg
<1>1. Init => NoStrayFfmpeg
  BY DEF Init, NoStrayFfmpeg, Running
<1>2. IInv /\ NoStrayFfmpeg /\ [Next]_vars => NoStrayFfmpeg'
  <2> SUFFICES ASSUME IInv, NoStrayFfmpeg, [Next]_vars,
                      NEW x \in Running'
               PROVE  phase'[x] \in {"streaming", "dropping"}
    BY DEF NoStrayFfmpeg
  <2> USE DEF Running, TypeOK, IInv
  <2>1. phase \in [Requests -> Phases] /\ x \in Requests
    OBVIOUS
  <2>2. CASE \E r \in Requests : SpawnFails(r) \/ CancelGranted(r) \/ DropPermit(r)
    <3>1. PICK r \in Requests : SpawnFails(r) \/ CancelGranted(r) \/ DropPermit(r)
      BY <2>2
    <3>2. PICK p \in {"done", "dropping"} :
            /\ Release([phase EXCEPT ![r] = p])
            /\ phase[r] = "streaming" => p = "dropping"
      BY <3>1 DEF SpawnFails, CancelGranted, DropPermit
    <3>3. child' = child
      BY <3>1 DEF SpawnFails, CancelGranted, DropPermit
    <3>4. phase[x] \in {"streaming", "dropping"}
      BY <3>3 DEF NoStrayFfmpeg
    <3>5. queue # <<>> => Head(queue) # x
      BY <3>4, QueueFront DEF Waiting
    <3>6. phase[r] \in {"granted", "spawning", "streaming"}
      BY <3>1 DEF SpawnFails, CancelGranted, DropPermit
    <3>7. phase'[x] = [phase EXCEPT ![r] = p][x]
      BY <3>2, <3>5, <2>1 DEF Release
    <3>8. QED
      BY <3>2, <3>4, <3>6, <3>7, <2>1
  <2>3. CASE \E r \in Requests :
               \/ Start(r) \/ SourceFails(r) \/ Acquire(r) \/ Enqueue(r)
               \/ Spawn(r) \/ CancelBuffering(r) \/ CancelWaiting(r)
               \/ Exit(r) \/ Leave(r) \/ DropChild(r)
    BY <2>1, <2>3 DEF NoStrayFfmpeg, Start, SourceFails, Acquire, Enqueue,
       Spawn, CancelBuffering, CancelWaiting, Exit, Leave, DropChild
  <2>4. CASE UNCHANGED vars
    BY <2>4 DEF vars, NoStrayFfmpeg
  <2>5. QED
    BY <2>2, <2>3, <2>4 DEF Next, Buffered, Admitted, Cancel
<1>3. QED
  BY <1>1, <1>2, Invariance, PTL DEF Spec

\* The processes running are at most the permits and the handles in the
\* middle of their drop.
THEOREM ProcessesBounded == Spec => []RunningBounded
<1>1. IInv /\ NoStrayFfmpeg => RunningBounded
  <2> SUFFICES ASSUME IInv, NoStrayFfmpeg PROVE RunningBounded
    OBVIOUS
  <2> DEFINE Dropping == {r \in Requests : phase[r] = "dropping"}
  <2>1. Running \subseteq Holders \cup Dropping
    BY DEF NoStrayFfmpeg, Running, Holders
  <2>2. /\ IsFiniteSet(Holders)
        /\ IsFiniteSet(Dropping)
        /\ Cardinality(Holders) \in Nat
        /\ Cardinality(Dropping) \in Nat
    <3>1. Dropping \subseteq Requests
      OBVIOUS
    <3>2. QED
      BY <3>1, HoldersFinite, FS_Subset, FS_CardinalityType,
         TranscoderAssumption DEF IInv
  <2>3. /\ IsFiniteSet(Holders \cup Dropping)
        /\ Cardinality(Holders \cup Dropping) =
             Cardinality(Holders) + Cardinality(Dropping)
             - Cardinality(Holders \cap Dropping)
    BY <2>2, FS_Union
  <2>4. Cardinality(Holders \cap Dropping) \in Nat
    BY <2>2, FS_Intersection, FS_CardinalityType
  <2>5. /\ Cardinality(Running) <= Cardinality(Holders \cup Dropping)
        /\ Cardinality(Running) \in Nat
    BY <2>1, <2>3, FS_Subset, FS_CardinalityType
  <2>6. Cardinality(Holders) <= Concurrency
    BY <2>2, TranscoderAssumption DEF IInv, TypeOK, PermitsConserved
  <2>7. QED
    BY <2>2, <2>3, <2>4, <2>5, <2>6, TranscoderAssumption DEF RunningBounded
<1>2. QED
  BY <1>1, Invariance, NoStray, PTL

-----------------------------------------------------------------------------
(* One transcoded response.                                                *)

\* stdin is closed on the whole source, unless ffmpeg failed first.
FeederWhole ==
  feeder = "closed" /\ ffmpeg \in {"running", "exited"} => fed = Source

\* An ffmpeg that ends by itself has made all there is.
ExitIsWhole == ffmpeg = "exited" => feeder = "closed" /\ made = Source

\* What the drainer holds, and what it leaves behind when it stops.
DrainerHolds ==
  /\ drainer = "reading" => sent = drained
  /\ drainer = "sending" => drained = sent + 1
  /\ drainer \in {"dropping", "done"} /\ client # "gone" =>
       ~Alive /\ drained = made /\ sent = drained

EofIsLast == client = "eof" => got = sent /\ drainer \in {"dropping", "done"}

PipeInv == PipeTypeOK /\ FeederWhole /\ ExitIsWhole /\ DrainerHolds /\ EofIsLast

-----------------------------------------------------------------------------
LEMMA InitHolds == PipeInit => PipeInv
BY PipeAssumption
   DEF PipeInit, PipeInv, PipeTypeOK, Piece, FeederWhole, ExitIsWhole, DrainerHolds, EofIsLast

LEMMA StepHolds == PipeInv /\ [PipeNext]_pipeVars => PipeInv'
<1> SUFFICES ASSUME PipeInv, [PipeNext]_pipeVars PROVE PipeInv'
  OBVIOUS
<1> USE PipeAssumption
    DEF PipeInv, PipeTypeOK, Piece, FeederWhole, ExitIsWhole, DrainerHolds, EofIsLast,
        Alive, feederVars, ffmpegVars, stderrVars, drainVars, clientVars
<1>1. CASE Feeder
  BY <1>1 DEF Feeder, Feed, FeedEnds
<1>2. CASE Ffmpeg
  <2>1. CASE TakeInput
    BY <2>1 DEF TakeInput
  <2>2. CASE MakeOutput
    BY <2>2 DEF MakeOutput
  <2>3. CASE LogLine
    BY <2>3 DEF LogLine
  <2>4. CASE FfmpegExits
    BY <2>4 DEF FfmpegExits
  <2> QED
    BY <1>2, <2>1, <2>2, <2>3, <2>4 DEF Ffmpeg
<1>3. CASE Crash
  BY <1>3 DEF Crash
<1>4. CASE Stderr
  BY <1>4 DEF Stderr, ReadLine, StderrEnds
<1>5. CASE Drainer
  <2>1. CASE DrainPiece
    BY <2>1 DEF DrainPiece
  <2>2. CASE DrainEof
    BY <2>2 DEF DrainEof
  <2>3. CASE SendPiece
    BY <2>3 DEF SendPiece
  <2>4. CASE SendFails
    BY <2>4 DEF SendFails
  <2>5. CASE DropHandle
    BY <2>5 DEF DropHandle
  <2> QED
    BY <1>5, <2>1, <2>2, <2>3, <2>4, <2>5 DEF Drainer
<1>6. CASE Reader
  BY <1>6 DEF Reader, Receive, SeeEof
<1>7. CASE Disconnect
  BY <1>7 DEF Disconnect
<1>8. CASE UNCHANGED pipeVars
  BY <1>8 DEF pipeVars
<1> QED
  BY <1>1, <1>2, <1>3, <1>4, <1>5, <1>6, <1>7, <1>8 DEF PipeNext

LEMMA Induction == PipeSpec => []PipeInv
<1> QED
  BY InitHolds, StepHolds, PTL DEF PipeSpec

\* No stage of the pipe is ever ahead of the one before it.
THEOREM PipeTypes == PipeSpec => []PipeTypeOK
<1>1. PipeInv => PipeTypeOK
  BY DEF PipeInv
<1> QED
  BY Induction, <1>1, PTL

\* The client's end of file is ffmpeg's: none is invented by the tasks in
\* between, and after an ffmpeg that ended by itself nothing is missing.
THEOREM CleanEndHolds == PipeSpec => []CleanEndIsComplete
<1>1. PipeInv => CleanEndIsComplete
  BY DEF PipeInv, FeederWhole, ExitIsWhole, DrainerHolds, EofIsLast,
         CleanEndIsComplete, Alive
<1> QED
  BY Induction, <1>1, PTL

-----------------------------------------------------------------------------
(* The dns-sd child *)

\* Which reports of the waiter, and which places of main, tell of the reaping.
ReapedBy ==
  /\ waiter \in {"done", "failed"} => responder = "reaped"
  /\ main \in {"waiting", "killing"} => waiter # "none"
  /\ main = "stopped" => waiter # "none" \/ responder = "reaped"
  /\ main = "exited" => responder = "reaped"

NoPanic == \A t \in Threads : hook[t] = "idle"

\* Until stop or a hook has begun nobody has waited for the child: the pid
\* that is signalled is its pid.
StillOurs ==
  /\ main \in {"serving", "ended", "cleared"} => waiter = "none"
  /\ main \in {"panicked", "dropping"} => hook[Main] # "idle"
  /\ NoPanic /\ waiter = "none" => responder # "reaped"

DnsInv == DnsTypeOK /\ ReapedBy /\ StillOurs /\ TerminatesOwnChild

-----------------------------------------------------------------------------
LEMMA DnsInitHolds == DnsInit => DnsInv
BY DEF DnsInit, DnsInv, DnsTypeOK, ReapedBy, StillOurs, NoPanic, TerminatesOwnChild, Threads

LEMMA DnsStepHolds == DnsInv /\ [DnsNext]_dnsVars => DnsInv'
<1> SUFFICES ASSUME DnsInv, [DnsNext]_dnsVars PROVE DnsInv'
  OBVIOUS
<1> USE DEF DnsInv, DnsTypeOK, ReapedBy, StillOurs, NoPanic, TerminatesOwnChild, os
<1>m. Main \in Threads
  BY DEF Threads
<1>1. CASE Ended
  BY <1>1, <1>m DEF Ended
<1>2. CASE StopStep
  <2>1. CASE ClearTeardown
    BY <2>1, <1>m DEF ClearTeardown
  <2>2. CASE Terminate
    BY <2>2, <1>m DEF Terminate, Kill
  <2>3. CASE Stopped
    BY <2>3, <1>m DEF Stopped
  <2>4. CASE Timeout
    BY <2>4, <1>m DEF Timeout
  <2>5. CASE KillChild
    BY <2>5, <1>m DEF KillChild, Kill
  <2>6. CASE DropKills
    BY <2>6, <1>m DEF DropKills, Kill
  <2>7. CASE DropWaits
    BY <2>7, <1>m DEF DropWaits, Reap
  <2>8. CASE ProcessExits
    BY <2>8, <1>m DEF ProcessExits
  <2> QED
    BY <1>2, <2>1, <2>2, <2>3, <2>4, <2>5, <2>6, <2>7, <2>8 DEF StopStep
<1>3. CASE WaitStep
  BY <1>3, <1>m DEF WaitStep, Waited, WaitFails, Reap, Kill
<1>4. ASSUME NEW t \in Threads, Panic(t) \/ HookStep(t)
      PROVE  DnsInv'
  <2>1. CASE Panic(t)
    BY <2>1, <1>m DEF Panic
  <2>2. CASE TakeHandle(t)
    BY <2>2, <1>m DEF TakeHandle
  <2>3. CASE EmergencyTerm(t)
    BY <2>3, <1>m DEF EmergencyTerm, Kill
  <2>4. CASE EmergencyReap(t)
    BY <2>4, <1>m DEF EmergencyReap, Reap
  <2>5. CASE EmergencyGivesUp(t)
    BY <2>5, <1>m DEF EmergencyGivesUp
  <2> QED
    BY <1>4, <2>1, <2>2, <2>3, <2>4, <2>5 DEF HookStep
<1>5. CASE ChildExits
  BY <1>5, <1>m DEF ChildExits
<1>6. CASE PidReused
  BY <1>6, <1>m DEF PidReused
<1>7. CASE UNCHANGED dnsVars
  BY <1>7, <1>m DEF dnsVars
<1> QED
  BY <1>1, <1>2, <1>3, <1>4, <1>5, <1>6, <1>7 DEF DnsNext

LEMMA DnsInduction == DnsSpec => []DnsInv
<1> QED
  BY DnsInitHolds, DnsStepHolds, PTL DEF DnsSpec

\* The pid is the child's exactly as long as the child is not reaped.
THEOREM ChildTypes == DnsSpec => []DnsTypeOK
<1>1. DnsInv => DnsTypeOK
  BY DEF DnsInv
<1> QED
  BY DnsInduction, <1>1, PTL

\* However stop, its waiter, the hooks of any number of handlers and Drop
\* interleave, the process leaves with its dns-sd reaped.
THEOREM NoChildLeftHolds == DnsSpec => []NoChildLeft
<1>1. DnsInv => NoChildLeft
  BY DEF DnsInv, ReapedBy, NoChildLeft
<1> QED
  BY DnsInduction, <1>1, PTL

\* The SIGTERM of stop finds the child there unless a hook was before it.
THEOREM TerminatesOwnChildHolds == DnsSpec => []TerminatesOwnChild
<1>1. DnsInv => TerminatesOwnChild
  BY DEF DnsInv
<1> QED
  BY DnsInduction, <1>1, PTL
=============================================================================
