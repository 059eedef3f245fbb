----------------------------- MODULE Transcoder -----------------------------
(***************************************************************************)
(* The transcode slots: every transcoded request buffers its source, takes *)
(* one permit of a semaphore, spawns one ffmpeg and gives both to the task *)
(* that drains ffmpeg's output (http.rs serve_transcoded, transcode.rs     *)
(* Transcoder::spawn and TranscodeHandle).                                 *)
(*                                                                         *)
(* A client may leave at any moment.  Before the response exists that      *)
(* drops the handler's future, wherever it waits; after it, only the       *)
(* drainer's next send can notice.  The semaphore is tokio's: waiters are  *)
(* served in order and a released permit goes straight to the first.       *)
(***************************************************************************)
EXTENDS Naturals, Sequences, FiniteSets

CONSTANTS
  Requests,     \* the transcoded requests
  Concurrency   \* Config.concurrency

ASSUME TranscoderAssumption ==
  /\ IsFiniteSet(Requests)
  /\ Concurrency \in Nat

VARIABLES
  phase,    \* where each request is
  free,     \* permits nobody holds
  queue,    \* requests waiting for a permit, first come first
  child,    \* the ffmpeg of each request
  gone      \* requests whose client left while the response was streaming

vars == <<phase, free, queue, child, gone>>

Phases == {"idle", "buffering", "waiting", "granted", "spawning",
           "streaming", "dropping", "done"}

Init ==
  /\ phase = [r \in Requests |-> "idle"]
  /\ free = Concurrency
  /\ queue = <<>>
  /\ child = [r \in Requests |-> "none"]
  /\ gone = {}

\* A permit comes back: to the first waiter, or to the pool.  ph is what the
\* releasing step does to the phases.
Release(ph) ==
  IF queue = <<>>
  THEN /\ free' = free + 1
       /\ phase' = ph
       /\ queue' = queue
  ELSE /\ free' = free
       /\ phase' = [ph EXCEPT ![Head(queue)] = "granted"]
       /\ queue' = Tail(queue)

\* The request's place in the queue is given up, the others keep theirs.
LeaveQueue(r) ==
  \E i \in 1 .. Len(queue) :
    /\ queue[i] = r
    /\ queue' = [j \in 1 .. Len(queue) - 1 |->
                   IF j < i THEN queue[j] ELSE queue[j + 1]]

-----------------------------------------------------------------------------
Start(r) ==
  /\ phase[r] = "idle"
  /\ phase' = [phase EXCEPT ![r] = "buffering"]
  /\ UNCHANGED <<free, queue, child, gone>>

\* 404, 502 or 413: nothing was taken yet.
SourceFails(r) ==
  /\ phase[r] = "buffering"
  /\ phase' = [phase EXCEPT ![r] = "done"]
  /\ UNCHANGED <<free, queue, child, gone>>

\* acquire_owned finds a permit.  The spawn follows in the same poll of the
\* handler: this request cannot be cancelled in between.
Acquire(r) ==
  /\ phase[r] = "buffering"
  /\ free > 0
  /\ free' = free - 1
  /\ phase' = [phase EXCEPT ![r] = "spawning"]
  /\ UNCHANGED <<queue, child, gone>>

\* Fault: a request queues without looking for a permit first.
EnqueueAlways(r) ==
  /\ phase[r] = "buffering"
  /\ phase' = [phase EXCEPT ![r] = "waiting"]
  /\ queue' = Append(queue, r)
  /\ UNCHANGED <<free, child, gone>>

Enqueue(r) ==
  /\ phase[r] = "buffering"
  /\ free = 0
  /\ phase' = [phase EXCEPT ![r] = "waiting"]
  /\ queue' = Append(queue, r)
  /\ UNCHANGED <<free, child, gone>>

\* Fault: the permit is a local of spawn and not a field of the handle.
SpawnDropsPermit(r) ==
  /\ phase[r] \in {"spawning", "granted"}
  /\ Release([phase EXCEPT ![r] = "streaming"])
  /\ child' = [child EXCEPT ![r] = "running"]
  /\ UNCHANGED gone

\* cmd.spawn succeeds, for a permit found or handed over.
Spawn(r) ==
  /\ phase[r] \in {"spawning", "granted"}
  /\ phase' = [phase EXCEPT ![r] = "streaming"]
  /\ child' = [child EXCEPT ![r] = "running"]
  /\ UNCHANGED <<free, queue, gone>>

\* Fault: the early return forgets the permit.
SpawnFailsLeaking(r) ==
  /\ phase[r] \in {"spawning", "granted"}
  /\ phase' = [phase EXCEPT ![r] = "done"]
  /\ UNCHANGED <<free, queue, child, gone>>

\* cmd.spawn fails: the permit is dropped on the way out, 500.
SpawnFails(r) ==
  /\ phase[r] \in {"spawning", "granted"}
  /\ Release([phase EXCEPT ![r] = "done"])
  /\ UNCHANGED <<child, gone>>

\* The client leaves before there is a response: the handler's future is
\* dropped, with its place in the queue or the permit it was just handed.
CancelBuffering(r) ==
  /\ phase[r] = "buffering"
  /\ phase' = [phase EXCEPT ![r] = "done"]
  /\ UNCHANGED <<free, queue, child, gone>>

CancelWaiting(r) ==
  /\ phase[r] = "waiting"
  /\ phase' = [phase EXCEPT ![r] = "done"]
  /\ LeaveQueue(r)
  /\ UNCHANGED <<free, child, gone>>

CancelGranted(r) ==
  /\ phase[r] = "granted"
  /\ Release([phase EXCEPT ![r] = "done"])
  /\ UNCHANGED <<child, gone>>

-----------------------------------------------------------------------------
\* ffmpeg ends, well or badly; its stdout closes.
Exit(r) ==
  /\ child[r] = "running"
  /\ child' = [child EXCEPT ![r] = "exited"]
  /\ UNCHANGED <<phase, free, queue, gone>>

\* The client of a running response disconnects.
Leave(r) ==
  /\ phase[r] = "streaming"
  /\ r \notin gone
  /\ gone' = gone \cup {r}
  /\ UNCHANGED <<phase, free, queue, child>>

\* The drainer reads the end of stdout, or a send fails, and drops the
\* handle, field by field: first the permit goes back ...
DropPermit(r) ==
  /\ phase[r] = "streaming"
  /\ child[r] = "exited" \/ r \in gone
  /\ Release([phase EXCEPT ![r] = "dropping"])
  /\ UNCHANGED <<child, gone>>

\* Fault: without kill_on_drop.
DropChildAlive(r) ==
  /\ phase[r] = "dropping"
  /\ phase' = [phase EXCEPT ![r] = "done"]
  /\ UNCHANGED <<free, queue, child, gone>>

\* ... then, after the two task handles, the child, killed if it still runs.
DropChild(r) ==
  /\ phase[r] = "dropping"
  /\ phase' = [phase EXCEPT ![r] = "done"]
  /\ child' = [child EXCEPT ![r] = IF @ = "running" THEN "killed" ELSE @]
  /\ UNCHANGED <<free, queue, gone>>

-----------------------------------------------------------------------------
Buffered(r) == SourceFails(r) \/ Acquire(r) \/ Enqueue(r)
Admitted(r) == Spawn(r) \/ SpawnFails(r)
Cancel(r)   == CancelBuffering(r) \/ CancelWaiting(r) \/ CancelGranted(r)

Next ==
  \E r \in Requests :
    \/ Start(r) \/ Buffered(r) \/ Admitted(r) \/ Cancel(r)
    \/ Exit(r) \/ Leave(r) \/ DropPermit(r) \/ DropChild(r)

Spec == Init /\ [][Next]_vars

\* The runtime runs every ready task, and sources answer or fail.
TaskFairness(r) ==
  /\ WF_vars(Buffered(r))
  /\ WF_vars(Admitted(r))
  /\ WF_vars(DropPermit(r))
  /\ WF_vars(DropChild(r))

\* A client reads on until ffmpeg is done, or leaves.  Nothing is assumed of
\* an ffmpeg whose client has left (FfmpegPipe has one response in detail).
Settle(r) == r \notin gone /\ (Exit(r) \/ Leave(r))
ClientFairness(r) == WF_vars(Settle(r))

LiveSpec ==
  Spec /\ \A r \in Requests : TaskFairness(r) /\ ClientFairness(r)
-----------------------------------------------------------------------------
Holders == {r \in Requests : phase[r] \in {"granted", "spawning", "streaming"}}
Waiting == {r \in Requests : phase[r] = "waiting"}
Running == {r \in Requests : child[r] = "running"}

\* Every variable keeps its type.
TypeOK ==
  /\ phase \in [Requests -> Phases]
  /\ free \in Nat
  /\ queue \in Seq(Requests)
  /\ child \in [Requests -> {"none", "running", "exited", "killed"}]
  /\ gone \in SUBSET Requests

\* No permit is lost or made, whichever way a request ends: spawn failure,
\* cancellation before or after the permit was handed over, disconnect.
PermitsConserved == free + Cardinality(Holders) = Concurrency

\* Who waits is in the queue, once.
QueueIsWaiting ==
  /\ \A i, j \in 1 .. Len(queue) : queue[i] = queue[j] => i = j
  /\ {queue[i] : i \in 1 .. Len(queue)} = Waiting

\* No request waits beside a free permit.
NoIdlePermit == free > 0 => Waiting = {}

\* No ffmpeg runs on its own: either its request holds a permit, or the
\* handle that kills it is being dropped.
NoStrayFfmpeg ==
  \A r \in Running : phase[r] \in {"streaming", "dropping"}

\* Every request that queues gets its turn or gives up.
WaitersServed ==
  \A r \in Requests : (phase[r] = "waiting") ~> (phase[r] # "waiting")

\* Every response ends with its ffmpeg dead and its permit returned.
ResponsesReclaimed ==
  \A r \in Requests :
    (phase[r] = "streaming") ~> (phase[r] = "done" /\ r \notin Running)

\* What holds of the "cap on concurrent ffmpeg subprocesses": TranscodeHandle
\* drops its permit before its child, so there is one more for every handle
\* whose drop has released its permit and not yet reached its child.
RunningBounded ==
  Cardinality(Running) <=
    Concurrency + Cardinality({r \in Requests : phase[r] = "dropping"})
=============================================================================
