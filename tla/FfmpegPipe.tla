----------------------------- MODULE FfmpegPipe -----------------------------
(***************************************************************************)
(* One transcoded response in detail: the buffered source, the feeder task *)
(* that copies it to ffmpeg's stdin, ffmpeg, the task that drains its      *)
(* stderr, the drainer of its stdout and the client (transcode.rs          *)
(* Transcoder::spawn, buffered_body.rs drain_loop).                        *)
(*                                                                         *)
(* Every pipe is smaller than what goes through it, so each stage can make *)
(* the one before it wait.  Data is counted in pieces; ffmpeg makes one    *)
(* piece of output of one of input.  ffmpeg itself is external: it reads,  *)
(* writes, logs, ends when its input has ended, and may crash at any time. *)
(***************************************************************************)
EXTENDS Naturals

CONSTANTS
  Source,      \* pieces of the buffered source
  Lines,       \* lines ffmpeg logs before it ends
  WorkCap,     \* pieces ffmpeg has read and not yet written
  StdinCap,    \* pieces the stdin pipe holds
  StdoutCap,   \* pieces the stdout pipe holds
  StderrCap,   \* lines the stderr pipe holds
  ChanCap      \* messages between drainer and client

ASSUME PipeAssumption ==
  /\ Source \in Nat
  /\ Lines \in Nat
  /\ {WorkCap, StdinCap, StdoutCap, StderrCap, ChanCap} \subseteq Nat \ {0}

VARIABLES
  fed, feeder,           \* pieces written to stdin; the feeder task
  taken, made, lines,    \* pieces ffmpeg has read and written, lines it logged
  ffmpeg,                \* ffmpeg: "running", "exited", "crashed", "killed"
  logged, stderrTask,    \* lines the stderr task has read; the task
  drained, drainer,      \* pieces read from stdout; the drainer task
  sent,                  \* messages put in the channel
  got, client            \* pieces the client has; the client

feederVars == <<fed, feeder>>
ffmpegVars == <<taken, made, lines, ffmpeg>>
stderrVars == <<logged, stderrTask>>
drainVars  == <<drained, drainer, sent>>
clientVars == <<got, client>>
pipeVars == <<fed, feeder, taken, made, lines, ffmpeg, logged, stderrTask,
              drained, drainer, sent, got, client>>

PipeInit ==
  /\ fed = 0 /\ feeder = "copying"
  /\ taken = 0 /\ made = 0 /\ lines = 0 /\ ffmpeg = "running"
  /\ logged = 0 /\ stderrTask = "reading"
  /\ drained = 0 /\ drainer = "reading" /\ sent = 0
  /\ got = 0 /\ client = "reading"

Alive == ffmpeg = "running"
-----------------------------------------------------------------------------
(* The feeder task: tokio::io::copy, then shutdown of stdin.               *)

Feed ==
  /\ feeder = "copying"
  /\ fed < Source
  /\ Alive
  /\ fed - taken < StdinCap
  /\ fed' = fed + 1
  /\ UNCHANGED <<feeder, ffmpegVars, stderrVars, drainVars, clientVars>>

\* Fault: a broken pipe is retried.
FeedEndsWhole ==
  /\ feeder = "copying"
  /\ fed = Source
  /\ feeder' = "closed"
  /\ UNCHANGED <<fed, ffmpegVars, stderrVars, drainVars, clientVars>>

\* The source is written, or ffmpeg is gone and the write fails.
FeedEnds ==
  /\ feeder = "copying"
  /\ fed = Source \/ ~Alive
  /\ feeder' = "closed"
  /\ UNCHANGED <<fed, ffmpegVars, stderrVars, drainVars, clientVars>>

-----------------------------------------------------------------------------
(* ffmpeg.                                                                 *)

TakeInput ==
  /\ Alive
  /\ taken < fed
  /\ taken - made < WorkCap
  /\ taken' = taken + 1
  /\ UNCHANGED <<feederVars, made, lines, ffmpeg, stderrVars, drainVars, clientVars>>

MakeOutput ==
  /\ Alive
  /\ made < taken
  /\ made - drained < StdoutCap
  /\ made' = made + 1
  /\ UNCHANGED <<feederVars, taken, lines, ffmpeg, stderrVars, drainVars, clientVars>>

LogLine ==
  /\ Alive
  /\ lines < Lines
  /\ lines - logged < StderrCap
  /\ lines' = lines + 1
  /\ UNCHANGED <<feederVars, taken, made, ffmpeg, stderrVars, drainVars, clientVars>>

FfmpegExits ==
  /\ Alive
  /\ feeder = "closed"
  /\ made = fed
  /\ lines = Lines
  /\ ffmpeg' = "exited"
  /\ UNCHANGED <<feederVars, taken, made, lines, stderrVars, drainVars, clientVars>>

Crash ==
  /\ Alive
  /\ ffmpeg' = "crashed"
  /\ UNCHANGED <<feederVars, taken, made, lines, stderrVars, drainVars, clientVars>>

-----------------------------------------------------------------------------
(* The stderr task reads lines until the pipe closes.                      *)

ReadLine ==
  /\ stderrTask = "reading"
  /\ logged < lines
  /\ logged' = logged + 1
  /\ UNCHANGED <<feederVars, ffmpegVars, stderrTask, drainVars, clientVars>>

StderrEnds ==
  /\ stderrTask = "reading"
  /\ logged = lines
  /\ ~Alive
  /\ stderrTask' = "done"
  /\ UNCHANGED <<feederVars, ffmpegVars, logged, drainVars, clientVars>>

-----------------------------------------------------------------------------
(* The drainer owns the TranscodeHandle; BufferedBody has its channel in   *)
(* detail.                                                                 *)

\* Fault: the whole input is written before the output is read.
DrainAfterFeeding ==
  /\ drainer = "reading"
  /\ feeder = "closed"
  /\ drained < made
  /\ drained' = drained + 1
  /\ drainer' = "sending"
  /\ UNCHANGED <<feederVars, ffmpegVars, stderrVars, sent, clientVars>>

DrainPiece ==
  /\ drainer = "reading"
  /\ drained < made
  /\ drained' = drained + 1
  /\ drainer' = "sending"
  /\ UNCHANGED <<feederVars, ffmpegVars, stderrVars, sent, clientVars>>

\* Fault: the end of the process ends the reading, whatever the pipe holds.
DrainEofAtExit ==
  /\ drainer = "reading"
  /\ ~Alive
  /\ drainer' = "dropping"
  /\ UNCHANGED <<feederVars, ffmpegVars, stderrVars, drained, sent, clientVars>>

\* ffmpeg's stdout is closed and empty: end of file, however ffmpeg ended.
\* Its exit status is not looked at.
DrainEof ==
  /\ drainer = "reading"
  /\ drained = made
  /\ ~Alive
  /\ drainer' = "dropping"
  /\ UNCHANGED <<feederVars, ffmpegVars, stderrVars, drained, sent, clientVars>>

SendPiece ==
  /\ drainer = "sending"
  /\ client = "reading"
  /\ sent - got < ChanCap
  /\ sent' = sent + 1
  /\ drainer' = "reading"
  /\ UNCHANGED <<feederVars, ffmpegVars, stderrVars, drained, clientVars>>

SendFails ==
  /\ drainer = "sending"
  /\ client = "gone"
  /\ drainer' = "dropping"
  /\ UNCHANGED <<feederVars, ffmpegVars, stderrVars, drained, sent, clientVars>>

\* Dropping the handle kills an ffmpeg that still runs; the feeder and the
\* stderr task are detached, not cancelled.
DropHandle ==
  /\ drainer = "dropping"
  /\ drainer' = "done"
  /\ ffmpeg' = IF Alive THEN "killed" ELSE ffmpeg
  /\ UNCHANGED <<feederVars, taken, made, lines, stderrVars, drained, sent, clientVars>>

-----------------------------------------------------------------------------
(* The client, through the body.                                           *)

Receive ==
  /\ client = "reading"
  /\ got < sent
  /\ got' = got + 1
  /\ UNCHANGED <<feederVars, ffmpegVars, stderrVars, drainVars, client>>

\* The channel is closed before the handle is dropped.
SeeEof ==
  /\ client = "reading"
  /\ got = sent
  /\ drainer \in {"dropping", "done"}
  /\ client' = "eof"
  /\ UNCHANGED <<feederVars, ffmpegVars, stderrVars, drainVars, got>>

Disconnect ==
  /\ client = "reading"
  /\ client' = "gone"
  /\ UNCHANGED <<feederVars, ffmpegVars, stderrVars, drainVars, got>>

-----------------------------------------------------------------------------
Feeder  == Feed \/ FeedEnds
Ffmpeg  == TakeInput \/ MakeOutput \/ LogLine \/ FfmpegExits
Stderr  == ReadLine \/ StderrEnds
Drainer == DrainPiece \/ DrainEof \/ SendPiece \/ SendFails \/ DropHandle
Reader  == Receive \/ SeeEof

PipeNext == Feeder \/ Ffmpeg \/ Crash \/ Stderr \/ Drainer \/ Reader \/ Disconnect

PipeSpec == PipeInit /\ [][PipeNext]_pipeVars

\* The runtime runs its tasks; an ffmpeg that can go on does.
StageFairness ==
  WF_pipeVars(Feeder) /\ WF_pipeVars(Ffmpeg) /\ WF_pipeVars(Stderr) /\ WF_pipeVars(Drainer)

LivePipeSpec == PipeSpec /\ StageFairness

\* A client that reads on until it sees the end.
PatientClient == WF_pipeVars(Reader)
-----------------------------------------------------------------------------
Piece == 0 .. Source

\* Every variable keeps its type, and no stage is ahead of the one before.
PipeTypeOK ==
  /\ {fed, taken, made, drained, sent, got} \subseteq Piece
  /\ {lines, logged} \subseteq 0 .. Lines
  /\ feeder \in {"copying", "closed"}
  /\ ffmpeg \in {"running", "exited", "crashed", "killed"}
  /\ stderrTask \in {"reading", "done"}
  /\ drainer \in {"reading", "sending", "dropping", "done"}
  /\ client \in {"reading", "eof", "gone"}
  /\ got <= sent /\ sent <= drained /\ drained <= made
  /\ made <= taken /\ taken <= fed
  /\ logged <= lines

\* A client that sees the end sees the end of ffmpeg, never one invented, and
\* has everything if ffmpeg ended well.
CleanEndIsComplete ==
  client = "eof" => ~Alive /\ (ffmpeg = "exited" => got = Source)

\* With every pipe smaller than the data, a client that reads on gets the
\* end: no cycle of stages waits on itself.
ResponseEnds == PatientClient => <>(client # "reading")

\* A client that leaves takes everything with it, with no step of its own:
\* ffmpeg, the feeder, the stderr task and the drainer all end.
DisconnectReclaims ==
  (client = "gone") ~>
    (~Alive /\ feeder = "closed" /\ stderrTask = "done" /\ drainer = "done")

\* "Any producer error is surfaced": a client is not shown a normal end when
\* ffmpeg failed.
FailureSurfaced == client = "eof" => ffmpeg # "crashed"
=============================================================================
