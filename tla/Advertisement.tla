--------------------------- MODULE Advertisement ---------------------------
(***************************************************************************)
(* The life of the mDNS advertisement on the portable backend: main's      *)
(* serve (main.rs), Advertisement and TeardownHandle (mdns/portable.rs),   *)
(* and the panic hook, which runs on whatever thread panics.               *)
(*                                                                         *)
(* The name of the service lives in one mutex shared by Advertisement and  *)
(* TeardownHandle; the handle lives in another, the process-global         *)
(* TEARDOWN.  Whoever takes the name asks the daemon thread for the        *)
(* goodbye.  Every wait has a timeout, so time is a choice.  A handler     *)
(* that panics is caught by its tokio task: the process goes on.  A panic  *)
(* of main unwinds serve and drops the advertisement on the way.           *)
(***************************************************************************)
EXTENDS Naturals, Sequences

CONSTANTS
  Handlers,   \* request handlers that may panic
  Main        \* the thread of main, which may panic too

ASSUME AdvertisementAssumption == Main \notin Handlers

Threads == Handlers \cup {Main}

VARIABLES
  main,       \* where serve is
  serving,    \* connections are accepted: their tasks outlive the select
  hook,       \* where the panic hook of each thread is
  teardown,   \* TEARDOWN holds a handle
  fullname,   \* the shared cell holds the service's name
  cmds,       \* commands the daemon thread has not looked at
  answered,   \* commands the daemon thread has answered
  daemon,     \* "none", "up" or "down"
  record,     \* what the network was last told: "none", "announced", "withdrawn"
  asked,      \* how often unregister was called
  outcome     \* what stop returned: "none", "ok" or "error"

cells == <<teardown, fullname>>
network == <<cmds, answered, daemon, record>>
vars == <<main, serving, hook, cells, network, asked, outcome>>

Init ==
  /\ main = "start"
  /\ serving = FALSE
  /\ hook = [t \in Threads |-> "idle"]
  /\ teardown = FALSE
  /\ fullname = FALSE
  /\ cmds = <<>>
  /\ answered = {}
  /\ daemon = "none"
  /\ record = "none"
  /\ asked = 0
  /\ outcome = "none"

Send(kind, by) == cmds' = Append(cmds, [kind |-> kind, by |-> by])

\* The daemon's channel is closed: the answer will never come.
Closed(kind, by) == daemon = "down" /\ [kind |-> kind, by |-> by] \notin answered

Answer(kind, by) == [kind |-> kind, by |-> by] \in answered

-----------------------------------------------------------------------------
(* serve *)

StartFails ==
  /\ main = "start"
  /\ main' = "exited"
  /\ UNCHANGED <<serving, hook, cells, network, asked, outcome>>

Start ==
  /\ main = "start"
  /\ main' = "advertised"
  /\ fullname' = TRUE
  /\ daemon' = "up"
  /\ Send("register", Main)
  /\ UNCHANGED <<serving, hook, teardown, answered, record, asked, outcome>>

RegisterTeardown ==
  /\ main = "advertised"
  /\ main' = "binding"
  /\ teardown' = TRUE
  /\ UNCHANGED <<serving, hook, fullname, network, asked, outcome>>

Bind ==
  /\ main = "binding"
  /\ main' = "serving"
  /\ serving' = TRUE
  /\ UNCHANGED <<hook, cells, network, asked, outcome>>

BindFails ==
  /\ main = "binding"
  /\ main' = "ended"
  /\ UNCHANGED <<serving, hook, cells, network, asked, outcome>>

\* wait_for_shutdown wins the select.
Signal ==
  /\ main \in {"binding", "serving"}
  /\ main' = "ended"
  /\ UNCHANGED <<serving, hook, cells, network, asked, outcome>>

ClearTeardown ==
  /\ main = "ended"
  /\ main' = "cleared"
  /\ teardown' = FALSE
  /\ UNCHANGED <<serving, hook, fullname, network, asked, outcome>>

\* Fault: the name is cloned out of the cell and stays in it.
TakeNameCloned ==
  /\ main = "cleared"
  /\ main' = IF fullname THEN "unregister" ELSE "shutdown"
  /\ UNCHANGED <<serving, hook, cells, network, asked, outcome>>

TakeName ==
  /\ main = "cleared"
  /\ main' = IF fullname THEN "unregister" ELSE "shutdown"
  /\ fullname' = FALSE
  /\ UNCHANGED <<serving, hook, teardown, network, asked, outcome>>

\* Fault: the daemon is told to exit first.
UnregisterAfterExit ==
  /\ main = "unregister"
  /\ asked' = asked + 1
  /\ daemon = "up"
  /\ cmds' = cmds \o <<[kind |-> "exit", by |-> Main],
                       [kind |-> "unregister", by |-> Main]>>
  /\ main' = "shutdownWait"
  /\ UNCHANGED <<serving, hook, cells, answered, daemon, record, outcome>>

Unregister ==
  /\ main = "unregister"
  /\ asked' = asked + 1
  /\ \/ /\ daemon = "up"
        /\ Send("unregister", Main)
        /\ main' = "unregisterWait"
        /\ UNCHANGED outcome
     \/ /\ daemon = "down"
        /\ main' = "stopped"
        /\ outcome' = "error"
        /\ UNCHANGED cmds
  /\ UNCHANGED <<serving, hook, cells, answered, daemon, record>>

UnregisterAnswered ==
  /\ main = "unregisterWait"
  /\ Answer("unregister", Main)
  /\ main' = "shutdown"
  /\ UNCHANGED <<serving, hook, cells, network, asked, outcome>>

\* The channel is closed or STOP_TIMEOUT has passed: no shutdown is sent.
UnregisterLost ==
  /\ main = "unregisterWait"
  /\ ~Answer("unregister", Main)
  /\ main' = "stopped"
  /\ outcome' = "error"
  /\ UNCHANGED <<serving, hook, cells, network, asked>>

Shutdown ==
  /\ main = "shutdown"
  /\ \/ /\ daemon = "up"
        /\ Send("exit", Main)
        /\ main' = "shutdownWait"
        /\ UNCHANGED outcome
     \/ /\ daemon = "down"
        /\ main' = "stopped"
        /\ outcome' = "error"
        /\ UNCHANGED cmds
  /\ UNCHANGED <<serving, hook, cells, answered, daemon, record, asked>>

ShutdownAnswered ==
  /\ main = "shutdownWait"
  /\ Answer("exit", Main)
  /\ main' = "stopped"
  /\ outcome' = "ok"
  /\ UNCHANGED <<serving, hook, cells, network, asked>>

\* Fault: the wait for the answer has no timeout.
ShutdownClosedOnly ==
  /\ main = "shutdownWait"
  /\ Closed("exit", Main)
  /\ main' = "stopped"
  /\ outcome' = "error"
  /\ UNCHANGED <<serving, hook, cells, network, asked>>

ShutdownLost ==
  /\ main = "shutdownWait"
  /\ ~Answer("exit", Main)
  /\ main' = "stopped"
  /\ outcome' = "error"
  /\ UNCHANGED <<serving, hook, cells, network, asked>>

-----------------------------------------------------------------------------
(* Drop and the end of the process.  stop owns the advertisement and has   *)
(* taken the name, so the drop that ends it finds none.  A panic of main   *)
(* runs main's hook, and the unwinding then drops the advertisement while  *)
(* the hooks of other threads run on.                                      *)

DropTakesName ==
  /\ main = "panicked" /\ hook[Main] = "done"
  /\ main' = IF fullname THEN "dropUnregister" ELSE "unwound"
  /\ fullname' = FALSE
  /\ UNCHANGED <<serving, hook, teardown, network, asked, outcome>>

\* Nobody waits for the answers of the commands that Drop sends.
DropUnregisters ==
  /\ main = "dropUnregister"
  /\ asked' = asked + 1
  /\ IF daemon = "up" THEN Send("unregister", Main) ELSE UNCHANGED cmds
  /\ main' = "dropShutdown"
  /\ UNCHANGED <<serving, hook, cells, answered, daemon, record, outcome>>

DropShutsDown ==
  /\ main = "dropShutdown"
  /\ IF daemon = "up" THEN Send("exit", Main) ELSE UNCHANGED cmds
  /\ main' = "unwound"
  /\ UNCHANGED <<serving, hook, cells, answered, daemon, record, asked, outcome>>

\* Fault: the process does not wait for the threads of the runtime.
ExitAtOnce ==
  /\ main \in {"stopped", "unwound"}
  /\ main' = "exited"
  /\ UNCHANGED <<serving, hook, cells, network, asked, outcome>>

\* serve is over and its advertisement dropped: the runtime is dropped, which
\* waits for a worker that is still inside the hook.
Exit ==
  /\ main \in {"stopped", "unwound"}
  /\ \A t \in Threads : hook[t] \in {"idle", "done"}
  /\ main' = "exited"
  /\ UNCHANGED <<serving, hook, cells, network, asked, outcome>>

-----------------------------------------------------------------------------
(* The panic hook *)

\* A handler may panic as long as the runtime has its worker.
Panic(t) ==
  /\ hook[t] = "idle"
  /\ \/ t \in Handlers /\ serving /\ main # "exited" /\ main' = main
     \/ t = Main /\ main \in {"binding", "serving"} /\ main' = "panicked"
  /\ hook' = [hook EXCEPT ![t] = "take"]
  /\ UNCHANGED <<serving, cells, network, asked, outcome>>

HookTakesHandle(t) ==
  /\ hook[t] = "take"
  /\ hook' = [hook EXCEPT ![t] = IF teardown THEN "name" ELSE "done"]
  /\ teardown' = FALSE
  /\ UNCHANGED <<main, serving, fullname, network, asked, outcome>>

HookTakesName(t) ==
  /\ hook[t] = "name"
  /\ hook' = [hook EXCEPT ![t] = IF fullname THEN "unregister" ELSE "shutdown"]
  /\ fullname' = FALSE
  /\ UNCHANGED <<main, serving, teardown, network, asked, outcome>>

HookUnregisters(t) ==
  /\ hook[t] = "unregister"
  /\ asked' = asked + 1
  /\ IF daemon = "up"
     THEN /\ Send("unregister", t)
          /\ hook' = [hook EXCEPT ![t] = "unregisterWait"]
     ELSE /\ hook' = [hook EXCEPT ![t] = "shutdown"]
          /\ UNCHANGED cmds
  /\ UNCHANGED <<main, serving, cells, answered, daemon, record, outcome>>

\* Answered, closed, or the budget is spent: the shutdown follows anyway.
HookWaitEnds(t) ==
  /\ hook[t] = "unregisterWait"
  /\ hook' = [hook EXCEPT ![t] = "shutdown"]
  /\ UNCHANGED <<main, serving, cells, network, asked, outcome>>

HookShutsDown(t) ==
  /\ hook[t] = "shutdown"
  /\ IF daemon = "up"
     THEN /\ Send("exit", t)
          /\ hook' = [hook EXCEPT ![t] = "shutdownWait"]
     ELSE /\ hook' = [hook EXCEPT ![t] = "done"]
          /\ UNCHANGED cmds
  /\ UNCHANGED <<main, serving, cells, answered, daemon, record, asked, outcome>>

HookEnds(t) ==
  /\ hook[t] = "shutdownWait"
  /\ hook' = [hook EXCEPT ![t] = "done"]
  /\ UNCHANGED <<main, serving, cells, network, asked, outcome>>

-----------------------------------------------------------------------------
(* The daemon thread of mdns-sd: it dies with the process.  It may refuse  *)
(* a registration, and then does not find the service to unregister; both  *)
(* answers let the asker go on.                                            *)
DaemonStep ==
  /\ main # "exited"
  /\ daemon = "up"
  /\ cmds # <<>>
  /\ answered' = answered \cup {Head(cmds)}
  /\ CASE Head(cmds).kind = "register" ->
            record' \in {record, "announced"} /\ cmds' = Tail(cmds) /\ UNCHANGED daemon
       [] Head(cmds).kind = "unregister" ->
            /\ record' = IF record = "announced" THEN "withdrawn" ELSE record
            /\ cmds' = Tail(cmds) /\ UNCHANGED daemon
       [] Head(cmds).kind = "exit" ->
            daemon' = "down" /\ cmds' = <<>> /\ UNCHANGED record
  /\ UNCHANGED <<main, serving, hook, cells, asked, outcome>>

-----------------------------------------------------------------------------
StopStep ==
  \/ ClearTeardown \/ TakeName \/ Unregister \/ UnregisterAnswered
  \/ UnregisterLost \/ Shutdown \/ ShutdownAnswered \/ ShutdownLost
  \/ DropTakesName \/ DropUnregisters \/ DropShutsDown \/ Exit

HookStep(t) ==
  \/ HookTakesHandle(t) \/ HookTakesName(t) \/ HookUnregisters(t)
  \/ HookWaitEnds(t) \/ HookShutsDown(t) \/ HookEnds(t)

Next ==
  \/ StartFails \/ Start \/ RegisterTeardown \/ Bind \/ BindFails \/ Signal
  \/ StopStep
  \/ \E t \in Threads : Panic(t) \/ HookStep(t)
  \/ DaemonStep

Spec == Init /\ [][Next]_vars

\* The threads of this program run on; the daemon owes nothing.
LiveSpec == Spec /\ WF_vars(StopStep) /\ \A t \in Threads : WF_vars(HookStep(t))

-----------------------------------------------------------------------------
Commands == [kind : {"register", "unregister", "exit"}, by : Threads]

HookPhases == {"idle", "take", "name", "unregister", "unregisterWait",
               "shutdown", "shutdownWait", "done"}

\* The cells hold what they may hold and no hook runs where nobody panicked.
TypeOK ==
  /\ main \in {"start", "advertised", "binding", "serving", "ended", "cleared",
               "unregister", "unregisterWait", "shutdown", "shutdownWait",
               "stopped", "panicked", "dropUnregister", "dropShutdown", "unwound", "exited"}
  /\ serving \in BOOLEAN
  /\ hook \in [Threads -> HookPhases]
  /\ teardown \in BOOLEAN /\ fullname \in BOOLEAN
  /\ cmds \in Seq(Commands) /\ answered \subseteq Commands
  /\ daemon \in {"none", "up", "down"}
  /\ record \in {"none", "announced", "withdrawn"}
  /\ asked \in 0 .. 1
  /\ outcome \in {"none", "ok", "error"}

\* t has taken the name, in its hook, in stop or in Drop, and not yet called
\* unregister.
Holds(t) ==
  hook[t] = "unregister" \/ (t = Main /\ main \in {"unregister", "dropUnregister"})

\* The name is in the cell, or with one holder, or was handed to the daemon,
\* and never in two of these places: stop, the hook of every thread and the
\* Drop of an unwinding main between them ask for one goodbye, whatever their
\* order (portable.rs takes the name under the mutex).
OneGoodbye ==
  daemon # "none" =>
    /\ \A t, u \in Threads : Holds(t) /\ Holds(u) => t = u
    /\ fullname => asked = 0
    /\ (fullname \/ asked = 1) <=> \A t \in Threads : ~Holds(t)

\* However the process ends (signal, bind error, panic of main, panics of
\* handlers during the shutdown or the unwinding), it has asked for the goodbye
\* before: Drop, when main unwinds past a hook that has the handle and not yet
\* the name.
ExitAsksGoodbye == main = "exited" /\ daemon # "none" => asked = 1

\* A stop that reports success leaves no record behind, unless a panic hook
\* ran beside it: unregister is answered before the shutdown is sent.
CleanStop ==
  outcome = "ok" /\ (\A t \in Threads : hook[t] = "idle") => record # "announced"

\* Shutdown ends, however slow or dead the daemon is: every wait has a
\* timeout and the hooks' waits have theirs.
StopsInTheEnd == main \in {"ended", "panicked"} ~> main = "exited"
=============================================================================
