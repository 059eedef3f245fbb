----------------------------- MODULE DnsSdChild -----------------------------
(***************************************************************************)
(* The advertisement on macOS: a dns-sd child that lives as long as the    *)
(* record does, ended by stop, by the panic hook of any thread or by Drop  *)
(* (mdns/macos.rs, main.rs serve).  TeardownHandle keeps a bare pid, and   *)
(* its waitpid reaps the child behind the back of std's Child: after that  *)
(* the pid belongs to whoever the system gives it to.                      *)
(***************************************************************************)
EXTENDS Naturals

CONSTANTS
  Handlers,   \* request handlers that may panic
  Main        \* the thread of main

Threads == Handlers \cup {Main}

VARIABLES
  main,       \* where serve is
  hook,       \* where the panic hook of each thread is
  teardown,   \* TEARDOWN holds the handle
  responder,  \* dns-sd: "running", "dying", "zombie" or "reaped"
  pid,        \* whose the pid is: "child", "free" or "other"
  waiter,     \* the blocking task of stop: "none", "waiting", "done", "failed"
  stray       \* the signals sent to a process that is not ours

os == <<responder, pid>>
dnsVars == <<main, hook, teardown, os, waiter, stray>>

\* Started and registered: serve is in its select.
DnsInit ==
  /\ main = "serving"
  /\ hook = [t \in Threads |-> "idle"]
  /\ teardown = TRUE
  /\ responder = "running"
  /\ pid = "child"
  /\ waiter = "none"
  /\ stray = {}

\* kill(2): SIGTERM may take its time, SIGKILL does not.
Kill(sig) ==
  /\ responder' = IF responder \in {"zombie", "reaped"} THEN responder
                  ELSE IF sig = "TERM" THEN "dying" ELSE "zombie"
  /\ stray' = IF pid = "other" THEN stray \cup {sig} ELSE stray
  /\ pid' = pid

Reap == responder' = "reaped" /\ pid' = "free"

-----------------------------------------------------------------------------
(* serve and stop *)

\* A signal, or a bind error.
Ended ==
  /\ main = "serving"
  /\ main' = "ended"
  /\ UNCHANGED <<hook, teardown, os, waiter, stray>>

ClearTeardown ==
  /\ main = "ended"
  /\ main' = "cleared"
  /\ teardown' = FALSE
  /\ UNCHANGED <<hook, os, waiter, stray>>

Terminate ==
  /\ main = "cleared"
  /\ Kill("TERM")
  /\ waiter' = "waiting"
  /\ main' = "waiting"
  /\ UNCHANGED <<hook, teardown>>

\* Child::wait has cached the status: the Drop that follows signals nobody.
Waited ==
  /\ waiter = "waiting"
  /\ responder = "zombie"
  /\ Reap
  /\ waiter' = "done"
  /\ UNCHANGED <<main, hook, teardown, stray>>

\* The hook reaped the child: ECHILD.  Nothing is cached, so Drop kills.
WaitFails ==
  /\ waiter = "waiting"
  /\ responder = "reaped"
  /\ Kill("KILL")
  /\ waiter' = "failed"
  /\ UNCHANGED <<main, hook, teardown>>

Stopped ==
  /\ main = "waiting"
  /\ waiter \in {"done", "failed"}
  /\ main' = "stopped"
  /\ UNCHANGED <<hook, teardown, os, waiter, stray>>

\* STOP_TIMEOUT; the kill comes after it, the waiter may come in between.
Timeout ==
  /\ main = "waiting"
  /\ waiter = "waiting"
  /\ main' = "killing"
  /\ UNCHANGED <<hook, teardown, os, waiter, stray>>

\* Fault: the timeout is only reported.
GiveUp ==
  /\ main = "killing"
  /\ main' = "stopped"
  /\ UNCHANGED <<hook, teardown, os, waiter, stray>>

\* Fault: SIGTERM once more instead of SIGKILL.
KillChildGently ==
  /\ main = "killing"
  /\ Kill("TERM")
  /\ main' = "stopped"
  /\ UNCHANGED <<hook, teardown, waiter>>

KillChild ==
  /\ main = "killing"
  /\ Kill("KILL")
  /\ main' = "stopped"
  /\ UNCHANGED <<hook, teardown, waiter>>

\* Drop when main unwinds: kill, then wait.
DropKills ==
  /\ main = "panicked"
  /\ hook[Main] = "done"
  /\ Kill("KILL")
  /\ main' = "dropping"
  /\ UNCHANGED <<hook, teardown, waiter>>

\* Fault: Drop kills and does not wait.
DropNotWaiting ==
  /\ main = "dropping"
  /\ main' = "stopped"
  /\ UNCHANGED <<hook, teardown, os, waiter, stray>>

DropWaits ==
  /\ main = "dropping"
  /\ \/ responder = "zombie" /\ Reap
     \/ responder = "reaped" /\ UNCHANGED os
  /\ main' = "stopped"
  /\ UNCHANGED <<hook, teardown, waiter, stray>>

\* The runtime waits for its blocking task and for workers in the hook.
ProcessExits ==
  /\ main = "stopped"
  /\ waiter # "waiting"
  /\ \A t \in Threads : hook[t] \in {"idle", "done"}
  /\ main' = "exited"
  /\ UNCHANGED <<hook, teardown, os, waiter, stray>>

-----------------------------------------------------------------------------
(* The panic hook *)

Panic(t) ==
  /\ hook[t] = "idle"
  /\ \/ t \in Handlers /\ main \notin {"panicked", "dropping", "exited"} /\ main' = main
     \/ t = Main /\ main = "serving" /\ main' = "panicked"
  /\ hook' = [hook EXCEPT ![t] = "take"]
  /\ UNCHANGED <<teardown, os, waiter, stray>>

TakeHandle(t) ==
  /\ hook[t] = "take"
  /\ hook' = [hook EXCEPT ![t] = IF teardown THEN "term" ELSE "done"]
  /\ teardown' = FALSE
  /\ UNCHANGED <<main, os, waiter, stray>>

EmergencyTerm(t) ==
  /\ hook[t] = "term"
  /\ Kill("TERM")
  /\ hook' = [hook EXCEPT ![t] = "poll"]
  /\ UNCHANGED <<main, teardown, waiter>>

EmergencyReap(t) ==
  /\ hook[t] = "poll"
  /\ responder = "zombie"
  /\ Reap
  /\ hook' = [hook EXCEPT ![t] = "done"]
  /\ UNCHANGED <<main, teardown, waiter, stray>>

\* EMERGENCY_BUDGET is spent.
EmergencyGivesUp(t) ==
  /\ hook[t] = "poll"
  /\ hook' = [hook EXCEPT ![t] = "done"]
  /\ UNCHANGED <<main, teardown, os, waiter, stray>>

-----------------------------------------------------------------------------
(* The system *)

\* dns-sd ends: because it was told to, or by itself.
ChildExits ==
  /\ main # "exited"
  /\ responder \in {"running", "dying"}
  /\ responder' = "zombie"
  /\ UNCHANGED <<main, hook, teardown, pid, waiter, stray>>

\* A pid that was reaped is given to a new process.
PidReused ==
  /\ main # "exited"
  /\ pid = "free"
  /\ pid' = "other"
  /\ UNCHANGED <<main, hook, teardown, responder, waiter, stray>>

-----------------------------------------------------------------------------
StopStep ==
  \/ ClearTeardown \/ Terminate \/ Stopped \/ Timeout \/ KillChild
  \/ DropKills \/ DropWaits \/ ProcessExits

WaitStep == Waited \/ WaitFails

HookStep(t) ==
  \/ TakeHandle(t) \/ EmergencyTerm(t) \/ EmergencyReap(t) \/ EmergencyGivesUp(t)

DnsNext ==
  \/ Ended \/ StopStep \/ WaitStep
  \/ \E t \in Threads : Panic(t) \/ HookStep(t)
  \/ ChildExits \/ PidReused

DnsSpec == DnsInit /\ [][DnsNext]_dnsVars

\* This program's threads run on; dns-sd may ignore SIGTERM for ever.
LiveDnsSpec ==
  DnsSpec /\ WF_dnsVars(StopStep) /\ WF_dnsVars(WaitStep)
       /\ \A t \in Threads : WF_dnsVars(HookStep(t))

-----------------------------------------------------------------------------
\* The pid is the child's until the child is reaped, and not after.
DnsTypeOK ==
  /\ main \in {"serving", "ended", "cleared", "waiting", "killing", "stopped",
               "panicked", "dropping", "exited"}
  /\ hook \in [Threads -> {"idle", "take", "term", "poll", "done"}]
  /\ teardown \in BOOLEAN
  /\ responder \in {"running", "dying", "zombie", "reaped"}
  /\ pid \in {"child", "free", "other"}
  /\ (pid = "child") <=> (responder # "reaped")
  /\ waiter \in {"none", "waiting", "done", "failed"}
  /\ stray \subseteq {"TERM", "KILL"}

\* No dns-sd outlives the server or stays a zombie of it, by whichever of
\* stop, hook and Drop it was ended ("killing it withdraws the record").
NoChildLeft == main = "exited" => responder = "reaped"

\* SIGTERM goes to dns-sd and nobody else ("Sends SIGTERM to dns-sd and
\* waits for it to exit") as long as no panic hook has run: only the hook
\* reaps the child behind a pid that is signalled with SIGTERM later.
TerminatesOwnChild ==
  "TERM" \in stray => \E t \in Threads : hook[t] # "idle"

\* Shutdown ends though dns-sd may never act on SIGTERM: SIGKILL and the
\* budget of the hook see to it.
StopsInTheEnd == main \in {"ended", "panicked"} ~> main = "exited"
=============================================================================
