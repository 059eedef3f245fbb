------------------------ MODULE AdvertisementProofs ------------------------
(***************************************************************************)
(* For any set of handlers: the goodbye is asked for once, and never not.  *)
(***************************************************************************)
EXTENDS Advertisement, TLAPS

\* stop is past taking the name.
Stopping == {"unregister", "unregisterWait", "shutdown", "shutdownWait", "stopped"}

\* Drop is past taking the name.
Dropped == {"dropUnregister", "dropShutdown", "unwound"}

\* What the cell, the holders and asked owe to where main and the hooks are.
Places ==
  /\ daemon = "none" =>
       /\ main \in {"start", "exited"}
       /\ ~serving
       /\ ~fullname
       /\ asked = 0
       /\ \A t \in Threads : hook[t] = "idle"
  /\ main = "start" => daemon = "none"
  /\ main \in Stopping \cup Dropped \cup {"exited"} => ~fullname
  /\ hook[Main] # "idle" => main \in {"panicked", "exited"} \cup Dropped
  /\ main \in Dropped => hook[Main] = "done"
  /\ main = "exited" => \A t \in Threads : hook[t] \in {"idle", "done"}

IInv == TypeOK /\ Places /\ OneGoodbye

\* The process only exits when it has asked for the goodbye.
LEMMA Exits == IInv => ExitAsksGoodbye
<1> SUFFICES ASSUME IInv, main = "exited", daemon # "none"
             PROVE  asked = 1
  BY DEF ExitAsksGoodbye
<1>1. ~fullname
  BY DEF IInv, Places
<1>2. \A t \in Threads : ~Holds(t)
  BY DEF IInv, Places, Holds
<1>3. asked = 1
  BY <1>1, <1>2 DEF IInv, OneGoodbye
<1> QED
  BY <1>3

\* One command more, one command less: still commands.
LEMMA OneMore ==
  ASSUME cmds \in Seq(Commands), NEW k \in {"register", "unregister", "exit"},
         NEW t \in Threads
  PROVE  Append(cmds, [kind |-> k, by |-> t]) \in Seq(Commands)
<1>1. [kind |-> k, by |-> t] \in Commands
  BY DEF Commands
<1> QED
  BY <1>1

LEMMA OneLess ==
  ASSUME cmds \in Seq(Commands), cmds # <<>>
  PROVE  Head(cmds) \in Commands /\ Tail(cmds) \in Seq(Commands)
OBVIOUS

LEMMA NoCommands == <<>> \in Seq(Commands)
OBVIOUS

LEMMA InitHolds == Init => IInv
<1> SUFFICES ASSUME Init PROVE IInv
  OBVIOUS
<1>1. TypeOK
  <2>1. cmds \in Seq(Commands)
    BY NoCommands DEF Init
  <2>2. answered \subseteq Commands /\ asked \in 0 .. 1
    BY DEF Init
  <2> QED
    BY <2>1, <2>2 DEF Init, TypeOK, HookPhases
<1>2. Places /\ OneGoodbye
  BY DEF Init, Places, OneGoodbye, Stopping, Dropped, Threads
<1> QED
  BY <1>1, <1>2 DEF IInv

LEMMA StepHolds == IInv /\ [Next]_vars => IInv'
<1> SUFFICES ASSUME IInv, [Next]_vars PROVE IInv'
  OBVIOUS
<1> USE DEF HookPhases, Stopping, Dropped, cells, network
<1>0. Main \in Threads /\ Main \notin Handlers
  BY AdvertisementAssumption DEF Threads
<1>1. CASE StartFails
  <2>1. TypeOK'
    BY <1>1 DEF StartFails, IInv, TypeOK
  <2>2. Places'
    BY <1>0, <1>1 DEF StartFails, IInv, Places, TypeOK
  <2>3. OneGoodbye'
    BY <1>0, <1>1 DEF StartFails, IInv, TypeOK, Places, OneGoodbye, Holds
  <2> QED
    BY <2>1, <2>2, <2>3 DEF IInv
<1>2. CASE Start
  <2>1. TypeOK'
    BY <1>2 DEF Start, Send, Commands, Threads, IInv, TypeOK
  <2>2. Places'
    BY <1>0, <1>2 DEF Start, IInv, Places, TypeOK
  <2>3. OneGoodbye'
    BY <1>0, <1>2 DEF Start, IInv, TypeOK, Places, OneGoodbye, Holds
  <2> QED
    BY <2>1, <2>2, <2>3 DEF IInv
<1>3. CASE RegisterTeardown
  <2>1. TypeOK'
    BY <1>3 DEF RegisterTeardown, IInv, TypeOK
  <2>2. Places'
    BY <1>0, <1>3 DEF RegisterTeardown, IInv, Places, TypeOK
  <2>3. OneGoodbye'
    BY <1>0, <1>3 DEF RegisterTeardown, IInv, TypeOK, Places, OneGoodbye, Holds
  <2> QED
    BY <2>1, <2>2, <2>3 DEF IInv
<1>4. CASE Bind \/ BindFails \/ Signal
  <2>1. TypeOK'
    BY <1>4 DEF Bind, BindFails, Signal, IInv, TypeOK
  <2>2. Places'
    BY <1>0, <1>4 DEF Bind, BindFails, Signal, IInv, Places, TypeOK
  <2>3. OneGoodbye'
    BY <1>0, <1>4 DEF Bind, BindFails, Signal, IInv, TypeOK, Places, OneGoodbye, Holds
  <2> QED
    BY <2>1, <2>2, <2>3 DEF IInv
<1>5. CASE ClearTeardown
  <2>1. TypeOK'
    BY <1>5 DEF ClearTeardown, IInv, TypeOK
  <2>2. Places'
    BY <1>0, <1>5 DEF ClearTeardown, IInv, Places, TypeOK
  <2>3. OneGoodbye'
    BY <1>0, <1>5 DEF ClearTeardown, IInv, TypeOK, Places, OneGoodbye, Holds
  <2> QED
    BY <2>1, <2>2, <2>3 DEF IInv
<1>6. CASE TakeName
  <2>1. TypeOK'
    BY <1>6 DEF TakeName, IInv, TypeOK
  <2>2. Places'
    BY <1>0, <1>6 DEF TakeName, IInv, Places, TypeOK
  <2>3. OneGoodbye'
    BY <1>0, <1>6 DEF TakeName, IInv, TypeOK, Places, OneGoodbye, Holds
  <2> QED
    BY <2>1, <2>2, <2>3 DEF IInv
<1>7. CASE Unregister
  <2>1. TypeOK'
    <3>1. Main \in Threads
      BY DEF Threads
    <3>2. cmds' \in Seq(Commands)
      BY <1>7, <3>1, OneMore DEF Unregister, Send, IInv, TypeOK
    <3>3. asked' \in 0 .. 1
      BY <1>0, <1>7 DEF Unregister, IInv, TypeOK, OneGoodbye, Places, Holds
    <3> QED
      BY <1>7, <3>2, <3>3 DEF Unregister, IInv, TypeOK
  <2>2. Places'
    BY <1>0, <1>7 DEF Unregister, IInv, Places, TypeOK
  <2>3. OneGoodbye'
    <3>1. Holds(Main) /\ ~fullname /\ asked = 0 /\ \A t \in Threads : Holds(t) => t = Main
      BY <1>0, <1>7 DEF Unregister, IInv, TypeOK, Places, OneGoodbye, Holds
    <3>2. main' \notin {"unregister", "dropUnregister"} /\ asked' = 1 /\ ~fullname'
      BY <1>7, <3>1 DEF Unregister
    <3>3. \A t \in Threads : ~Holds(t)'
      BY <1>0, <1>7, <3>1, <3>2 DEF Unregister, Holds, IInv, Places, TypeOK
    <3> QED
      BY <3>2, <3>3 DEF OneGoodbye
  <2> QED
    BY <2>1, <2>2, <2>3 DEF IInv
<1>8. CASE UnregisterAnswered \/ UnregisterLost
  <2>1. TypeOK'
    BY <1>8 DEF UnregisterAnswered, UnregisterLost, IInv, TypeOK
  <2>2. Places'
    BY <1>0, <1>8 DEF UnregisterAnswered, UnregisterLost, IInv, Places, TypeOK
  <2>3. OneGoodbye'
    BY <1>0, <1>8 DEF UnregisterAnswered, UnregisterLost, IInv, TypeOK, Places, OneGoodbye, Holds
  <2> QED
    BY <2>1, <2>2, <2>3 DEF IInv
<1>9. CASE Shutdown
  <2>1. TypeOK'
    <3>1. Main \in Threads
      BY DEF Threads
    <3>2. cmds' \in Seq(Commands)
      BY <1>9, <3>1, OneMore DEF Shutdown, Send, IInv, TypeOK
    <3> QED
      BY <1>9, <3>2 DEF Shutdown, IInv, TypeOK
  <2>2. Places'
    BY <1>0, <1>9 DEF Shutdown, IInv, Places, TypeOK
  <2>3. OneGoodbye'
    BY <1>0, <1>9 DEF Shutdown, IInv, TypeOK, Places, OneGoodbye, Holds
  <2> QED
    BY <2>1, <2>2, <2>3 DEF IInv
<1>10. CASE ShutdownAnswered \/ ShutdownLost
  <2>1. TypeOK'
    BY <1>10 DEF ShutdownAnswered, ShutdownLost, IInv, TypeOK
  <2>2. Places'
    BY <1>0, <1>10 DEF ShutdownAnswered, ShutdownLost, IInv, Places, TypeOK
  <2>3. OneGoodbye'
    BY <1>0, <1>10 DEF ShutdownAnswered, ShutdownLost, IInv, TypeOK, Places, OneGoodbye, Holds
  <2> QED
    BY <2>1, <2>2, <2>3 DEF IInv
<1>11. CASE Exit
  <2>1. TypeOK'
    BY <1>11 DEF Exit, IInv, TypeOK
  <2>2. Places'
    BY <1>0, <1>11 DEF Exit, IInv, Places, TypeOK
  <2>3. OneGoodbye'
    BY <1>0, <1>11 DEF Exit, IInv, TypeOK, Places, OneGoodbye, Holds
  <2> QED
    BY <2>1, <2>2, <2>3 DEF IInv
<1>21. CASE DropTakesName
  <2>1. TypeOK'
    BY <1>21 DEF DropTakesName, IInv, TypeOK
  <2>2. Places'
    BY <1>0, <1>21 DEF DropTakesName, IInv, Places, TypeOK
  <2>3. OneGoodbye'
    BY <1>0, <1>21 DEF DropTakesName, IInv, TypeOK, Places, OneGoodbye, Holds
  <2> QED
    BY <2>1, <2>2, <2>3 DEF IInv
<1>22. CASE DropUnregisters
  <2>1. TypeOK'
    <3>1. cmds' \in Seq(Commands)
      BY <1>0, <1>22, OneMore DEF DropUnregisters, Send, IInv, TypeOK
    <3>2. asked' \in 0 .. 1
      BY <1>0, <1>22 DEF DropUnregisters, IInv, TypeOK, OneGoodbye, Places, Holds
    <3> QED
      BY <1>22, <3>1, <3>2 DEF DropUnregisters, IInv, TypeOK
  <2>2. Places'
    BY <1>0, <1>22 DEF DropUnregisters, IInv, Places, TypeOK
  <2>3. OneGoodbye'
    BY <1>0, <1>22 DEF DropUnregisters, IInv, TypeOK, Places, OneGoodbye, Holds
  <2> QED
    BY <2>1, <2>2, <2>3 DEF IInv
<1>23. CASE DropShutsDown
  <2>1. TypeOK'
    <3>1. cmds' \in Seq(Commands)
      BY <1>0, <1>23, OneMore DEF DropShutsDown, Send, IInv, TypeOK
    <3> QED
      BY <1>23, <3>1 DEF DropShutsDown, IInv, TypeOK
  <2>2. Places'
    BY <1>0, <1>23 DEF DropShutsDown, IInv, Places, TypeOK
  <2>3. OneGoodbye'
    BY <1>0, <1>23 DEF DropShutsDown, IInv, TypeOK, Places, OneGoodbye, Holds
  <2> QED
    BY <2>1, <2>2, <2>3 DEF IInv
<1>12. ASSUME NEW t \in Threads, Panic(t) PROVE IInv'
  <2>1. TypeOK'
    BY <1>12 DEF Panic, IInv, TypeOK
  <2>2. Places'
    BY <1>0, <1>12 DEF Panic, IInv, Places, TypeOK
  <2>3. OneGoodbye'
    BY <1>0, <1>12 DEF Panic, IInv, TypeOK, Places, OneGoodbye, Holds
  <2> QED
    BY <2>1, <2>2, <2>3 DEF IInv
<1>13. ASSUME NEW t \in Threads, HookTakesHandle(t) PROVE IInv'
  <2>1. TypeOK'
    BY ZenonT(60), <1>13 DEF HookTakesHandle, IInv, TypeOK
  <2>2. Places'
    BY <1>0, <1>13 DEF HookTakesHandle, IInv, Places, TypeOK
  <2>3. OneGoodbye'
    BY <1>0, <1>13 DEF HookTakesHandle, IInv, TypeOK, Places, OneGoodbye, Holds
  <2> QED
    BY <2>1, <2>2, <2>3 DEF IInv
<1>14. ASSUME NEW t \in Threads, HookTakesName(t) PROVE IInv'
  <2>1. TypeOK'
    BY ZenonT(60), <1>14 DEF HookTakesName, IInv, TypeOK
  <2>2. Places'
    BY <1>0, <1>14 DEF HookTakesName, IInv, Places, TypeOK
  <2>3. OneGoodbye'
    BY <1>0, <1>14 DEF HookTakesName, IInv, TypeOK, Places, OneGoodbye, Holds
  <2> QED
    BY <2>1, <2>2, <2>3 DEF IInv
<1>15. ASSUME NEW t \in Threads, HookUnregisters(t) PROVE IInv'
  <2>1. TypeOK'
    <3>1. cmds' \in Seq(Commands)
      BY <1>15, OneMore DEF HookUnregisters, Send, IInv, TypeOK
    <3>2. asked' \in 0 .. 1
      BY <1>15 DEF HookUnregisters, IInv, TypeOK, OneGoodbye, Places, Holds
    <3> QED
      BY <1>15, <3>1, <3>2 DEF HookUnregisters, IInv, TypeOK
  <2>2. Places'
    BY <1>0, <1>15 DEF HookUnregisters, IInv, Places, TypeOK
  <2>3. OneGoodbye'
    <3>1. ~fullname /\ asked = 0 /\ \A u \in Threads : Holds(u) => u = t
      BY <1>0, <1>15 DEF HookUnregisters, IInv, TypeOK, Places, OneGoodbye, Holds
    <3>2. main' = main /\ asked' = 1 /\ ~fullname' /\ hook'[t] # "unregister"
      BY <1>15, <3>1 DEF HookUnregisters, IInv, TypeOK
    <3>3. Holds(t)' => t = Main /\ main \in {"unregister", "dropUnregister"}
      BY <3>2 DEF Holds
    <3>4. \A u \in Threads : ~Holds(u)'
      BY <1>0, <1>15, <3>1, <3>2, <3>3 DEF HookUnregisters, Holds, IInv, Places, TypeOK
    <3> QED
      BY <3>2, <3>4 DEF OneGoodbye
  <2> QED
    BY <2>1, <2>2, <2>3 DEF IInv
<1>16. ASSUME NEW t \in Threads, HookWaitEnds(t) PROVE IInv'
  <2>1. TypeOK'
    BY <1>16 DEF HookWaitEnds, IInv, TypeOK
  <2>2. Places'
    BY <1>0, <1>16 DEF HookWaitEnds, IInv, Places, TypeOK
  <2>3. OneGoodbye'
    BY <1>0, <1>16 DEF HookWaitEnds, IInv, TypeOK, Places, OneGoodbye, Holds
  <2> QED
    BY <2>1, <2>2, <2>3 DEF IInv
<1>17. ASSUME NEW t \in Threads, HookShutsDown(t) PROVE IInv'
  <2>1. TypeOK'
    <3>1. cmds' \in Seq(Commands)
      BY <1>17, OneMore DEF HookShutsDown, Send, IInv, TypeOK
    <3> QED
      BY <1>17, <3>1 DEF HookShutsDown, IInv, TypeOK
  <2>2. Places'
    BY <1>0, <1>17 DEF HookShutsDown, IInv, Places, TypeOK
  <2>3. OneGoodbye'
    BY <1>0, <1>17 DEF HookShutsDown, IInv, TypeOK, Places, OneGoodbye, Holds
  <2> QED
    BY <2>1, <2>2, <2>3 DEF IInv
<1>18. ASSUME NEW t \in Threads, HookEnds(t) PROVE IInv'
  <2>1. TypeOK'
    BY <1>18 DEF HookEnds, IInv, TypeOK
  <2>2. Places'
    BY <1>0, <1>18 DEF HookEnds, IInv, Places, TypeOK
  <2>3. OneGoodbye'
    BY <1>0, <1>18 DEF HookEnds, IInv, TypeOK, Places, OneGoodbye, Holds
  <2> QED
    BY <2>1, <2>2, <2>3 DEF IInv
<1>19. CASE DaemonStep
  <2>1. TypeOK'
    <3>1. Head(cmds) \in Commands /\ Tail(cmds) \in Seq(Commands)
      BY <1>19, OneLess DEF DaemonStep, IInv, TypeOK
    <3>2. Head(cmds).kind \in {"register", "unregister", "exit"}
      BY <3>1 DEF Commands
    <3>3. /\ cmds' \in Seq(Commands)
          /\ daemon' \in {"up", "down"}
          /\ record' \in {"none", "announced", "withdrawn"}
      BY <1>19, <3>1, <3>2, NoCommands DEF DaemonStep, IInv, TypeOK
    <3>4. answered' \subseteq Commands
      BY <1>19, <3>1 DEF DaemonStep, IInv, TypeOK
    <3> QED
      BY <1>19, <3>3, <3>4 DEF DaemonStep, IInv, TypeOK
  <2>2. daemon' \in {"up", "down"}
    <3>1. Head(cmds).kind \in {"register", "unregister", "exit"}
      BY <1>19, OneLess DEF DaemonStep, IInv, TypeOK, Commands
    <3> QED
      BY <1>19, <3>1 DEF DaemonStep
  <2>3. Places'
    BY <1>19, <2>2 DEF DaemonStep, IInv, Places, TypeOK
  <2>4. OneGoodbye'
    BY <1>0, <1>19 DEF DaemonStep, IInv, TypeOK, Places, OneGoodbye, Holds
  <2> QED
    BY <2>1, <2>3, <2>4 DEF IInv
<1>20. CASE UNCHANGED vars
  <2>1. TypeOK'
    BY <1>20 DEF vars, IInv, TypeOK
  <2>2. Places'
    BY <1>0, <1>20 DEF vars, IInv, Places, TypeOK
  <2>3. OneGoodbye'
    BY <1>0, <1>20 DEF vars, IInv, TypeOK, Places, OneGoodbye, Holds
  <2> QED
    BY <2>1, <2>2, <2>3 DEF IInv
<1> QED
  BY <1>1, <1>2, <1>3, <1>4, <1>5, <1>6, <1>7, <1>8, <1>9, <1>10,
     <1>11, <1>12, <1>13, <1>14, <1>15, <1>16, <1>17, <1>18, <1>19, <1>20,
     <1>21, <1>22, <1>23
  DEF Next, StopStep, HookStep

\* The inductive invariant holds of every behaviour.
THEOREM Invariance == Spec => []IInv
<1>1. Init => IInv
  BY InitHolds
<1>2. IInv /\ [Next]_vars => IInv'
  BY StepHolds
<1> QED
  BY <1>1, <1>2, PTL DEF Spec

\* Type correctness, for any set of handlers.
THEOREM TypeCorrect == Spec => []TypeOK
<1>1. IInv => TypeOK
  BY DEF IInv
<1> QED
  BY <1>1, Invariance, PTL

\* stop, the hooks of all threads and the Drop of an unwinding main, in whatever
\* order they come to the name, never ask for two goodbyes, and the name is
\* never lost between them.
THEOREM AsksOnce == Spec => []OneGoodbye
<1>1. IInv => OneGoodbye
  BY DEF IInv
<1> QED
  BY <1>1, Invariance, PTL

\* No way out of the process skips the goodbye, nor does one of the hooks that
\* are still under way when main unwinds.
THEOREM AsksBeforeExit == Spec => []ExitAsksGoodbye
<1> QED
  BY Exits, Invariance, PTL

-----------------------------------------------------------------------------
(* What a clean stop leaves behind.  The daemon looks at its commands in   *)
(* order and only the first is ever a register: once an unregister is      *)
(* answered no record is announced.                                        *)

NoRegister(s) == \A i \in 1 .. Len(s) : s[i].kind # "register"
OnlyFirst(s) == \A i \in 2 .. Len(s) : s[i].kind # "register"

Quiet == \A t \in Threads : hook[t] = "idle"
Goodbye == [kind |-> "unregister", by |-> Main]

Withdrawal ==
  /\ OnlyFirst(cmds)
  /\ daemon = "none" => cmds = <<>> /\ answered = {}
  /\ \A c \in answered : c.kind = "unregister" => record # "announced" /\ NoRegister(cmds)

InOrder ==
  Quiet =>
    /\ main \in {"advertised", "binding", "serving", "ended", "cleared"} => fullname
    /\ main \in {"shutdown", "shutdownWait"} \/ outcome = "ok" => Goodbye \in answered

LEMMA SendsNoRegister ==
  ASSUME NEW s \in Seq(Commands), NEW c \in Commands, c.kind # "register"
  PROVE  /\ OnlyFirst(s) => OnlyFirst(Append(s, c))
         /\ NoRegister(s) => NoRegister(Append(s, c))
BY DEF OnlyFirst, NoRegister

LEMMA LooksAtOne ==
  ASSUME NEW s \in Seq(Commands), s # <<>>, OnlyFirst(s)
  PROVE  OnlyFirst(Tail(s)) /\ NoRegister(Tail(s))
BY DEF OnlyFirst, NoRegister

LEMMA WithdrawalStep ==
  ASSUME IInv, Withdrawal, [Next]_vars
  PROVE  Withdrawal'
<1> USE DEF cells, network
<1>0. cmds \in Seq(Commands) /\ answered \subseteq Commands /\ Main \in Threads
  BY DEF IInv, TypeOK, Threads
<1>1. CASE UNCHANGED network
  BY <1>1 DEF Withdrawal
<1>2. CASE Start
  <2>1. cmds' = <<[kind |-> "register", by |-> Main]>> /\ answered' = {} /\ daemon' = "up"
    BY <1>2 DEF Start, Send, IInv, Places, Withdrawal
  <2>2. OnlyFirst(cmds')
    BY <2>1 DEF OnlyFirst
  <2> QED
    BY <2>1, <2>2 DEF Withdrawal
<1>3. ASSUME NEW k \in {"unregister", "exit"}, NEW t \in Threads,
             daemon = "up", Send(k, t), UNCHANGED <<answered, daemon, record>>
      PROVE  Withdrawal'
  <2>1. [kind |-> k, by |-> t] \in Commands /\ k # "register"
    BY DEF Commands
  <2> QED
    BY <1>0, <1>3, <2>1, SendsNoRegister DEF Send, Withdrawal
<1>4. CASE Unregister \/ Shutdown \/ DropUnregisters \/ DropShutsDown
  BY <1>0, <1>1, <1>3, <1>4 DEF Unregister, Shutdown, DropUnregisters, DropShutsDown
<1>5. ASSUME NEW t \in Threads, HookUnregisters(t) \/ HookShutsDown(t) PROVE Withdrawal'
  BY <1>0, <1>1, <1>3, <1>5 DEF HookUnregisters, HookShutsDown
<1>7. CASE DaemonStep
  <2>1. /\ cmds # <<>> /\ daemon = "up" /\ answered' = answered \cup {Head(cmds)}
        /\ Head(cmds) \in Commands
    BY <1>0, <1>7, OneLess DEF DaemonStep
  <2>2. OnlyFirst(Tail(cmds)) /\ NoRegister(Tail(cmds))
    BY <1>0, <2>1, LooksAtOne DEF Withdrawal
  <2>3. OnlyFirst(<<>>) /\ NoRegister(<<>>)
    BY DEF OnlyFirst, NoRegister
  <2>4. Head(cmds) = cmds[1] /\ 1 \in 1 .. Len(cmds)
    BY <1>0, <2>1
  <2>5. CASE Head(cmds).kind = "register"
    <3>1. \A c \in answered : c.kind # "unregister"
      BY <2>4, <2>5 DEF Withdrawal, NoRegister
    <3> QED
      BY <1>7, <2>1, <2>2, <2>5, <3>1 DEF DaemonStep, Withdrawal
  <2>6. CASE Head(cmds).kind = "unregister"
    BY <1>7, <2>1, <2>2, <2>6 DEF DaemonStep, Withdrawal
  <2>7. CASE Head(cmds).kind = "exit"
    BY <1>7, <2>1, <2>3, <2>7 DEF DaemonStep, Withdrawal
  <2> QED
    BY <2>1, <2>5, <2>6, <2>7 DEF Commands
<1>8. CASE StartFails \/ RegisterTeardown \/ Bind \/ BindFails \/ Signal \/ ClearTeardown
           \/ TakeName \/ UnregisterAnswered \/ UnregisterLost \/ ShutdownAnswered
           \/ ShutdownLost \/ DropTakesName \/ Exit \/ UNCHANGED vars
  BY <1>1, <1>8 DEF StartFails, RegisterTeardown, Bind, BindFails, Signal, ClearTeardown,
     TakeName, UnregisterAnswered, UnregisterLost, ShutdownAnswered, ShutdownLost,
     DropTakesName, Exit, vars
<1>9. ASSUME NEW t \in Threads,
             Panic(t) \/ HookTakesHandle(t) \/ HookTakesName(t) \/ HookWaitEnds(t) \/ HookEnds(t)
      PROVE  Withdrawal'
  BY <1>1, <1>9 DEF Panic, HookTakesHandle, HookTakesName, HookWaitEnds, HookEnds
<1> QED
  BY <1>2, <1>4, <1>5, <1>7, <1>8, <1>9 DEF Next, StopStep, HookStep

LEMMA InOrderStep ==
  ASSUME IInv, InOrder, [Next]_vars
  PROVE  InOrder'
<1> USE DEF cells, network
<1>1. ASSUME NEW t \in Threads, Panic(t) \/ HookStep(t) PROVE ~Quiet'
  BY <1>1 DEF Panic, HookStep, HookTakesHandle, HookTakesName, HookUnregisters,
     HookWaitEnds, HookShutsDown, HookEnds, Quiet, IInv, TypeOK
<1>2. CASE StartFails \/ Start \/ RegisterTeardown \/ Bind \/ BindFails \/ Signal
  BY <1>2 DEF StartFails, Start, RegisterTeardown, Bind, BindFails, Signal, InOrder, Quiet, Goodbye
<1>3. CASE ClearTeardown \/ TakeName \/ Unregister
  BY <1>3 DEF ClearTeardown, TakeName, Unregister, InOrder, Quiet, Goodbye
<1>4. CASE UnregisterAnswered \/ UnregisterLost \/ Shutdown
  BY <1>4 DEF UnregisterAnswered, UnregisterLost, Shutdown, Answer, InOrder, Quiet, Goodbye
<1>5. CASE ShutdownAnswered \/ ShutdownLost \/ Exit
  BY <1>5 DEF ShutdownAnswered, ShutdownLost, Exit, InOrder, Quiet, Goodbye
<1>8. CASE DropTakesName \/ DropUnregisters \/ DropShutsDown
  BY <1>8 DEF DropTakesName, DropUnregisters, DropShutsDown, InOrder, Quiet, Goodbye
<1>6. CASE DaemonStep
  BY <1>6 DEF DaemonStep, InOrder, Quiet, Goodbye
<1>7. CASE UNCHANGED vars
  BY <1>7 DEF vars, InOrder, Quiet, Goodbye
<1> QED
  BY <1>1, <1>2, <1>3, <1>4, <1>5, <1>6, <1>7, <1>8 DEF Next, StopStep, InOrder

\* A stop that reports success leaves no record announced, whatever the daemon's pace,
\* for any set of handlers none of which panicked.
THEOREM CleanStopHolds == Spec => []CleanStop
<1> DEFINE CInv == IInv /\ Withdrawal /\ InOrder
<1>1. Init => CInv
  BY InitHolds DEF Init, Withdrawal, InOrder, OnlyFirst
<1>2. CInv /\ [Next]_vars => CInv'
  BY StepHolds, WithdrawalStep, InOrderStep
<1>3. CInv => CleanStop
  BY DEF Withdrawal, InOrder, CleanStop, Quiet, Goodbye
<1> HIDE DEF CInv
<1> QED
  BY <1>1, <1>2, <1>3, PTL DEF Spec
=============================================================================
