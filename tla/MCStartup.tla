----------------------------- MODULE MCStartup -----------------------------
(* From power-on of the kernel to a page that is connected: the boot on    *)
(* the scheduler, the message ring and the log on it, both shells at one   *)
(* pipe server, and the host's servers that run commands for the page.     *)
(* Only the two shells share a variable, whether the server accepts; a     *)
(* behaviour exercises one part and the others rest.                       *)
EXTENDS KernelBoot, PanelLog, HostRequests

CONSTANTS Socket, None, MaxWire

ASSUME BridgesAssumption == None \notin Socket /\ MaxWire \in Nat

(* A child that writes nothing, that fits either pipe, that needs the first
   emptied while it writes the second, and more than fits the second.       *)
MCOutput == { << >>, <<"err", "out", "out">>, <<"out", "out", "err", "out">>,
              <<"err", "err", "out">> }

VARIABLES window, rSocket, rConnected, rTimer, rPing, pings, rSock, served, wire, page,
          asked, shown,
          shellWindow, client, shellConnected, heartbeat, shellTimer, timers, beats, shellSock

R == INSTANCE RenderBridge WITH mainWindow <- window, _socket <- rSocket,
        _connected <- rConnected, _reconnectTimer <- rTimer, _pingTimer <- rPing, sock <- rSock
S == INSTANCE ShellBridge WITH mainWindow <- shellWindow, _client <- client,
        _connected <- shellConnected, _heartbeat <- heartbeat, _reconnTimer <- shellTimer,
        sock <- shellSock

renderVars == <<window, rSocket, rConnected, rTimer, rPing, pings, rSock, wire, page, asked, shown>>
shellVars == <<shellWindow, client, shellConnected, heartbeat, shellTimer, timers, beats, shellSock>>

VARIABLE subject

RenderStep == R!Bridge \/ R!Reload \/ R!Mount \/ R!pipe_status \/ R!Deliver
ShellStep == S!createShellWindow \/ S!Connected \/ S!Failed \/ S!Closed \/ S!reconnect

MCInit ==
    /\ BootInit /\ LogInit /\ R!Init /\ S!Init /\ ExecInit /\ DaemonInit
    /\ subject \in {"boot", "log", "bridges", "exec", "daemon"}
    /\ subject # "bridges" => served = FALSE
    /\ subject # "exec" => writes = << >>
    /\ subject # "daemon" => path = [r \in Request |-> "unknown"]

Step == \/ subject = "boot" /\ BootNext
        \/ subject = "log" /\ LogNext
        \/ subject = "bridges" /\ RenderStep /\ UNCHANGED shellVars
        \/ subject = "bridges" /\ ShellStep /\ UNCHANGED renderVars
        \/ subject = "bridges" /\ R!Serve /\ S!Serve
        \/ subject = "exec" /\ ExecNext
        \/ subject = "daemon" /\ DaemonNext

OthersRest ==
    /\ subject # "boot" => UNCHANGED <<vars, bootVars>>
    /\ subject # "log" => UNCHANGED <<ringVars, logVars>>
    /\ subject # "bridges" => UNCHANGED <<renderVars, shellVars, served>>
    /\ subject # "exec" => UNCHANGED execVars
    /\ subject # "daemon" => UNCHANGED daemonVars

MCNext == Step /\ OthersRest /\ UNCHANGED subject

startupVars == <<vars, bootVars, ringVars, logVars, renderVars, shellVars, served, execVars,
                 daemonVars>>

(* What runs goes on: the processor; the event loops of both shells, the
   operating system's answers to them and the page; the host's server and
   its child.                                                               *)
StartupFairness ==
    /\ WF_<<vars, bootVars>>(subject = "boot" /\ BootNext)
    /\ WF_renderVars(subject = "bridges" /\ R!createRenderEngineWindow)
    /\ WF_renderVars(subject = "bridges" /\ R!reconnect)
    /\ WF_renderVars(subject = "bridges" /\ R!Connected)
    /\ WF_renderVars(subject = "bridges" /\ R!Failed)
    /\ WF_renderVars(subject = "bridges" /\ R!Closed)
    /\ WF_renderVars(subject = "bridges" /\ R!Mount)
    /\ WF_renderVars(subject = "bridges" /\ R!pipe_status)
    /\ WF_renderVars(subject = "bridges" /\ R!Deliver)
    /\ WF_shellVars(subject = "bridges" /\ S!createShellWindow)
    /\ WF_shellVars(subject = "bridges" /\ S!reconnect)
    /\ WF_shellVars(subject = "bridges" /\ S!Connected)
    /\ WF_shellVars(subject = "bridges" /\ S!Failed)
    /\ WF_shellVars(subject = "bridges" /\ S!Closed)
    /\ WF_execVars(subject = "exec" /\ ServerGoesOn) /\ WF_execVars(subject = "exec" /\ ChildGoesOn)

MCSpec == MCInit /\ [][MCNext]_<<startupVars, subject>> /\ StartupFairness

-----------------------------------------------------------------------------

(* Between turns the render engine has one socket and the first shell one
   socket or one timer, with the flags and intervals that go with it.       *)
OneSocketEach == R!OneConnection /\ S!OneAttempt

(* What the page of the render engine shows is so once nothing is under way. *)
PageIsTold == R!PageKnows

(* The event pump's own ticks get the shell and the session manager to their
   first sleep.                                                             *)
BootReachesThreads == subject = "boot" => UrgentThreadsStart

(* Both shells get connected again, and the page of the render engine shows
   it, if the server stays up.                                              *)
BothReconnect == subject = "bridges" => R!Reconnects /\ S!Reconnects

(* ExecuteCommand answers unless the child's second pipe fills up. *)
ExecComesBack == subject = "exec" => ExecReturns
=============================================================================
