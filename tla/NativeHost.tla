----------------------------- MODULE NativeHost -----------------------------
(***************************************************************************)
(* The native shell host (services/native_shell_host.cpp): one thread      *)
(* keeps the desktop's Electron process running, the other serves a pipe   *)
(* that takes one request a connection, "restore_explorer" among them,     *)
(* which ends the host.  Between the steps of one the other may run.       *)
(***************************************************************************)
EXTENDS Naturals, FiniteSets

CONSTANTS MaxStarts, MaxRequests   (* bounds: processes, requests *)

ASSUME NativeHostAssumption == MaxStarts \in Nat /\ MaxRequests \in Nat

NoProcess == 0
Process == 1 .. MaxStarts

VARIABLES g_running,
          g_hElectronProcess,   (* a process, NoProcess when there is none   *)
          monitor,         (* LaunchAndMonitorElectron: "check", "create",
                              "publish", "wait", "close", "pause", "done"    *)
          pi,              (* its hProcess                                   *)
          alive, open,     (* processes that run; handles not closed         *)
          server,          (* RunPipeServer: "listen", "restore", "stop",
                              "kill", "answer", "join", "ended"              *)
          target,          (* the handle "restore_explorer" found            *)
          shell,           (* the Shell value of Winlogon                    *)
          requests, stale  (* history: requests taken; a handle was used
                              after it had been closed                       *)

hostVars == <<g_running, g_hElectronProcess, monitor, pi, alive, open, server, target,
              shell, requests, stale>>
monitorVars == <<g_hElectronProcess, monitor, pi, open>>
serverVars == <<g_running, server, target, shell, requests, stale>>

HostInit ==
    /\ g_running = TRUE /\ g_hElectronProcess = NoProcess /\ monitor = "check" /\ pi = NoProcess
    /\ alive = {} /\ open = {} /\ server = "listen" /\ target = NoProcess
    /\ shell = "custom" /\ requests = 0 /\ stale = FALSE

(* while (g_running), and the second look after a process has ended. *)
Checks ==
    /\ \/ /\ monitor = "check" /\ monitor' = IF g_running THEN "create" ELSE "done"
       \/ /\ monitor = "again" /\ monitor' = IF g_running THEN "pause" ELSE "check"
    /\ UNCHANGED <<serverVars, g_hElectronProcess, pi, alive, open>>

(* CreateProcessW gives the next process, or fails. *)
CreateProcessW ==
    /\ monitor = "create"
    /\ \/ /\ pi < MaxStarts
          /\ pi' = pi + 1 /\ alive' = alive \cup {pi + 1} /\ open' = open \cup {pi + 1}
          /\ monitor' = "publish"
       \/ monitor' = "again" /\ UNCHANGED <<pi, alive, open>>
    /\ UNCHANGED <<serverVars, g_hElectronProcess>>

Publishes == /\ monitor = "publish" /\ monitor' = "wait" /\ g_hElectronProcess' = pi
             /\ UNCHANGED <<serverVars, pi, alive, open>>

(* Bug: the monitor does not wait for the process. *)
WaitForSingleObject_Polls ==
    /\ monitor = "wait" /\ monitor' = "close"
    /\ UNCHANGED <<serverVars, g_hElectronProcess, pi, alive, open>>

WaitForSingleObject ==
    /\ monitor = "wait" /\ pi \notin alive /\ monitor' = "close"
    /\ UNCHANGED <<serverVars, g_hElectronProcess, pi, alive, open>>

(* CloseHandle comes before the handle is taken back. *)
CloseHandle ==
    /\ \/ /\ monitor = "close" /\ monitor' = "forget" /\ open' = open \ {pi}
          /\ UNCHANGED g_hElectronProcess
       \/ /\ monitor = "forget" /\ monitor' = "again" /\ g_hElectronProcess' = NoProcess
          /\ UNCHANGED open
    /\ UNCHANGED <<serverVars, pi, alive>>

Sleeps == /\ monitor = "pause" /\ monitor' = "check"
          /\ UNCHANGED <<serverVars, g_hElectronProcess, pi, alive, open>>

(* Electron ends by itself. *)
Ends(p) == p \in alive /\ alive' = alive \ {p} /\ UNCHANGED <<serverVars, monitorVars>>

(* ProcessJsonCommand: what is not "restore_explorer" changes nothing here;
   a client that says nothing counts too.                                   *)
RunPipeServer ==
    /\ server = "listen"
    /\ \/ ~g_running /\ server' = "join" /\ UNCHANGED requests
       \/ /\ g_running /\ requests < MaxRequests
          /\ requests' = requests + 1 /\ server' \in {"listen", "restore"}
    /\ UNCHANGED <<monitorVars, alive, g_running, target, shell, stale>>

RestoreExplorerShell ==
    /\ server = "restore" /\ server' = "stop"
    /\ shell' \in {"explorer", shell}        \* the registry may refuse
    /\ UNCHANGED <<monitorVars, alive, g_running, target, requests, stale>>

(* g_running is cleared and the handle is looked at ... *)
Stops ==
    /\ server = "stop" /\ server' = IF g_hElectronProcess # NoProcess THEN "kill" ELSE "listen"
    /\ g_running' = FALSE /\ target' = g_hElectronProcess
    /\ UNCHANGED <<monitorVars, alive, shell, requests, stale>>

(* ... and read again for TerminateProcess: it may have been taken back or
   closed meanwhile.                                                        *)
TerminateProcess ==
    /\ server = "kill" /\ server' = "listen"
    /\ target' = g_hElectronProcess
    /\ alive' = alive \ ({g_hElectronProcess} \cap open)
    /\ stale' = (stale \/ (g_hElectronProcess # NoProcess /\ g_hElectronProcess \notin open))
    /\ UNCHANGED <<monitorVars, g_running, shell, requests>>

(* wWinMain ends when the monitor has. *)
Joins == /\ server = "join" /\ monitor = "done" /\ server' = "ended"
         /\ UNCHANGED <<monitorVars, alive, g_running, target, shell, requests, stale>>

HostNext == \/ Checks \/ CreateProcessW \/ Publishes \/ WaitForSingleObject \/ CloseHandle
            \/ Sleeps \/ RunPipeServer \/ RestoreExplorerShell \/ Stops
            \/ TerminateProcess \/ Joins
            \/ \E p \in Process : Ends(p)

HostSpec == HostInit /\ [][HostNext]_hostVars

-----------------------------------------------------------------------------

(* Whatever the two threads are at, never do two desktops run beside each
   other; and once the host has ended, because it was told to restore the
   explorer, none is left behind, not even one that was being started when
   the order came.                                                          *)
OneDesktop ==
    /\ Cardinality(alive) <= 1
    /\ server \in {"join", "ended"} => ~g_running
    /\ server = "ended" => alive = {} /\ open = {} /\ requests > 0

=============================================================================
