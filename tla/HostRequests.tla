---------------------------- MODULE HostRequests ----------------------------
(***************************************************************************)
(* The two servers of the host that run commands for the page.  First the  *)
(* exec request of services/aspnet_core/SystemController.cs, which reads   *)
(* what a child process writes; then the requests of services/             *)
(* windows_backend/WmiTelemetryDaemon.cs, which its pump takes one after   *)
(* the other and which go on beside one another from their first await.    *)
(***************************************************************************)
EXTENDS Naturals, Sequences, FiniteSets

CONSTANTS PipeSize,       (* chunks a pipe holds                             *)
          Output,         (* what a child may write: sequences of "out", "err" *)
          Request,        (* the requests of the daemon's clients            *)
          MaxPumpErrors   (* bound: failures of the pump that are not the end *)

ASSUME HostRequestsAssumption ==
    /\ PipeSize \in Nat \ {0} /\ MaxPumpErrors \in Nat
    /\ Request \cap {"waits", "ended"} = {}

-----------------------------------------------------------------------------
(* ExecuteCommand. *)

VARIABLES exec,           (* "start", "stdout", "stderr", "wait", "answered" *)
          answer,         (* "none" before it                                *)
          writes,         (* what the child has still to write               *)
          child,          (* "none", "runs", "quiet" (its ends of the pipes
                             are closed, it runs on) or "ended"              *)
          outPipe, errPipe   (* chunks not read                              *)

execVars == <<exec, answer, writes, child, outPipe, errPipe>>

ExecInit == /\ exec = "start" /\ answer = "none" /\ writes \in Output
            /\ child = "none" /\ outPipe = 0 /\ errPipe = 0

Answered(a) == exec' = "answered" /\ answer' = a

(* Process.Start; an empty command is refused before, and a detached child
   is answered for at once, its output going elsewhere.                     *)
ExecuteCommand ==
    /\ exec = "start"
    /\ \/ Answered("bad request") /\ UNCHANGED child
       \/ Answered("failed") /\ UNCHANGED child
       \/ Answered("launched") /\ child' = "ended"
       \/ exec' = "stdout" /\ child' = "runs" /\ UNCHANGED answer
    /\ UNCHANGED <<writes, outPipe, errPipe>>

PipeClosed == child \in {"quiet", "ended"}

(* Bug: the second pipe is read first. *)
ReadToEnd_ErrorsFirst ==
    /\ \/ /\ exec = "stdout"
          /\ \/ errPipe > 0 /\ errPipe' = errPipe - 1 /\ UNCHANGED exec
             \/ errPipe = 0 /\ PipeClosed /\ exec' = "stderr" /\ UNCHANGED errPipe
          /\ UNCHANGED outPipe
       \/ /\ exec = "stderr"
          /\ \/ outPipe > 0 /\ outPipe' = outPipe - 1 /\ UNCHANGED exec
             \/ outPipe = 0 /\ PipeClosed /\ exec' = "wait" /\ UNCHANGED outPipe
          /\ UNCHANGED errPipe
    /\ UNCHANGED <<answer, writes, child>>

(* ReadToEnd of one pipe, then of the other: each goes on until the child
   has closed it.                                                           *)
ReadToEnd ==
    /\ \/ /\ exec = "stdout"
          /\ \/ outPipe > 0 /\ outPipe' = outPipe - 1 /\ UNCHANGED exec
             \/ outPipe = 0 /\ PipeClosed /\ exec' = "stderr" /\ UNCHANGED outPipe
          /\ UNCHANGED errPipe
       \/ /\ exec = "stderr"
          /\ \/ errPipe > 0 /\ errPipe' = errPipe - 1 /\ UNCHANGED exec
             \/ errPipe = 0 /\ PipeClosed /\ exec' = "wait" /\ UNCHANGED errPipe
          /\ UNCHANGED outPipe
    /\ UNCHANGED <<answer, writes, child>>

(* WaitForExit(5000), then ExitCode, which throws while the child runs. *)
WaitForExit ==
    /\ exec = "wait"
    /\ Answered(IF child = "ended" THEN "output" ELSE "failed")
    /\ UNCHANGED <<writes, child, outPipe, errPipe>>

(* The child writes unless the pipe is full, closes both and ends. *)
ChildGoesOn ==
    /\ \/ /\ child = "runs" /\ writes # << >>
          /\ \/ Head(writes) = "out" /\ outPipe < PipeSize
                /\ outPipe' = outPipe + 1 /\ UNCHANGED errPipe
             \/ Head(writes) = "err" /\ errPipe < PipeSize
                /\ errPipe' = errPipe + 1 /\ UNCHANGED outPipe
          /\ writes' = Tail(writes) /\ UNCHANGED child
       \/ /\ child = "runs" /\ writes = << >> /\ child' \in {"quiet", "ended"}
          /\ UNCHANGED <<writes, outPipe, errPipe>>
    /\ UNCHANGED <<exec, answer>>

ChildEnds == /\ child = "quiet" /\ child' = "ended"
             /\ UNCHANGED <<exec, answer, writes, outPipe, errPipe>>

(* The server runs on, and so does the child, which need not end once it has
   closed its pipes.                                                        *)
ServerGoesOn == ExecuteCommand \/ ReadToEnd \/ WaitForExit
ExecFairness == WF_execVars(ServerGoesOn) /\ WF_execVars(ChildGoesOn)

ExecNext == ServerGoesOn \/ ChildGoesOn \/ ChildEnds
ExecSpec == ExecInit /\ [][ExecNext]_execVars /\ ExecFairness

-----------------------------------------------------------------------------
(* The daemon. *)

VARIABLES pump,           (* Main: "waits", a request it handles, "ended"    *)
          pumpErrors,
          at,             (* per request: "coming", "taken", "reads", "acts",
                             "writes", "reports", "closes", "closed"         *)
          path,           (* what it asks for                                *)
          status,         (* of the response: 200 until it is set            *)
          acted, closes   (* history: processes started, calls of Close      *)

daemonVars == <<pump, pumpErrors, at, path, status, acted, closes>>

Path == {"options", "telemetry", "exec", "restart", "other power", "unknown"}

DaemonInit == /\ pump = "waits" /\ pumpErrors = 0
              /\ at = [r \in Request |-> "coming"] /\ path \in [Request -> Path]
              /\ status = [r \in Request |-> 200]
              /\ acted = [r \in Request |-> 0] /\ closes = [r \in Request |-> 0]

(* The loop of Main; when the listener is stopped it ends, other failures it
   reports.                                                                 *)
GetContextAsync ==
    /\ pump = "waits"
    /\ \/ \E r \in Request : at[r] = "coming" /\ at' = [at EXCEPT ![r] = "taken"]
                             /\ pump' = r /\ UNCHANGED pumpErrors
       \/ pump' = "ended" /\ UNCHANGED <<at, pumpErrors>>
       \/ pumpErrors < MaxPumpErrors /\ pumpErrors' = pumpErrors + 1 /\ UNCHANGED <<at, pump>>
    /\ UNCHANGED <<path, status, acted, closes>>

Goes(r, where) == at' = [at EXCEPT ![r] = where]

(* The pump itself runs ProcessRequestAsync up to its first await: the whole
   of a request for nothing, the gathering of the telemetry, or the start
   of reading a body.                                                       *)
ProcessRequestAsync(r) ==
    /\ pump = r /\ at[r] = "taken" /\ pump' = "waits"
    /\ \/ path[r] = "options" /\ Goes(r, "closed") /\ closes' = [closes EXCEPT ![r] = @ + 1]
          /\ UNCHANGED status
       \/ path[r] = "unknown" /\ Goes(r, "closes") /\ status' = [status EXCEPT ![r] = 404]
          /\ UNCHANGED closes
       \/ path[r] = "telemetry" /\ Goes(r, "writes") /\ UNCHANGED <<status, closes>>
       \/ path[r] \in {"exec", "restart", "other power"} /\ Goes(r, "reads")
          /\ UNCHANGED <<status, closes>>
    /\ UNCHANGED <<pumpErrors, path, acted>>

(* The body has come, and can be parsed: exec starts a process whether or not
   there is such a command, and restart one that ends the machine.          *)
ReadToEndAsync(r) ==
    /\ at[r] = "reads" /\ Goes(r, "writes")
    /\ acted' \in {[acted EXCEPT ![r] = @ + n] :
                      n \in CASE path[r] = "exec" -> {0, 1}
                              [] path[r] = "restart" -> {1}
                              [] path[r] = "other power" -> {0}}
    /\ UNCHANGED <<pump, pumpErrors, path, status, closes>>

WriteAsync(r) == /\ at[r] \in {"writes", "reports"} /\ Goes(r, "closes")
                 /\ UNCHANGED <<pump, pumpErrors, path, status, acted, closes>>

(* Bug: what is thrown while the error is reported keeps the response open. *)
Throws_Leaks(r) ==
    /\ \/ /\ at[r] \in {"reads", "writes"} /\ Goes(r, "reports")
          /\ status' = [status EXCEPT ![r] = 500]
       \/ /\ at[r] = "reports" /\ Goes(r, "closed") /\ UNCHANGED status
    /\ UNCHANGED <<pump, pumpErrors, path, acted, closes>>

(* Bodies that cannot be read or parsed, commands that cannot be started and
   clients that are gone: the first exception is reported, one thrown by the
   report is lost with the task that nobody awaits.                         *)
Throws(r) ==
    /\ \/ /\ at[r] \in {"reads", "writes"} /\ Goes(r, "reports")
          /\ status' = [status EXCEPT ![r] = 500]
       \/ /\ at[r] = "reports" /\ Goes(r, "closes") /\ UNCHANGED status
    /\ UNCHANGED <<pump, pumpErrors, path, acted, closes>>

(* The finally block. *)
Close(r) == /\ at[r] = "closes" /\ Goes(r, "closed")
            /\ closes' = [closes EXCEPT ![r] = @ + 1]
            /\ UNCHANGED <<pump, pumpErrors, path, status, acted>>

DaemonNext == \/ GetContextAsync
              \/ \E r \in Request : \/ ProcessRequestAsync(r) \/ ReadToEndAsync(r)
                                    \/ WriteAsync(r) \/ Throws(r) \/ Close(r)

DaemonSpec == DaemonInit /\ [][DaemonNext]_daemonVars

-----------------------------------------------------------------------------

(* ExecuteCommand answers, whatever the order of the child's output and if
   it never ends, when what it writes to the second pipe fits there: with
   more, the child waits for room there and the server for the end of the
   first pipe, for good.                                                    *)
ExecReturns == Cardinality({i \in DOMAIN writes : writes[i] = "err"}) <= PipeSize
                  => <>(exec = "answered")

(* Every request that was taken is closed, once and only at its end, whatever
   is thrown and however requests overlap; none starts two processes, and
   what was not found or not understood starts none.  A child that closes
   its pipes and runs on is not reported as one that has ended.             *)
RequestsClosed ==
    /\ answer = "output" => child = "ended"
    /\ \A r \in Request :
          /\ closes[r] = IF at[r] = "closed" THEN 1 ELSE 0
          /\ acted[r] <= 1
          /\ acted[r] = 1 => path[r] \in {"exec", "restart"}
          /\ pump = r => at[r] = "taken"

=============================================================================
