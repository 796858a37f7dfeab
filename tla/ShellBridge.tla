----------------------------- MODULE ShellBridge -----------------------------
(***************************************************************************)
(* The connection of the first desktop shell to the kernel's pipe          *)
(* (desktop_shell/electron/ipc_bridge.cjs), from the first connect() of a  *)
(* window until the window is closed.  It differs from the render engine's *)
(* bridge: one pending timer guards the retries, not the socket, and the   *)
(* handles of old sockets and intervals are overwritten, never reset.      *)
(* Handlers run one at a time, and the error and close handler of a socket *)
(* in one turn.                                                            *)
(***************************************************************************)
EXTENDS Naturals

CONSTANTS Socket,   \* sockets; those that are closed are used again
          None      \* null

VARIABLES mainWindow,    (* the window has been created                      *)
          _client,       (* the last socket made                             *)
          _connected,
          _heartbeat,    (* the socket whose interval was set last           *)
          _reconnTimer,  (* a timer is held                                  *)
          timers,        (* callbacks of setTimeout not yet run              *)
          beats,         (* heartbeat intervals that are running             *)
          sock,          (* unused, connecting, open, or closing             *)
          served         (* the server accepts connections                   *)

timer == <<_reconnTimer, timers>>
vars == <<mainWindow, _client, _connected, _heartbeat, timer, beats, sock, served>>

TurnOver == \A s \in Socket : sock[s] # "closing"

Init == /\ mainWindow = FALSE
        /\ _client = None
        /\ _connected = FALSE
        /\ _heartbeat = None
        /\ _reconnTimer = FALSE
        /\ timers = 0
        /\ beats = {}
        /\ sock = [s \in Socket |-> "unused"]
        /\ served \in BOOLEAN

_tryConnect ==
    \E s \in Socket :
        /\ sock[s] = "unused"
        /\ _client' = s
        /\ sock' = [sock EXCEPT ![s] = "connecting"]

(* createShellWindow calls connect(), which tries at once if not connected. *)
createShellWindow ==
    /\ ~ mainWindow /\ mainWindow' = TRUE
    /\ IF _connected THEN UNCHANGED <<_client, sock>> ELSE _tryConnect
    /\ UNCHANGED <<_connected, _heartbeat, timer, beats, served>>

on_connect(s) ==
    /\ TurnOver
    /\ served /\ sock[s] = "connecting"
    /\ sock' = [sock EXCEPT ![s] = "open"]
    /\ _connected' = TRUE
    /\ _heartbeat' = s
    /\ beats' = beats \cup {s}
    /\ UNCHANGED <<mainWindow, _client, timer, served>>

(* Bug: a second call sets a second timer. *)
_scheduleReconnect_Unguarded ==
    /\ _reconnTimer' = TRUE
    /\ timers' = timers + 1

_scheduleReconnect ==
    IF _reconnTimer THEN UNCHANGED timer
    ELSE /\ _reconnTimer' = TRUE
         /\ timers' = timers + 1

(* The attempt fails, or the connection breaks. *)
on_error(s) ==
    /\ TurnOver
    /\ ~ served /\ sock[s] \in {"connecting", "open"}
    /\ sock' = [sock EXCEPT ![s] = "closing"]
    /\ _connected' = FALSE
    /\ _scheduleReconnect
    /\ UNCHANGED <<mainWindow, _client, _heartbeat, beats, served>>

(* Bug: the heartbeat goes on. *)
on_close_KeepsBeat(s) ==
    /\ \/ sock[s] = "closing"
       \/ TurnOver /\ ~ served /\ sock[s] = "open"
    /\ sock' = [sock EXCEPT ![s] = "unused"]
    /\ _connected' = FALSE
    /\ _scheduleReconnect
    /\ UNCHANGED <<mainWindow, _client, _heartbeat, beats, served>>

(* After an error, or when the server ends an open connection. *)
on_close(s) ==
    /\ \/ sock[s] = "closing"
       \/ TurnOver /\ ~ served /\ sock[s] = "open"
    /\ sock' = [sock EXCEPT ![s] = "unused"]
    /\ _connected' = FALSE
    /\ beats' = beats \ {_heartbeat}
    /\ _scheduleReconnect
    /\ UNCHANGED <<mainWindow, _client, _heartbeat, served>>

(* Bug: the handle is kept, so no other timer is ever set. *)
reconnect_KeepsHandle ==
    /\ TurnOver
    /\ timers > 0 /\ timers' = timers - 1
    /\ _tryConnect
    /\ UNCHANGED <<mainWindow, _connected, _heartbeat, _reconnTimer, beats, served>>

reconnect ==
    /\ TurnOver
    /\ timers > 0 /\ timers' = timers - 1
    /\ _reconnTimer' = FALSE
    /\ _tryConnect
    /\ UNCHANGED <<mainWindow, _connected, _heartbeat, beats, served>>

(* The server goes up and down. *)
Serve == /\ served' = ~ served
         /\ UNCHANGED <<mainWindow, _client, _connected, _heartbeat, timer, beats, sock>>

Connected == \E s \in Socket : on_connect(s)
Failed == \E s \in Socket : on_error(s)
Closed == \E s \in Socket : on_close(s)
Next == createShellWindow \/ Connected \/ Failed \/ Closed \/ reconnect \/ Serve

(* The event loop runs what is ready; the operating system answers an
   attempt and reports a broken connection.                                 *)
Fairness == /\ WF_vars(createShellWindow) /\ WF_vars(reconnect)
            /\ WF_vars(Connected) /\ WF_vars(Failed) /\ WF_vars(Closed)

Spec == Init /\ [][Next]_vars /\ Fairness

-----------------------------------------------------------------------------

TypeOK == /\ mainWindow \in BOOLEAN
          /\ _client \in Socket \cup {None}
          /\ _connected \in BOOLEAN
          /\ _heartbeat \in Socket \cup {None}
          /\ _reconnTimer \in BOOLEAN
          /\ timers \in 0 .. 1
          /\ beats \subseteq Socket
          /\ sock \in [Socket -> {"unused", "connecting", "open", "closing"}]
          /\ served \in BOOLEAN

(* Once there is a window, between turns exactly one thing is under way: one
   socket, which is the one the bridge holds, or one timer.  The connected
   flag and the heartbeat say whether that socket is open.                  *)
OneAttempt ==
    /\ TurnOver /\ mainWindow =>
        /\ timers = IF \E s \in Socket : sock[s] # "unused" THEN 0 ELSE 1
        /\ \A s \in Socket : sock[s] # "unused" => s = _client
    /\ TurnOver =>
        /\ _connected = (\E s \in Socket : sock[s] = "open")
        /\ beats = {s \in Socket : sock[s] = "open"}

(* If the server stays up, the shell gets and stays connected. *)
Reconnects == <>[]served => <>[]_connected

=============================================================================
