---------------------------- MODULE RenderBridge ----------------------------
(***************************************************************************)
(* The connection of the render engine to the kernel's pipe                *)
(* (render_engine/electron/ipc_bridge.cjs), from the first connect() of a  *)
(* window until the window is closed, and the indicator the page shows of  *)
(* it (DesktopShell.tsx).  Handlers of one process run one at a time; Node *)
(* calls the error and the close handler of a socket in one turn, so       *)
(* nothing but the page, which is another process, runs between the two.   *)
(* The server's end of the pipe is outside the repository's code.          *)
(***************************************************************************)
EXTENDS Naturals, Sequences, FiniteSets

CONSTANTS Socket,   \* sockets; those that are closed are used again
          None,     \* null
          MaxWire   \* bound: messages on their way to the page

VARIABLES mainWindow,       (* the window has been created                   *)
          _socket,          (* the socket the bridge holds, or None          *)
          _connected,
          _reconnectTimer,  (* its callbacks not yet run: each call of
                               setTimeout adds one and forgets the last     *)
          _pingTimer,       (* the socket whose ping interval is held       *)
          pings,            (* ping intervals that are running              *)
          sock,             (* each socket: unused, connecting, open, or
                               closing (failed, close handler still to run) *)
          served,           (* the server accepts connections               *)
          wire,             (* messages to the page, in order               *)
          page,             (* "loading" or "live"                          *)
          asked,            (* the page's pipeStatus request is under way   *)
          shown             (* kernelConnected, the page's indicator        *)

bridge == <<mainWindow, _socket, _connected, _reconnectTimer, _pingTimer, pings, sock>>
view == <<page, asked, shown>>
vars == <<bridge, served, wire, view>>

(* No handler of this turn is still to run. *)
TurnOver == \A s \in Socket : sock[s] # "closing"
Room == Len(wire) + 2 <= MaxWire

Init == /\ mainWindow = FALSE
        /\ _socket = None
        /\ _connected = FALSE
        /\ _reconnectTimer = 0
        /\ _pingTimer = None
        /\ pings = {}
        /\ sock = [s \in Socket |-> "unused"]
        /\ served \in BOOLEAN
        /\ wire = << >>
        /\ page = "loading"
        /\ asked = FALSE
        /\ shown = FALSE

_sendToRenderer(status) == wire' = Append(wire, status)

connect ==
    \E s \in Socket :
        /\ sock[s] = "unused"
        /\ IF _socket # None
           THEN UNCHANGED <<_socket, sock>>
           ELSE /\ _socket' = s
                /\ sock' = [sock EXCEPT ![s] = "connecting"]

(* createRenderEngineWindow calls connect() once. *)
createRenderEngineWindow ==
    /\ ~ mainWindow /\ mainWindow' = TRUE
    /\ connect
    /\ UNCHANGED <<_connected, _reconnectTimer, _pingTimer, pings, served, wire, view>>

on_connect(s) ==
    /\ TurnOver /\ Room
    /\ served /\ sock[s] = "connecting"
    /\ sock' = [sock EXCEPT ![s] = "open"]
    /\ _connected' = TRUE
    /\ _sendToRenderer(TRUE)
    /\ _pingTimer' = s
    /\ pings' = pings \cup {s}
    /\ UNCHANGED <<mainWindow, _socket, _reconnectTimer, served, view>>

(* Bug: the interval is forgotten, not cleared. *)
_cleanup_Forgets(s, after) ==
    /\ _pingTimer' = None
    /\ pings' = pings
    /\ sock' = [sock EXCEPT ![s] = after]
    /\ _socket' = None

(* The interval is cleared and the socket destroyed; s, whose handler this
   is, is already down and goes on to state after.                         *)
_cleanup(s, after) ==
    /\ _pingTimer' = None
    /\ pings' = pings \ {_pingTimer}
    /\ sock' = [t \in Socket |-> IF t = s THEN after
                                 ELSE IF t = _socket THEN "closing"
                                 ELSE sock[t]]
    /\ _socket' = None

_onDisconnect(s, after) ==
    /\ _connected' = FALSE
    /\ _cleanup(s, after)
    /\ _sendToRenderer(FALSE)
    /\ _reconnectTimer' = _reconnectTimer + 1

(* The attempt fails, or the connection breaks. *)
on_error(s) ==
    /\ TurnOver /\ Room
    /\ ~ served /\ sock[s] \in {"connecting", "open"}
    /\ _onDisconnect(s, "closing")
    /\ UNCHANGED <<mainWindow, served, view>>

(* After an error, or when the server ends an open connection. *)
on_close(s) ==
    /\ \/ sock[s] = "closing"
       \/ TurnOver /\ Room /\ ~ served /\ sock[s] = "open"
    /\ _onDisconnect(s, "unused")
    /\ UNCHANGED <<mainWindow, served, view>>

(* Timers set in one turn for one delay run in one pass, with no socket
   event between them: the first connects and the others find a socket.    *)
reconnect ==
    /\ TurnOver
    /\ _reconnectTimer > 0
    /\ _reconnectTimer' = 0
    /\ connect
    /\ UNCHANGED <<mainWindow, _connected, _pingTimer, pings, served, wire, view>>

(* The server goes up and down. *)
Serve == /\ served' = ~ served
         /\ UNCHANGED <<bridge, wire, view>>

(* The page is loaded (Ctrl+R reloads it): it subscribes, then asks. *)
Reload == /\ page = "live" /\ page' = "loading"
          /\ asked' = FALSE
          /\ shown' = FALSE
          /\ UNCHANGED <<bridge, served, wire>>

(* Bug: the page only waits for the next change. *)
Mount_NoQuestion ==
    /\ page = "loading" /\ page' = "live"
    /\ UNCHANGED <<asked, shown, bridge, served, wire>>

Mount == /\ page = "loading" /\ page' = "live"
         /\ asked' = TRUE
         /\ UNCHANGED <<shown, bridge, served, wire>>

pipe_status == /\ asked /\ TurnOver /\ Len(wire) < MaxWire
               /\ asked' = FALSE
               /\ _sendToRenderer(_connected)
               /\ UNCHANGED <<page, shown, bridge, served>>

(* A message comes in; a page still loading has no listener for it. *)
Deliver == /\ wire # << >>
           /\ wire' = Tail(wire)
           /\ shown' = IF page = "live" THEN Head(wire) ELSE shown
           /\ UNCHANGED <<page, asked, bridge, served>>

Connected == \E s \in Socket : on_connect(s)
Failed == \E s \in Socket : on_error(s)
Closed == \E s \in Socket : on_close(s)
Bridge == createRenderEngineWindow \/ Connected \/ Failed \/ Closed \/ reconnect
Next == Bridge \/ Serve \/ Reload \/ Mount \/ pipe_status \/ Deliver

(* The event loop runs what is ready, the operating system answers an
   attempt and reports a broken connection, the page gets its messages.     *)
Fairness == /\ WF_vars(createRenderEngineWindow) /\ WF_vars(reconnect)
            /\ WF_vars(Connected) /\ WF_vars(Failed) /\ WF_vars(Closed)
            /\ WF_vars(Mount) /\ WF_vars(pipe_status) /\ WF_vars(Deliver)

Spec == Init /\ [][Next]_vars /\ Fairness

-----------------------------------------------------------------------------

TypeOK == /\ mainWindow \in BOOLEAN
          /\ _socket \in Socket \cup {None}
          /\ _connected \in BOOLEAN
          /\ _reconnectTimer \in 0 .. 2
          /\ _pingTimer \in Socket \cup {None}
          /\ pings \subseteq Socket
          /\ sock \in [Socket -> {"unused", "connecting", "open", "closing"}]
          /\ served \in BOOLEAN /\ asked \in BOOLEAN /\ shown \in BOOLEAN
          /\ wire \in Seq(BOOLEAN) /\ Len(wire) <= MaxWire
          /\ page \in {"loading", "live"}

(* Between turns the bridge has the one socket that is not unused, it is
   connected exactly when that socket is open, and pings exactly then.      *)
OneConnection ==
    TurnOver =>
        /\ {s \in Socket : sock[s] # "unused"} = {_socket} \ {None}
        /\ _connected = (\E s \in Socket : sock[s] = "open")
        /\ pings = {s \in Socket : sock[s] = "open"}

(* When no message is under way a live page shows whether the pipe is
   connected, however its loading, its question and the events interleave.  *)
PageKnows ==
    TurnOver /\ page = "live" /\ ~ asked /\ wire = << >> => shown = _connected

(* If the server stays up and the page is left alone, the indicator turns on
   and stays on.                                                            *)
Reconnects == <>[](served /\ page = "live") => <>[](_connected /\ shown)

=============================================================================
