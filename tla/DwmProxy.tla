------------------------------ MODULE DwmProxy ------------------------------
(***************************************************************************)
(* The window manager service (services/dwm_proxy/dwm_proxy.c): a table of *)
(* windows that exist in the shell, which hears of them by events that     *)
(* name an application's tag and no window.  Geometry and telemetry are    *)
(* left out.                                                               *)
(***************************************************************************)
EXTENDS Naturals, FiniteSets

CONSTANTS DwmMaxWindows,   (* DWM_MAX_WINDOWS: 32 in the code               *)
          AppTag,          (* the tags of applications                      *)
          MaxWinId         (* bound: windows opened                         *)

ASSUME DwmAssumption == DwmMaxWindows \in Nat /\ MaxWinId \in Nat

VARIABLES g_windows, g_window_count, g_next_win_id,
          shown            (* per tag, the "open" events the shell has got
                              less the "close" events                       *)

dwmVars == <<g_windows, g_window_count, g_next_win_id, shown>>

Place == 1 .. DwmMaxWindows
NoWindow == [id |-> 0, app_tag |-> "none", is_open |-> FALSE, is_minimized |-> FALSE,
             is_maximized |-> FALSE, is_focused |-> FALSE]
IsOpen == {i \in Place : g_windows[i].is_open}

DwmInit == /\ g_windows = [i \in Place |-> NoWindow]
           /\ g_window_count = 0
           /\ g_next_win_id = 1
           /\ shown = [a \in AppTag |-> 0]

(* dwm_open_window, in the first place that is not open; the window is
   focused and the others are not told.  dwm_handle_launch_command and the
   service's own first window come here.                                    *)
dwm_open_window(a) ==
    /\ g_window_count < DwmMaxWindows /\ g_next_win_id <= MaxWinId
    /\ \E i \in Place \ IsOpen :
          /\ \A j \in Place \ IsOpen : i <= j
          /\ g_windows' = [g_windows EXCEPT ![i] =
                [NoWindow EXCEPT !.id = g_next_win_id, !.app_tag = a,
                                 !.is_open = TRUE, !.is_focused = TRUE]]
    /\ g_next_win_id' = g_next_win_id + 1
    /\ g_window_count' = g_window_count + 1
    /\ shown' = [shown EXCEPT ![a] = @ + 1]

(* Bug: a window that is closed already is closed again. *)
dwm_close_window_Stale(id) ==
    /\ \E i \in Place :
          /\ g_windows[i].id = id
          /\ g_windows' = [g_windows EXCEPT ![i].is_open = FALSE]
          /\ shown' = [shown EXCEPT ![g_windows[i].app_tag] = @ - 1]
    /\ g_window_count' = g_window_count - 1
    /\ UNCHANGED g_next_win_id

dwm_close_window(id) ==
    /\ \E i \in IsOpen :
          /\ g_windows[i].id = id
          /\ g_windows' = [g_windows EXCEPT ![i].is_open = FALSE]
          /\ shown' = [shown EXCEPT ![g_windows[i].app_tag] = @ - 1]
    /\ g_window_count' = g_window_count - 1
    /\ UNCHANGED g_next_win_id

(* Of the first open window with the tag. *)
dwm_handle_close_command(a) ==
    \E i \in IsOpen : /\ g_windows[i].app_tag = a
                      /\ \A j \in IsOpen : g_windows[j].app_tag = a => i <= j
                      /\ dwm_close_window(g_windows[i].id)

(* These take the number of any window, also of one that is closed, and tell
   the shell by tag.                                                        *)
Reshape(id, minimized) ==
    /\ g_windows' = [i \in Place |-> IF g_windows[i].id # id THEN g_windows[i]
                       ELSE [g_windows[i] EXCEPT !.is_minimized = minimized,
                                                 !.is_maximized = @ \/ ~minimized]]
    /\ UNCHANGED <<g_window_count, g_next_win_id, shown>>

dwm_minimize_window(id) == Reshape(id, TRUE)
dwm_maximize_window(id) == Reshape(id, FALSE)

dwm_focus_window(id) ==
    /\ g_windows' = [i \in Place |-> [g_windows[i] EXCEPT !.is_focused = (g_windows[i].id = id)]]
    /\ UNCHANGED <<g_window_count, g_next_win_id, shown>>

DwmNext == \/ \E a \in AppTag : dwm_open_window(a) \/ dwm_handle_close_command(a)
           \/ \E id \in 1 .. g_next_win_id - 1 :
                 \/ dwm_close_window(id) \/ dwm_minimize_window(id)
                 \/ dwm_maximize_window(id) \/ dwm_focus_window(id)

DwmSpec == DwmInit /\ [][DwmNext]_dwmVars

-----------------------------------------------------------------------------

(* The shell, which hears only of tags, has for each application as many
   windows as are open in the table, though numbers of closed windows go on
   being used and places are filled again; the count that admits new windows
   is right, and each open window has a number of its own.                  *)
DwmAgrees ==
    /\ \A a \in AppTag : shown[a] = Cardinality({i \in IsOpen : g_windows[i].app_tag = a})
    /\ g_window_count = Cardinality(IsOpen)
    /\ \A i, j \in IsOpen : g_windows[i].id = g_windows[j].id => i = j

=============================================================================
