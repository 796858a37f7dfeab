------------------------------ MODULE Desktop ------------------------------
(***************************************************************************)
(* The in-kernel compositor (kernel/gui/compositor.c): the table of        *)
(* windows, their focus and stacking, the taskbar, the start menu and its  *)
(* power menu, the flyouts, the icons, and the mouse and key events that   *)
(* act on them.  Positions are left out: what lies under the pointer is an *)
(* input of an event, and so is the part of a window that is hit.          *)
(***************************************************************************)
EXTENDS Naturals, FiniteSets

CONSTANTS MaxWindows,  (* MAX_WINDOWS: 16 in the code                       *)
          App,         (* the applications, by their window's tag           *)
          Browser, Explorer, Installer,   (* those that launch others       *)
          Icon,        (* desktop icons                                     *)
          Nothing,     (* NULL; -1 for an icon                              *)
          RenderSlack, (* heights drawn above the number of windows: 16     *)
          MaxZ         (* bound: z orders                                   *)

ASSUME DesktopAssumption ==
    /\ MaxWindows \in Nat \ {0} /\ {MaxZ, RenderSlack} \subseteq Nat
    /\ {Browser, Explorer, Installer} \subseteq App
    /\ Nothing \notin App \cup Icon \cup (1 .. MaxWindows)

VARIABLES tag,            (* per slot: the window's application, or Nothing
                             while its id is 0                              *)
          z_order, is_focused, is_minimized,   (* per slot                  *)
          window_count,   (* g_window_count                                 *)
          openMenus,      (* the menus that are open                        *)
          power_open,     (* g_power_menu_open                              *)
          is_suspended,
          prev_left,      (* g_mouse.prev_left                              *)
          button,         (* the left button, as the last event reported it *)
          drag_window,    (* its slot, or Nothing                           *)
          selected,       (* g_selected_desktop_icon                        *)
          browser_win,    (* g_browser_win: a slot, or Nothing              *)
          halted          (* shut down or reset                             *)

winTable == <<tag, z_order, is_focused, is_minimized, window_count, browser_win>>
menus == <<openMenus, power_open>>
desktopVars == <<winTable, menus, is_suspended, prev_left, button, drag_window, selected, halted>>

WinSlot == 1 .. MaxWindows
Live == {i \in WinSlot : tag[i] # Nothing}
Menu == {"start", "calendar", "volume"}

(* compositor_init; no window, no browser launched yet. *)
compositor_init ==
    /\ tag = [i \in WinSlot |-> Nothing]
    /\ z_order = [i \in WinSlot |-> 0]
    /\ is_focused = [i \in WinSlot |-> FALSE]
    /\ is_minimized = [i \in WinSlot |-> FALSE]
    /\ window_count = 0
    /\ browser_win = Nothing
    /\ openMenus = {} /\ power_open = FALSE
    /\ is_suspended = FALSE /\ halted = FALSE
    /\ prev_left = FALSE /\ button = FALSE
    /\ drag_window = Nothing
    /\ selected = Nothing

-----------------------------------------------------------------------------
(* Windows.  W is the table as a record, so that one call follows another. *)

Table == [tag |-> tag, z |-> z_order, focused |-> is_focused,
          minimized |-> is_minimized, count |-> window_count, browser |-> browser_win]

Becomes(W) == /\ tag' = W.tag /\ z_order' = W.z /\ is_focused' = W.focused
              /\ is_minimized' = W.minimized /\ window_count' = W.count
              /\ browser_win' = W.browser

LiveIn(W) == {i \in WinSlot : W.tag[i] # Nothing}

(* The highest z order of a live window, 0 without one. *)
MaxZIn(W) == CHOOSE m \in {0} \cup {W.z[i] : i \in LiveIn(W)} :
                 \A i \in LiveIn(W) : W.z[i] <= m

(* Bug: the others keep the focus. *)
window_focus_Shared(W, s) ==
    [W EXCEPT !.focused[s] = TRUE, !.minimized[s] = FALSE, !.z[s] = MaxZIn(W) + 1]

(* window_focus, of a slot that need not hold a window any more. *)
window_focus(W, s) ==
    [W EXCEPT !.focused = [i \in WinSlot |-> i = s \/ (@[i] /\ W.tag[i] = Nothing)],
              !.minimized[s] = FALSE,
              !.z[s] = MaxZIn(W) + 1]

window_minimize(W, s) == [W EXCEPT !.minimized[s] = TRUE, !.focused[s] = FALSE]

(* window_create: nothing without a free slot. *)
window_create(W, a) ==
    IF LiveIn(W) = WinSlot THEN W
    ELSE LET s == CHOOSE i \in WinSlot \ LiveIn(W) : \A j \in WinSlot \ LiveIn(W) : i <= j
         IN  window_focus([W EXCEPT !.tag[s] = a, !.z[s] = W.count, !.count = @ + 1,
                                    !.focused[s] = TRUE, !.minimized[s] = FALSE], s)

window_destroy(W, s) ==
    [W EXCEPT !.tag[s] = Nothing, !.count = IF @ > 0 THEN @ - 1 ELSE 0]

(* The launcher of an application.  The browser's remembers the slot of the
   window it made and focuses that slot from then on, twice.               *)
launch(W, a) ==
    IF a # Browser THEN window_create(W, a)
    ELSE IF W.browser # Nothing THEN window_focus(window_focus(W, W.browser), W.browser)
    ELSE LET V == window_create(W, a)
             new == {i \in WinSlot : V.tag[i] # W.tag[i]}
         IN  IF new = {} THEN V
             ELSE LET s == CHOOSE i \in new : TRUE
                  IN  window_focus([V EXCEPT !.browser = s], s)

(* Each event may focus once or twice; the next one must stay in bounds. *)
InBounds == MaxZIn(Table) + 2 <= MaxZ

(* What the applications' callbacks may make of the table: the browser's
   cards and commands launch anything else, the explorer the installer and
   the player, the installer what its catalogue lists.                      *)
on_browser_mouse(W) == {launch(W, a) : a \in App \ {Browser}}
execute_django_backend_command(W) == {W} \cup {launch(W, a) : a \in App \ {Browser, Installer}}
on_explorer_mouse(W) == {launch(W, a) : a \in App \ {Browser, Explorer}}
installer_launch(W) == {launch(W, a) : a \in App \ {Browser, Installer}}

on_mouse(W, a) == {W} \cup (IF a = Browser THEN on_browser_mouse(W)
                            ELSE IF a = Explorer THEN on_explorer_mouse(W)
                            ELSE IF a = Installer THEN installer_launch(W) ELSE {})

-----------------------------------------------------------------------------
(* What a press of the left button does, by what is under the pointer.     *)

(* compositor_toggle_start_menu, _calendar and _volume *)
Toggle(m) == /\ openMenus' = IF m \in openMenus THEN openMenus \ {m} ELSE {m}
             /\ power_open' = (m \in openMenus /\ power_open)

(* An icon of the taskbar that stands for an application's window: the
   first window with its tag is restored, minimised or focused.            *)
TaskButton(a) ==
    LET mine == {i \in Live : tag[i] = a}
        s == CHOOSE i \in mine : \A j \in mine : i <= j
    IN  Becomes(IF mine = {} THEN launch(Table, a)
                ELSE IF is_minimized[s] \/ ~is_focused[s] THEN window_focus(Table, s)
                ELSE window_minimize(Table, s))

(* The buttons of the taskbar, where a press ends. *)
Taskbar == \/ \E m \in Menu : Toggle(m) /\ UNCHANGED <<winTable, selected, drag_window>>
           \/ \E a \in App : Becomes(launch(Table, a)) /\ UNCHANGED <<menus, selected, drag_window>>
           \/ \E a \in App : TaskButton(a) /\ UNCHANGED <<menus, selected, drag_window>>

(* The start menu: its power button and the applications pinned to it. *)
StartMenu == /\ "start" \in openMenus
             /\ UNCHANGED <<selected, drag_window>>
             /\ \/ power_open' = ~power_open /\ UNCHANGED <<winTable, openMenus>>
                \/ /\ \E a \in App : Becomes(launch(Table, a))
                   /\ openMenus' = openMenus \ {"start"}
                   /\ power_open' = FALSE

(* Bug: a press on the close button also starts a drag. *)
PressWindow_DragsClosed(s, part) ==
    LET F == window_focus(Table, s)
    IN  /\ Becomes(IF part = "close" THEN window_destroy(F, s)
                   ELSE IF part = "minimize" THEN window_minimize(F, s) ELSE F)
        /\ drag_window' = IF part \in {"title", "close"} THEN s ELSE drag_window

(* A window is focused and then closed, minimised, maximised (which focuses
   it again) or dragged, or its application gets the press, which may
   launch another.                                                          *)
PressWindow(s, part) ==
    LET F == window_focus(Table, s)
    IN  \/ part = "close" /\ Becomes(window_destroy(F, s)) /\ UNCHANGED drag_window
        \/ part = "minimize" /\ Becomes(window_minimize(F, s)) /\ UNCHANGED drag_window
        \/ part = "maximize" /\ Becomes(window_focus(F, s)) /\ UNCHANGED drag_window
        \/ part = "title" /\ Becomes(F) /\ drag_window' = s
        \/ /\ part = "body" /\ UNCHANGED drag_window
           /\ \E W \in on_mouse(F, tag[s]) : Becomes(W)

(* A desktop icon: the first press selects it, the second activates it. *)
PressIcon(i) == IF selected = i
                THEN /\ \E a \in App : Becomes(launch(Table, a))
                     /\ UNCHANGED selected
                ELSE selected' = i /\ UNCHANGED winTable

(* Everything else.  The start menu closes unless the pointer is inside it;
   the press then goes to the topmost window under the pointer, or else to
   an icon.                                                                 *)
Elsewhere ==
    /\ \/ UNCHANGED menus
       \/ "start" \in openMenus /\ openMenus' = openMenus \ {"start"} /\ power_open' = FALSE
    /\ \/ \E under \in SUBSET {i \in Live : ~is_minimized[i]} \ {{}} :
             \E s \in under :
                /\ \A i \in under : z_order[i] <= z_order[s]
                /\ \E part \in {"close", "minimize", "maximize", "title", "body"} : PressWindow(s, part)
                /\ UNCHANGED selected
       \/ \E i \in Icon : PressIcon(i) /\ UNCHANGED drag_window
       \/ UNCHANGED <<winTable, drag_window, selected>>

-----------------------------------------------------------------------------
(* compositor_update_mouse, called with the left button up or down.        *)

Awake == ~is_suspended /\ ~halted

(* The first event with the button down wakes a suspended system. *)
WakeByMouse == /\ is_suspended /\ ~prev_left
               /\ is_suspended' = FALSE
               /\ prev_left' = TRUE /\ button' = TRUE
               /\ UNCHANGED <<winTable, menus, drag_window, selected, halted>>

Press == /\ Awake /\ ~prev_left /\ InBounds
         /\ button' = TRUE /\ prev_left' = TRUE
         /\ Taskbar \/ StartMenu \/ Elsewhere
         /\ UNCHANGED <<is_suspended, halted>>

(* The power menu's entries: the handler returns at once, or never. *)
system_hibernate == /\ Awake /\ ~prev_left /\ "start" \in openMenus /\ power_open
                    /\ button' = TRUE
                    /\ openMenus' = openMenus \ {"start"} /\ power_open' = FALSE
                    /\ is_suspended' = TRUE
                    /\ UNCHANGED <<winTable, prev_left, drag_window, selected, halted>>

system_shutdown == /\ Awake /\ ~prev_left /\ "start" \in openMenus /\ power_open
                   /\ button' = TRUE
                   /\ halted' = TRUE
                   /\ UNCHANGED <<winTable, menus, is_suspended, prev_left, drag_window, selected>>

(* Bug: only a drag that has moved the window is ended. *)
ButtonUp_KeepsDrag == /\ ~halted /\ button
                     /\ button' = FALSE /\ prev_left' = FALSE
                     /\ UNCHANGED <<winTable, menus, is_suspended, drag_window, selected, halted>>

(* The button comes up: a drag ends, suspended or not. *)
ButtonUp == /\ ~halted /\ button
           /\ button' = FALSE /\ prev_left' = FALSE
           /\ drag_window' = Nothing
           /\ UNCHANGED <<winTable, menus, is_suspended, selected, halted>>

(* compositor_dispatch_key: a press of a key wakes the system; otherwise the
   focused window gets it, and the browser's may launch an application.     *)
compositor_dispatch_key ==
    /\ ~halted
    /\ \/ /\ is_suspended /\ is_suspended' = FALSE
          /\ UNCHANGED winTable
       \/ /\ ~is_suspended /\ InBounds
          /\ \E i \in Live : is_focused[i] /\ ~is_minimized[i] /\ tag[i] = Browser
          /\ \E W \in execute_django_backend_command(Table) : Becomes(W)
          /\ UNCHANGED is_suspended
    /\ UNCHANGED <<menus, prev_left, button, drag_window, selected, halted>>

DesktopNext == \/ WakeByMouse \/ Press \/ system_hibernate \/ system_shutdown
               \/ ButtonUp \/ compositor_dispatch_key

DesktopSpec == compositor_init /\ [][DesktopNext]_desktopVars

-----------------------------------------------------------------------------
(* What compositor_render draws. *)

(* The applications whose icon render_taskbar lights: their first window
   has the focus and can be seen.                                           *)
Lit == {a \in App : \E i \in Live : /\ tag[i] = a /\ is_focused[i] /\ ~is_minimized[i]
                                   /\ \A j \in Live : tag[j] = a => i <= j}

(* The loop over the heights, from the lowest, ends here. *)
DrawnHeights(count) == 0 .. count + RenderSlack - 1

-----------------------------------------------------------------------------

(* The keys go to one window at most, and that window is in front of every
   other: focus and stacking are separate fields that each call keeps in
   step (window_focus, window_minimize, window_destroy, the launchers).  The
   taskbar lights no other application.                                     *)
KeysOnTop ==
    \A i \in Live : is_focused[i] =>
        /\ ~is_minimized[i]
        /\ \A j \in Live \ {i} : ~is_focused[j] /\ z_order[j] < z_order[i]
        /\ Lit \subseteq {tag[i]}

(* A drag has a window that still exists and a button that is still down:
   the pointer to the window is kept across events (g_drag_window).  The
   count that bounds the drawing is the number of windows, and no two of
   the start menu and the flyouts are open.                                 *)
DragIsHeld ==
    /\ drag_window # Nothing => drag_window \in Live /\ button /\ prev_left
    /\ window_count = Cardinality(Live)
    /\ Cardinality(openMenus) <= 1

(* compositor.c: "Render Windows in Z-Order".  A window that is open and not
   minimised is drawn: each press raises the one it meets, and the loop that
   draws them goes no further than DrawnHeights (compositor_render,
   window_focus, window_destroy).                                           *)
WindowsAreDrawn ==
    \A i \in Live : ~is_minimized[i] => z_order[i] \in DrawnHeights(window_count)

=============================================================================
