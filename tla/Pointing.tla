------------------------------ MODULE Pointing ------------------------------
(***************************************************************************)
(* Where things are on the screen of the in-kernel compositor              *)
(* (kernel/gui/compositor.c): what compositor_render draws at a point and  *)
(* what compositor_update_mouse does for a press there, each with its own  *)
(* numbers, and the placement of a window as it is dragged and maximised.  *)
(* One window is followed, as if no other were open; the table of windows  *)
(* is module Desktop.                                                      *)
(***************************************************************************)
EXTENDS Integers, Desktop

CONSTANTS Width, Height,   (* the screen: g_fb                              *)
          Point,           (* where the pointer goes: <<x, y>>              *)
          LaunchPlace,     (* where launchers put the window                *)
          DockButton,      (* its button of the taskbar, from 0             *)
          DragPoint        (* bound: where drags begin and lead             *)

ASSUME PointingAssumption ==
    /\ Width \in Nat /\ Height \in Nat /\ Width >= 800 /\ Height >= 600
    /\ Point \subseteq (0 .. Width - 1) \X (0 .. Height - 1)
    /\ LaunchPlace \subseteq [left : 0 .. Width - 127, top : 0 .. Height - 84,
                        width : Nat \ (0 .. 126), height : Nat \ (0 .. 36)]
    /\ DockButton \in 1 .. 9 /\ DragPoint \subseteq Point

VARIABLES mouse,           (* g_mouse.x, .y                                 *)
          down,            (* g_mouse.prev_left                             *)
          win,             (* the window: "closed", "minimized" or "shown"  *)
          frame,           (* its x, y, width and height                    *)
          kept,            (* saved_x, saved_y, saved_w, saved_h            *)
          is_maximized,
          height,          (* its z_order                                   *)
          grip,            (* g_drag_offset_x, _y while it is dragged       *)
          menu             (* what is open; "power" with the start menu     *)

pointingVars == <<mouse, down, win, frame, kept, is_maximized, height, grip, menu>>

Box(x, y, w, h) == [left |-> x, top |-> y, width |-> w, height |-> h]
NoGrip == <<>>
StartOpen == menu \in {"start", "power"}

TASKBAR_HEIGHT == 48
TITLEBAR_HEIGHT == 36
TaskbarTop == Height - TASKBAR_HEIGHT
MenuTop == TaskbarTop - 540 - 10      \* sm_y
UserBar == MenuTop + 540 - 56         \* ubar_y
PowerTop == UserBar - 120 - 6         \* pw_y

(* g_desktop_icons: the rows of each of the four columns, from 0. *)
LastRow == <<7, 6, 4, 4>>
ColumnLeft == <<16, 110, Width - 200, Width - 98>>

Thing(kind, col, row) == [kind |-> kind, col |-> col, row |-> row]
Things == [kind : {"dock"}, col : 0 .. 9, row : {0}]
          \cup [kind : {"tile"}, col : 0 .. 3, row : 0 .. 1]
          \cup [kind : {"entry"}, col : {0}, row : 0 .. 2]
          \cup {i \in [kind : {"icon"}, col : 1 .. 4, row : 0 .. 7] : i.row <= LastRow[i.col]}
          \cup [kind : {"clock", "volume", "power", "close", "maximize", "minimize", "title", "body"},
                col : {0}, row : {0}]

WindowParts == {"close", "maximize", "minimize", "title", "body"}

(* What is there at all, for the drawing and for the pressing alike. *)
Present(t) == /\ t.kind \in {"tile", "power"} => StartOpen
              /\ t.kind = "entry" => menu = "power"
              /\ t.kind \in WindowParts => win = "shown"

-----------------------------------------------------------------------------
(* Drawing.                                                                *)

In(p, b) == /\ b.left <= p[1] /\ p[1] < b.left + b.width
            /\ b.top <= p[2] /\ p[2] < b.top + b.height

(* The ten buttons of the dock, and of the tray the cards of the clock and
   of the volume.                                                           *)
render_taskbar(t) ==
    IF t.kind = "dock" THEN Box(12 + 44 * t.col, TaskbarTop + 5, 40, 38)
    ELSE IF t.kind = "clock" THEN Box(Width - 128, TaskbarTop + 4, 88, 40)
    ELSE Box(Width - 242, TaskbarTop + 8, 72, 32)

(* The power button, the pinned applications, the power menu's entries. *)
render_start_menu(t) ==
    IF t.kind = "power" THEN Box(12 + 480 - 48, UserBar + 11, 34, 34)
    ELSE IF t.kind = "tile" THEN Box(32 + 110 * t.col, MenuTop + 96 + 78 * t.row, 102, 70)
    ELSE Box(322 + 6, PowerTop + 8 + 36 * t.row, 148, 32)

(* The title bar with its three buttons, and the content without its first
   line, which a press takes for the title bar.                             *)
render_window_frame(t) ==
    LET close_x == frame.left + frame.width - 42
        control(x) == Box(x, frame.top, 42, TITLEBAR_HEIGHT)
    IN  IF t.kind = "close" THEN control(close_x)
        ELSE IF t.kind = "maximize" THEN control(close_x - 42)
        ELSE IF t.kind = "minimize" THEN control(close_x - 84)
        ELSE IF t.kind = "title" THEN Box(frame.left, frame.top, frame.width - 126, TITLEBAR_HEIGHT)
        ELSE Box(frame.left, frame.top + TITLEBAR_HEIGHT + 1,
                 frame.width, frame.height - TITLEBAR_HEIGHT - 1)

(* The card of an icon. *)
render_desktop_icons(t) == Box(ColumnLeft[t.col] - 4, 16 + 72 * t.row - 2, 84, 68)

Painted(t) == IF t.kind \in {"dock", "clock", "volume"} THEN render_taskbar(t)
              ELSE IF t.kind \in {"power", "tile", "entry"} THEN render_start_menu(t)
              ELSE IF t.kind \in WindowParts THEN render_window_frame(t)
              ELSE render_desktop_icons(t)

(* Windows are drawn height by height, up to the last one looked at. *)
Drawn == win = "shown" /\ height \in DrawnHeights(1)

(* The backgrounds, in the order of compositor_render: a window with its
   shadow, the taskbar, the start menu, the power menu and the flyouts.     *)
render_calendar_popup == Box(Width - 292, TaskbarTop - 310, 280, 300)
render_volume_popup == Box(Width - 390, TaskbarTop - 106, 270, 96)

Cover(layer, p) ==
    \/ layer < 1 /\ Drawn /\ In(p, Box(frame.left, frame.top, frame.width + 6, frame.height + 6))
    \/ layer < 2 /\ p[2] >= TaskbarTop
    \/ layer < 3 /\ StartOpen /\ In(p, Box(12, MenuTop, 480, 540))
    \/ layer < 4 /\ menu = "power" /\ In(p, Box(322, PowerTop, 160, 120))
    \/ menu = "calendar" /\ In(p, render_calendar_popup)
    \/ menu = "volume" /\ In(p, render_volume_popup)

Layer(t) == IF t.kind = "icon" THEN 0 ELSE IF t.kind \in WindowParts THEN 1
            ELSE IF t.kind \in {"power", "tile"} THEN 3 ELSE IF t.kind = "entry" THEN 4 ELSE 2

(* compositor_render: t can be seen at p, nothing drawn later is over it. *)
compositor_render(t, p) ==
    /\ Present(t) /\ (t.kind \in WindowParts => Drawn)
    /\ In(p, Painted(t)) /\ ~Cover(Layer(t), p)

-----------------------------------------------------------------------------
(* Pressing.                                                               *)

Between(v, a, b) == a <= v /\ v <= b

(* The tests of compositor_update_mouse, one kind of thing after another;
   their rectangles include the right and the lower edge.                   *)
TaskbarHit(t, p) ==
    /\ p[2] >= TaskbarTop
    /\ \/ t.kind = "dock" /\ Between(p[1], 12 + 44 * t.col, 52 + 44 * t.col)
       \/ t.kind = "clock" /\ Between(p[1], Width - 120, Width - 34)
       \/ t.kind = "volume" /\ Between(p[1], Width - 240, Width - 160)

InMenu(p) == Between(p[1], 12, 492) /\ Between(p[2], MenuTop, MenuTop + 540)

StartMenuHit(t, p) ==
    \/ /\ t.kind = "power"
       /\ Between(p[1], 444, 478) /\ Between(p[2], UserBar + 11, UserBar + 45)
    \/ /\ t.kind = "entry"
       /\ Between(p[1], 322, 482) /\ Between(p[2], PowerTop, PowerTop + 120)
       /\ Between(p[2], PowerTop + 8 + 36 * t.row, PowerTop + 40 + 36 * t.row)
    \/ /\ t.kind = "tile" /\ InMenu(p)
       /\ Between(p[1], 32 + 110 * t.col, 134 + 110 * t.col)
       /\ Between(p[2], MenuTop + 96 + 78 * t.row, MenuTop + 166 + 78 * t.row)

WindowHit(t, p) ==
    LET right == frame.left + frame.width
        inTitle == p[2] <= frame.top + TITLEBAR_HEIGHT
    IN  /\ Between(p[1], frame.left, right) /\ Between(p[2], frame.top, frame.top + frame.height)
        /\ \/ t.kind = "close" /\ inTitle /\ p[1] >= right - 42
           \/ t.kind = "maximize" /\ inTitle /\ right - 84 <= p[1] /\ p[1] < right - 42
           \/ t.kind = "minimize" /\ inTitle /\ right - 126 <= p[1] /\ p[1] < right - 84
           \/ t.kind = "title" /\ inTitle /\ p[1] < right - 126
           \/ t.kind = "body" /\ ~inTitle

IconHit(t, p) == /\ t.kind = "icon"
                 /\ Between(p[1], ColumnLeft[t.col] - 4, ColumnLeft[t.col] + 84)
                 /\ Between(p[2], 16 + 72 * t.row - 2, 16 + 72 * t.row + 68)

HitAt(t, p) == TaskbarHit(t, p) \/ StartMenuHit(t, p) \/ WindowHit(t, p) \/ IconHit(t, p)

(* The order of the tests. *)
Turn(t) == IF t.kind \in {"dock", "clock", "volume"} THEN 1 ELSE IF t.kind = "power" THEN 2
           ELSE IF t.kind = "entry" THEN 3 ELSE IF t.kind = "tile" THEN 4
           ELSE IF t.kind \in WindowParts THEN 5 ELSE 6

(* t gets a press at p: it is hit, and nothing tested before it is. *)
Gets(t, p) == /\ Present(t) /\ HitAt(t, p)
              /\ \A d \in Things : Present(d) /\ Turn(d) < Turn(t) => ~HitAt(d, p)

-----------------------------------------------------------------------------
(* compositor_update_mouse.                                                *)

PointingInit ==
    /\ mouse \in Point /\ down = FALSE
    /\ win = "closed" /\ frame \in LaunchPlace /\ kept = frame /\ is_maximized = FALSE
    /\ height = 0
    /\ grip = NoGrip
    /\ menu = "none"

window == <<win, frame, kept, is_maximized, height>>

(* window_focus, n times. *)
Higher(n) == height' = height + n

(* window_create, by a launcher, and the focus it ends with. *)
Launched == /\ win = "closed" /\ win' = "shown"
           /\ frame' \in LaunchPlace /\ kept' = frame' /\ is_maximized' = FALSE
           /\ height' = 1

ToggleMenu(m) == menu' = IF menu = m \/ (m = "start" /\ StartOpen) THEN "none" ELSE m

(* The dock: the start button, the window's own, and those of others. *)
PressDock(t) ==
    \/ t.col = 0 /\ ToggleMenu("start") /\ UNCHANGED window
    \/ /\ t.col = DockButton /\ UNCHANGED menu
       /\ \/ Launched
          \/ /\ win = "shown" /\ win' = "minimized"
             /\ UNCHANGED <<frame, kept, is_maximized, height>>
          \/ /\ win = "minimized" /\ win' = "shown" /\ Higher(1)
             /\ UNCHANGED <<frame, kept, is_maximized>>
    \/ t.col \notin {0, DockButton} /\ UNCHANGED <<menu, window>>

(* A pinned application, perhaps the window's. *)
PressTile == menu' = "none" /\ (Launched \/ UNCHANGED window)

(* Hibernation closes the menu; the press that ends it does nothing else.
   The other entries never return.                                          *)
PressEntry(t) == t.row = 0 /\ menu' = "none" /\ UNCHANGED window

window_maximize ==
    /\ frame' = IF is_maximized THEN kept ELSE Box(0, 0, Width, TaskbarTop)
    /\ kept' = IF is_maximized THEN kept ELSE frame
    /\ is_maximized' = ~is_maximized
    /\ UNCHANGED win

(* Below the menus: the start menu closes if the pointer is outside. *)
MenuLeft(p) == menu' = IF StartOpen /\ ~InMenu(p) THEN "none" ELSE menu

(* The window is focused first, and once more when it is maximised. *)
PressPart(t, p) ==
    \/ /\ t.kind \in {"close", "minimize"} /\ Higher(1)
       /\ win' = IF t.kind = "close" THEN "closed" ELSE "minimized"
       /\ UNCHANGED <<frame, kept, is_maximized, grip>>
    \/ t.kind = "maximize" /\ window_maximize /\ Higher(2) /\ UNCHANGED grip
    \/ /\ t.kind = "title" /\ p \in DragPoint /\ Higher(1)
       /\ grip' = <<p[1] - frame.left, p[2] - frame.top>>
       /\ UNCHANGED <<win, frame, kept, is_maximized>>
    \/ t.kind = "body" /\ Higher(1) /\ UNCHANGED <<win, frame, kept, is_maximized, grip>>

(* The button goes down at p. *)
PressAt(p) ==
    /\ ~down /\ down' = TRUE /\ mouse' = p
    /\ \/ \E t \in Things :
             /\ Gets(t, p)
             /\ \/ t.kind = "dock" /\ PressDock(t) /\ UNCHANGED grip
                \/ t.kind = "clock" /\ ToggleMenu("calendar") /\ UNCHANGED <<window, grip>>
                \/ t.kind = "volume" /\ ToggleMenu("volume") /\ UNCHANGED <<window, grip>>
                \/ /\ t.kind = "power" /\ menu' = IF menu = "power" THEN "start" ELSE "power"
                   /\ UNCHANGED <<window, grip>>
                \/ t.kind = "entry" /\ PressEntry(t) /\ UNCHANGED grip
                \/ t.kind = "tile" /\ PressTile /\ UNCHANGED grip
                \/ t.kind \in WindowParts /\ PressPart(t, p) /\ MenuLeft(p)
                \/ t.kind = "icon" /\ MenuLeft(p) /\ (Launched \/ UNCHANGED window) /\ UNCHANGED grip
       \/ /\ \A t \in Things : Present(t) => ~HitAt(t, p)
          /\ MenuLeft(p) /\ UNCHANGED <<window, grip>>

(* window_move, held between the top of the screen and the taskbar. *)
window_move(x, y) ==
    frame' = IF is_maximized THEN frame
             ELSE [frame EXCEPT !.left = x,
                                !.top = IF y < 0 THEN 0
                                        ELSE IF y > TaskbarTop - TITLEBAR_HEIGHT
                                        THEN TaskbarTop - TITLEBAR_HEIGHT ELSE y]

(* The pointer moves; a window it drags moves along. *)
MoveTo(p) ==
    /\ mouse' = p
    /\ IF grip = NoGrip THEN UNCHANGED frame
       ELSE p \in DragPoint /\ window_move(p[1] - grip[1], p[2] - grip[2])
    /\ UNCHANGED <<down, win, kept, is_maximized, height, grip, menu>>

ReleaseAt(p) == /\ down /\ down' = FALSE /\ mouse' = p
                /\ grip' = NoGrip
                /\ UNCHANGED <<window, menu>>

PointingNext == \E p \in Point : PressAt(p) \/ MoveTo(p) \/ ReleaseAt(p)

PointingSpec == PointingInit /\ [][PointingNext]_pointingVars

-----------------------------------------------------------------------------

(* A box whose title bar can be reached with the pointer beside its buttons. *)
Reached(b) ==
    /\ 0 <= b.top /\ b.top + TITLEBAR_HEIGHT <= TaskbarTop
    /\ \E x \in 0 .. Width - 1 : b.left <= x /\ x < b.left + b.width - 126

(* However a window is dragged, maximised and restored, it can be dragged
   again: part of its title bar stays on the screen and above the taskbar
   (window_move, window_maximize).                                          *)
WithinReach == Reached(frame) /\ Reached(kept)

(* The point of the title bar that was pressed stays under the pointer while
   the window is dragged, but for where the window is held.                 *)
GripHolds ==
    grip # NoGrip =>
        /\ down /\ win = "shown"
        /\ is_maximized \/ /\ mouse[1] = frame.left + grip[1]
                           /\ \/ mouse[2] = frame.top + grip[2]
                              \/ frame.top = 0 /\ mouse[2] < grip[2]
                              \/ /\ frame.top = TaskbarTop - TITLEBAR_HEIGHT
                                 /\ mouse[2] > frame.top + grip[2]

(* The cards of the clock and of the volume begin further left than the
   places of their presses.                                                 *)
Beside(t, p) == \/ t.kind = "clock" /\ p[1] < Width - 120
                \/ t.kind = "volume" /\ p[1] < Width - 240

(* As long as a window that is there is drawn at all (WindowsAreDrawn), a
   press on a button, tile, entry, icon or part of a window that is seen
   lands on it and on no other of them, whatever covers what: the numbers of
   compositor_render and compositor_update_mouse agree about them, but for
   the left edge of two cards.  Nothing is said of a press where none of them
   is seen: the backgrounds of the menus and of the taskbar let it through to
   what is below.                                                           *)
PressesLand ==
    (win = "shown" => Drawn) =>
        \A t \in Things : compositor_render(t, mouse) /\ ~Beside(t, mouse) =>
            \A d \in Things : Gets(d, mouse) <=> d = t

(* Focus, stacking, dragging and pressing in compositor.c agree. *)
DesktopHolds == KeysOnTop /\ DragIsHeld /\ WithinReach /\ GripHolds /\ PressesLand

=============================================================================
