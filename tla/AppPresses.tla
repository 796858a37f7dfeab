----------------------------- MODULE AppPresses -----------------------------
(***************************************************************************)
(* Where the kernel's applications (kernel/apps) draw what can be pressed, *)
(* and what they do for a press at a point: each application has the       *)
(* numbers twice, in its paint and in its mouse handler.  The compositor   *)
(* has the paint handler start below the title bar, and gives the mouse    *)
(* handler points that count from the window's corner.  Points here count  *)
(* from that corner.                                                       *)
(***************************************************************************)
EXTENDS Integers, Sequences

CONSTANTS Width, Height,   (* the screen                                    *)
          Spot             (* points pressed, besides middles of items: <<x, y>> *)

VARIABLES app,             (* the application whose window it is            *)
          maximized,
          current_tab,     (* g_current_tab of the task manager             *)
          show_playlist,   (* g_show_playlist of the player                 *)
          drop_zone,       (* of the installer: "prompt", "busy" or "done"  *)
          aimed,           (* history: the item pressed in its middle       *)
          did,             (* history: what the last press did              *)
          was_drawn        (* history: that is an item that was drawn       *)

(* The sizes windows are launched with. *)
Launched == [player    |-> <<780, 500>>, taskmgr  |-> <<780, 470>>, explorer |-> <<800, 500>>,
             installer |-> <<760, 480>>, cloner   |-> <<780, 500>>, firewall |-> <<760, 480>>,
             browser   |-> <<1280, 672>>]

size == IF maximized THEN <<Width, Height - 48>> ELSE Launched[app]

(* The content: its corner, width and height. *)
cx == 1
cy == 36
cw == size[1] - 2
ch == size[2] - 37

Lesser(a, b) == IF a < b THEN a ELSE b
CardWidth(w) == Lesser(680, w - 40)

-----------------------------------------------------------------------------
(* Painting.  An item is a box with what a press on it is to do; the number
   tells the items of a list apart.                                         *)
Item(does, n, x, y, w, h) == [does |-> <<does, n>>, left |-> x, top |-> y, width |-> w, height |-> h]

on_vlc_paint ==
    LET deck == cy + ch - 82
        button(does, x, w) == Item(does, 1, cx + x, deck + 30, w, 32)
        row(i) == Item("track", i, cx + cw - 226, cy + 70 + 44 * (i - 1), 214, 38)
    IN  << button("previous", 20, 34), button("play", 62, 36), button("stop", 106, 34),
           button("next", 148, 34), button("playlist", 190, 76),
           Item("seek", 1, cx + 20, deck + 12, cw - 196, 6),
           Item("volume", 1, cx + cw - 186, deck + 42, 100, 8) >>
        \o (IF show_playlist THEN [i \in 1 .. 4 |-> row(i)] ELSE << >>)

render_processes_tab ==
    [i \in 1 .. 10 |-> Item("process", i, cx + 12, cy + 98 + 28 * (i - 1), cw - 24, 28)]
    \o << Item("end task", 1, cx + cw - 150, cy + ch - 42, 130, 32) >>

on_taskmgr_paint ==
    << Item("tab", 0, cx + 12, cy + 8, 110, 28), Item("tab", 1, cx + 130, cy + 8, 120, 28),
       Item("tab", 2, cx + 260, cy + 8, 140, 28) >>
    \o (IF current_tab = 0 THEN render_processes_tab ELSE << >>)

(* Three tabs, the settings, seven folders, and the drive twice. *)
on_explorer_paint ==
    LET folder(i) == Item("folder", i, cx + 172 + 190 * (i % 3), cy + 164 + 44 * (i \div 3), 180, 40)
    IN  << Item("ribbon", 0, cx + 8, cy + 2, 42, 20), Item("ribbon", 1, cx + 52, cy + 2, 72, 20),
           Item("ribbon", 2, cx + 126, cy + 2, 48, 20), Item("settings", 1, cx + 330, cy + 32, 36, 36),
           Item("drive", 1, cx + 172, cy + 324, 260, 56), Item("drive", 1, cx + 20, cy + 354, 120, 16) >>
        \o [i \in 1 .. 7 |-> folder(i - 1)]

(* Rows that would reach below the window are not drawn. *)
on_installer_paint ==
    LET row_y(i) == cy + 188 + 42 * (i - 1)
        rows == {i \in 1 .. 6 : row_y(i) + 36 <= cy + ch - 10}
    IN  << Item("install", 1, cx + 12, cy + 48, cw - 24, 110) >>
        \o (IF drop_zone = "done" THEN << Item("launch", 1, cx + cw - 152, cy + 108, 110, 28) >> ELSE << >>)
        \o [i \in rows |-> Item("package", i, cx + cw - 130, row_y(i) + 6, 100, 26)]

on_diskclone_paint ==
    LET button(does, x, w) == Item(does, 1, cx + x, cy + ch - 46, w, 36)
    IN  << button("start", 12, 140), button("pause", 160, 100), button("reset", 268, 100) >>

on_firewall_paint ==
    [i \in 1 .. 4 |-> Item("toggle", i, cx + cw - 90, cy + 231 + 32 * (i - 1), 64, 20)]
    \o << Item("rotate", 1, cx + 196, cy + ch - 40, 180, 36) >>

render_browser_window ==
    LET w == CardWidth(cw)
        card_x == cx + (cw - w) \div 2
        act_w == (w - 24) \div 3
        card(i) == Item("card", i, card_x + (i % 3) * (act_w + 12), cy + 370 + 46 * (i \div 3), act_w, 38)
    IN  << Item("address", 1, cx + 195, cy + 5, IF cw - 380 < 200 THEN 200 ELSE cw - 380, 26),
           Item("input", 1, card_x + 16, cy + 201, w - 170, 42),
           Item("execute", 1, card_x + w - 144, cy + 201, 110, 42) >>
        \o [i \in 1 .. 6 |-> card(i - 1)]

Drawn == CASE app = "player"    -> on_vlc_paint
           [] app = "taskmgr"   -> on_taskmgr_paint
           [] app = "explorer"  -> on_explorer_paint
           [] app = "installer" -> on_installer_paint
           [] app = "cloner"    -> on_diskclone_paint
           [] app = "firewall"  -> on_firewall_paint
           [] app = "browser"   -> render_browser_window

-----------------------------------------------------------------------------
(* Pressing.  A handler looks at one area after another. *)
Area(does, n, x1, x2, y1, y2) == [does |-> <<does, n>>, x |-> x1 .. x2, y |-> y1 .. y2]

(* The division of what is above the first row of the list rounds to it. *)
on_vlc_mouse ==
    LET button(does, x1, x2) == Area(does, 1, x1, x2, 350, 410)
    IN  << button("play", 60, 96), button("stop", 104, 136), button("previous", 20, 52),
           button("next", 144, 176), button("playlist", 184, 240),
           Area("seek", 1, 20, 560, 350, 366), button("volume", 600, 710) >>
        \o (IF show_playlist
            THEN [i \in 1 .. 4 |-> Area("track", i, 540, size[1], IF i = 1 THEN 50 ELSE 36 + 44 * i,
                                        Lesser(79 + 44 * i, 330))]
            ELSE << >>)

(* Bug: the process table is pressed on whichever tab is shown. *)
on_taskmgr_mouse_AnyTab ==
    << Area("tab", 0, 12, 130, 38, 64), Area("tab", 1, 135, 265, 38, 64), Area("tab", 2, 270, 410, 38, 64) >>
    \o [i \in 1 .. 10 |-> Area("process", i, 0, size[1], 72 + 28 * i, 99 + 28 * i)]
    \o << Area("end task", 1, 560, 690, 380, 416) >>

on_taskmgr_mouse ==
    << Area("tab", 0, 12, 130, 38, 64), Area("tab", 1, 135, 265, 38, 64), Area("tab", 2, 270, 410, 38, 64) >>
    \o (IF current_tab = 0
        THEN [i \in 1 .. 10 |-> Area("process", i, 0, size[1], 72 + 28 * i, 99 + 28 * i)]
             \o << Area("end task", 1, 560, 690, 380, 416) >>
        ELSE << >>)

(* A column to the right of the third counts as one of the next row. *)
on_explorer_mouse ==
    LET columns == (size[1] - 170) \div 190 + 1
        folder(col, row) == Area("folder", 3 * row + col, 170 + 190 * col, 359 + 190 * col,
                                 160 + 44 * row, Lesser(203 + 44 * row, 290))
        grid == [k \in 1 .. 3 * columns |-> folder((k - 1) % columns, (k - 1) \div columns)]
    IN  << Area("ribbon", 0, 8, 50, 0, 24), Area("ribbon", 1, 54, 124, 0, 24), Area("ribbon", 2, 128, 180, 0, 24),
           Area("settings", 1, 330, 380, 26, 100), Area("drive", 1, 0, 160, 136, 397),
           Area("drive", 1, 170, size[1], 320, 380) >>
        \o SelectSeq(grid, LAMBDA a : a.does[2] < 7)

on_installer_mouse ==
    << Area("install", 1, 20, 740, 50, 160) >>
    \o [i \in 1 .. 6 |-> Area("package", i, 620, 730, 168 + 42 * i, 204 + 42 * i)]

on_diskclone_mouse ==
    << Area("start", 1, 16, 150, 400, 445), Area("pause", 1, 160, 260, 400, 445), Area("reset", 1, 270, 370, 400, 445) >>

on_firewall_mouse ==
    [i \in 1 .. 4 |-> Area("toggle", i, 650, 730, 196 + 32 * i, 227 + 32 * i)]
    \o << Area("rotate", 1, 196, 376, 430, 466) >>

on_browser_mouse ==
    LET w == CardWidth(size[1])
        card_x == (size[1] - w) \div 2
        act_w == (w - 24) \div 3
        card(i) == Area("card", i, card_x + (i % 3) * (act_w + 12), card_x + (i % 3) * (act_w + 12) + act_w,
                        380 + 50 * (i \div 3), 422 + 50 * (i \div 3))
    IN  << Area("address", 1, 180, size[1] - 180, 0, 36),
           Area("execute", 1, card_x + w - 140, card_x + w - 20, 275, 317),
           Area("input", 1, card_x + 20, card_x + w - 20, 275, 317) >>
        \o [i \in 1 .. 6 |-> card(i - 1)]

on_mouse == CASE app = "player"    -> on_vlc_mouse
              [] app = "taskmgr"   -> on_taskmgr_mouse
              [] app = "explorer"  -> on_explorer_mouse
              [] app = "installer" -> on_installer_mouse
              [] app = "cloner"    -> on_diskclone_mouse
              [] app = "firewall"  -> on_firewall_mouse
              [] app = "browser"   -> on_browser_mouse

NoEffect == <<"nothing", 0>>

(* The compositor keeps presses down to the end of the title bar. *)
Does(p) ==
    LET areas == on_mouse
        hit == {k \in DOMAIN areas : p[1] \in areas[k].x /\ p[2] \in areas[k].y}
    IN  IF p[2] <= cy \/ hit = {} THEN NoEffect
        ELSE areas[CHOOSE k \in hit : \A l \in hit : k <= l].does

-----------------------------------------------------------------------------
AppPressesInit ==
    /\ app \in DOMAIN Launched /\ maximized = FALSE
    /\ current_tab = 0 /\ show_playlist = TRUE /\ drop_zone = "prompt"
    /\ aimed = NoEffect /\ did = NoEffect /\ was_drawn = FALSE

Middle(i) == <<i.left + i.width \div 2, i.top + i.height \div 2>>

(* What a press does to what is drawn; a package is installed or launched. *)
Changes(does) ==
    /\ current_tab' = IF does[1] = "tab" THEN does[2] ELSE current_tab
    /\ show_playlist' = (show_playlist # (does[1] = "playlist"))
    /\ \/ does[1] \in {"install", "package"} /\ drop_zone' = "busy"
       \/ does[1] # "install" /\ UNCHANGED drop_zone
    /\ did' = does
    /\ was_drawn' = \E k \in DOMAIN Drawn : Drawn[k].does = does
    /\ UNCHANGED <<app, maximized>>

PressItem == \E k \in DOMAIN Drawn : /\ aimed' = Drawn[k].does
                                     /\ Changes(Does(Middle(Drawn[k])))

PressAnywhere == \E p \in Spot : aimed' = NoEffect /\ Changes(Does(p))

installer_app_tick == /\ drop_zone = "busy" /\ drop_zone' = "done"
                      /\ UNCHANGED <<app, maximized, current_tab, show_playlist, aimed, did, was_drawn>>

window_maximize == /\ maximized' = ~maximized
                   /\ UNCHANGED <<app, current_tab, show_playlist, drop_zone, aimed, did, was_drawn>>

AppPressesNext == PressItem \/ PressAnywhere \/ installer_app_tick \/ window_maximize

-----------------------------------------------------------------------------
(* A press does only what the window shows at the time: what belongs to a tab
   or a list that is not shown cannot be reached.  The installer's sixth
   package alone can be where its row is too low to be drawn.               *)
ShownOnly == did # NoEffect /\ ~was_drawn => did = <<"package", 6>>

(* A press on the middle of what is drawn does what is drawn there (the
   firewall's rules say "Click Action to Toggle").                          *)
ItemsAnswer == aimed # NoEffect => did = aimed

=============================================================================
