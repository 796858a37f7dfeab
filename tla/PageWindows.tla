---------------------------- MODULE PageWindows ----------------------------
(***************************************************************************)
(* The page's window stack (render_engine/src/core/compositor.ts): which   *)
(* window is on top and has the focus, which ones must be drawn again, and *)
(* where windows snap.  A place is a zone of the screen, or "free".  The   *)
(* order of the list state.windows decides nothing: its windows are found  *)
(* by their ids and sorted by their heights.                               *)
(***************************************************************************)
EXTENDS Integers, FiniteSets

CONSTANTS Window,
          Zone,            (* the zones of SnapZone                          *)
          MaxTopZ          (* bound on _topZ                                 *)

ASSUME PageWindowsAssumption == MaxTopZ \in Nat /\ "maximize" \in Zone

NoOne == "none"

VARIABLES windows,         (* state.windows: id -> the fields of its window  *)
          focusedId, _topZ,
          drawn            (* history: place and height at the last flush    *)

pageVars == <<windows, focusedId, _topZ, drawn>>

PageInit == windows = << >> /\ focusedId = NoOne /\ _topZ = 0 /\ drawn = << >>

Without(f, w) == [x \in DOMAIN f \ {w} |-> f[x]]
With(f, w, v) == [x \in DOMAIN f \cup {w} |-> IF x = w THEN v ELSE f[x]]

(* getTopWindow among ws: the highest that can be seen, or none. *)
getTopWindow(ws) ==
    LET seen == {w \in DOMAIN ws : ~ws[w].minimized}
    IN  IF seen = {} THEN NoOne
        ELSE CHOOSE w \in seen : \A v \in seen : ws[v].zIndex <= ws[w].zIndex

(* Bug: a window that was minimized and comes back is not drawn. *)
Focused_Clean(ws, w) == [ws EXCEPT ![w].zIndex = _topZ + 1, ![w].minimized = FALSE]

(* What focus makes of a window. *)
Focused(ws, w) ==
    [ws EXCEPT ![w].zIndex = _topZ + 1, ![w].minimized = FALSE, ![w].dirty = TRUE]

focus(w) ==
    /\ w \in DOMAIN windows /\ _topZ < MaxTopZ
    /\ windows' = Focused(windows, w)
    /\ _topZ' = _topZ + 1 /\ focusedId' = w
    /\ UNCHANGED drawn

addWindow(w) ==
    /\ w \notin DOMAIN windows /\ _topZ < MaxTopZ
    /\ windows' = Focused(With(windows, w, [place |-> "free", snap |-> NoOne, zIndex |-> 0,
                                            minimized |-> FALSE, maximized |-> FALSE,
                                            dirty |-> TRUE]), w)
    /\ _topZ' = _topZ + 1 /\ focusedId' = w
    /\ UNCHANGED drawn

(* Bug: the focus stays on a window that is gone. *)
removeWindow_Keeps(w) ==
    /\ w \in DOMAIN windows
    /\ windows' = Without(windows, w)
    /\ drawn' = Without(drawn, w)
    /\ UNCHANGED <<_topZ, focusedId>>

removeWindow(w) ==
    /\ w \in DOMAIN windows
    /\ windows' = Without(windows, w)
    /\ focusedId' = IF focusedId = w THEN getTopWindow(Without(windows, w)) ELSE focusedId
    /\ drawn' = Without(drawn, w)
    /\ UNCHANGED _topZ

(* minimize gives the focus to the next one, whichever had it. *)
minimize(w) ==
    /\ w \in DOMAIN windows
    /\ windows' = [windows EXCEPT ![w].minimized = TRUE, ![w].dirty = TRUE]
    /\ focusedId' = getTopWindow(Without(windows, w))
    /\ UNCHANGED <<_topZ, drawn>>

(* Back from maximized a window keeps the place it had as such. *)
toggleMaximize(w) ==
    /\ w \in DOMAIN windows
    /\ windows' = [windows EXCEPT ![w].maximized = ~@, ![w].dirty = TRUE,
                     ![w].snap = IF windows[w].maximized THEN @ ELSE "maximize",
                     ![w].place = IF windows[w].maximized THEN @ ELSE "maximize"]
    /\ UNCHANGED <<focusedId, _topZ, drawn>>

(* move leaves a maximized window alone; the zone it answers is what
   applySnap is called with when the window is let go.                      *)
move(w) ==
    /\ w \in DOMAIN windows /\ ~windows[w].maximized
    /\ windows' = [windows EXCEPT ![w].place = "free", ![w].dirty = TRUE]
    /\ UNCHANGED <<focusedId, _topZ, drawn>>

applySnap(w, zone) ==
    /\ w \in DOMAIN windows
    /\ windows' = [windows EXCEPT ![w].place = zone, ![w].snap = zone, ![w].dirty = TRUE]
    /\ UNCHANGED <<focusedId, _topZ, drawn>>

resize(w) ==
    /\ w \in DOMAIN windows
    /\ windows' = [windows EXCEPT ![w].place = "free", ![w].snap = NoOne, ![w].dirty = TRUE]
    /\ UNCHANGED <<focusedId, _topZ, drawn>>

resize_screen ==
    /\ windows' = [w \in DOMAIN windows |-> [windows[w] EXCEPT !.dirty = TRUE]]
    /\ UNCHANGED <<focusedId, _topZ, drawn>>

(* flushDirty gives the renderer the windows that changed and can be seen. *)
flushDirty ==
    LET flushed == {w \in DOMAIN windows : windows[w].dirty /\ ~windows[w].minimized}
    IN  /\ drawn' = [w \in DOMAIN drawn \cup flushed |->
                       IF w \in flushed THEN <<windows[w].place, windows[w].zIndex>>
                       ELSE drawn[w]]
        /\ windows' = [w \in DOMAIN windows |->
                         [windows[w] EXCEPT !.dirty = @ /\ w \notin flushed]]
        /\ UNCHANGED <<focusedId, _topZ>>

PageNext ==
    \/ resize_screen \/ flushDirty
    \/ \E w \in Window : \/ focus(w) \/ addWindow(w) \/ removeWindow(w) \/ minimize(w)
                         \/ toggleMaximize(w) \/ move(w) \/ resize(w)
                         \/ \E zone \in Zone : applySnap(w, zone)

PageSpec == PageInit /\ [][PageNext]_pageVars

-----------------------------------------------------------------------------

(* After any sequence of calls the window that has the focus is the topmost
   one that can be seen, and a window the renderer is not given again looks
   as it was drawn last.                                                    *)
StackIsShown ==
    /\ focusedId = getTopWindow(windows)
    /\ \A w \in DOMAIN windows : ~windows[w].dirty =>
          w \in DOMAIN drawn /\ drawn[w] = <<windows[w].place, windows[w].zIndex>>

=============================================================================
