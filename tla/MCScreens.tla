----------------------------- MODULE MCScreens -----------------------------
(* What is on the screen and what brings it there: the boot loader, the    *)
(* log-on with the sessions of the system, the driver of the boot splash,  *)
(* the in-kernel compositor, its applications and its tree of elements,    *)
(* the native host that keeps Electron running, and the windows of the     *)
(* page.  They share no variable: a behaviour exercises one of them and    *)
(* the others rest.                                                        *)
EXTENDS Loader, SessionManager, Vbe, Pointing, Apps, VirtualDom, NativeHost,
        PageWindows, TLC

(* Video modes: with the wanted one, a better one, and neither. *)
MCTarget == <<2, 1>>
MCDisplays == { << <<1, 1>>, <<2, 1>>, <<3, 2>> >>, << <<1, 1>>, <<3, 2>>, <<2, 2>> >>, << <<1, 1>> >> }

(* A track of two seconds and one of three. *)
MCLength == <<2, 3>>

(* Screens with rows as long as they are wide, and with longer ones that do
   and do not fit in the storage of the back buffer, or are not buffered.   *)
Shape(w, h, s) == [width |-> w, height |-> h, stride |-> s]
MCScreen == {Shape(5, 3, 5), Shape(3, 3, 4), Shape(4, 4, 5), Shape(6, 4, 7)}

(* The threads of smss.c that differ: csrss, lsass and dwm are like wininit. *)
MCSession0 == [wininit |-> <<12>>, services |-> <<16, 116>>]
MCSession1 == [winlogon |-> <<28>>, userinit |-> <<40>>]

(* A root drawn in a wide and in a high window. *)
MCDomSize == {<<12, 7>>, <<9, 11>>}

(* A small screen: points on both sides of the edges of what is pressed, and
   those a window is dragged between.                                       *)
MCDragPoint == {<<10, 10>>, <<210, 310>>, <<250, 310>>, <<310, 590>>}
MCPoint == MCDragPoint \cup
           {<<12, 594>>, <<139, 560>>, <<32, 98>>, <<115, 154>>, <<463, 245>>, <<444, 530>>, <<328, 399>>,
            <<680, 556>>, <<679, 595>>, <<560, 560>>, <<629, 591>>, <<600, 450>>, <<373, 335>>, <<374, 300>>, <<416, 335>>, <<458, 300>>}
MCLaunchPlace == {Box(200, 300, 300, 240)}

(* The applications of the kernel once more: the points of their windows. *)
VARIABLES app, maximized, current_tab, show_playlist, drop_zone, aimed, did, was_drawn

pressVars == <<app, maximized, current_tab, show_playlist, drop_zone, aimed, did, was_drawn>>

(* Points all over a window. *)
Spot == {60 * i + 7 : i \in 0 .. 13} \X {26 * j + 5 : j \in 0 .. 21}

Presses == INSTANCE AppPresses

CONSTANT MaxHeight   (* bound: the height of the window that is followed *)

VARIABLE subject

Subject == {"loader", "logon", "splash", "tree",
            "desktop", "pointing", "ticking", "answering", "pressing", "host", "page"}

MCInit ==
    /\ LoaderInit /\ SmssInit /\ VbeInit /\ compositor_init /\ PointingInit /\ AppsInit /\ DomInit /\ HostInit /\ PageInit
    /\ Presses!AppPressesInit
    /\ subject \in Subject
    /\ subject # "loader" => display = << <<1, 1>> >>
    /\ subject # "splash" => fbMode = Shape(5, 3, 5)
    /\ subject # "ticking" => current_sec = 0
    /\ subject # "pointing" => mouse = <<10, 10>>
    /\ subject # "pressing" => app = "player"

Step == \/ subject = "loader" /\ LoaderNext
        \/ subject = "logon" /\ SmssNext
        \/ subject = "splash" /\ VbeNext
        \/ subject = "tree" /\ DomNext
        \/ subject = "desktop" /\ DesktopNext
        \/ subject = "pointing" /\ PointingNext /\ height' <= MaxHeight
        \/ subject = "ticking" /\ TickingNext
        \/ subject = "answering" /\ AnsweringNext
        \/ subject = "pressing" /\ Presses!AppPressesNext
        \/ subject = "host" /\ HostNext
        \/ subject = "page" /\ PageNext

OthersRest ==
    /\ subject # "loader" => UNCHANGED loaderVars
    /\ subject # "logon" => UNCHANGED smssVars
    /\ subject # "splash" => UNCHANGED vbeVars
    /\ subject # "tree" => UNCHANGED domVars
    /\ subject # "desktop" => UNCHANGED desktopVars
    /\ subject # "pointing" => UNCHANGED pointingVars
    /\ subject # "ticking" => UNCHANGED ticking
    /\ subject # "answering" => UNCHANGED answering
    /\ subject # "pressing" => UNCHANGED pressVars
    /\ subject # "host" => UNCHANGED hostVars
    /\ subject # "page" => UNCHANGED pageVars

MCNext == Step /\ OthersRest /\ UNCHANGED subject

MCSpec == MCInit /\ [][MCNext]_<<loaderVars, smssVars, vbeVars, domVars, desktopVars, pointingVars, ticking,
                                 answering, pressVars, hostVars, pageVars, subject>>

(* What the splash draws stays on the screen (vbe.c), elements are drawn
   apart and pressed where they are drawn (dom_engine.c), and a press on an
   application does only what its window shows (the handlers of
   kernel/apps).                                                            *)
PicturesHold == DrawnInside /\ SiblingsApart /\ ClicksLand /\ Presses!ShownOnly

(* A press on the middle of what an application draws does what is drawn
   there: "Click Action to Toggle" (firewall_app.c), "Bottom Control Bar
   Area" (vlc_app.c), "Process Table Row Selection" (taskmgr_app.c).        *)
ButtonsAnswer == Presses!ItemsAnswer
=============================================================================
