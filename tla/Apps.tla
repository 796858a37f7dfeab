-------------------------------- MODULE Apps --------------------------------
(***************************************************************************)
(* The state the kernel's applications (kernel/apps) keep between events:  *)
(* those that compositor_tick drives (player, installer, sector cloner)    *)
(* and those that only answer clicks and keys (task manager, explorer,     *)
(* terminal).  Lengths, sectors and percentages are scaled down; the       *)
(* windows that applications launch belong to module Desktop.              *)
(***************************************************************************)
EXTENDS Integers, Sequences, FiniteSets

CONSTANTS Length,         (* seconds of each track of the playlist          *)
          Package,        (* packages of the installer's catalogue          *)
          Sectors,        (* TOTAL_SECTORS, in chunks of one tick           *)
          MaxProcesses,   (* MAX_PROCESSES: 10 in the code                  *)
          Protected,      (* the rows that cannot be ended                  *)
          ClickY,         (* heights at which the process table is pressed  *)
          MaxTermLines,   (* MAX_TERM_LINES: 18 in the code                 *)
          MaxSaid         (* bound: lines written to the terminal           *)

ASSUME AppsAssumption == /\ Length \in Seq(Nat \ {0}) /\ Len(Length) > 0
                         /\ {Sectors, MaxTermLines, MaxProcesses} \subseteq Nat \ {0}
                         /\ ClickY \subseteq Nat /\ MaxSaid \in Nat

VARIABLES is_playing, current_track, current_sec,       (* player           *)
          installing, progress, stage, installed,       (* installer        *)
          clone_state, current_lba,                     (* sector cloner    *)
          ended, selected_proc,                         (* task manager     *)
          selected_folder, selected_drive,              (* explorer         *)
          term_lines, said                              (* terminal         *)

player == <<is_playing, current_track, current_sec>>
installer == <<installing, progress, stage, installed>>
cloner == <<clone_state, current_lba>>
ticking == <<player, installer, cloner>>
taskmgr == <<ended, selected_proc>>
explorer == <<selected_folder, selected_drive>>
terminal == <<term_lines, said>>
answering == <<taskmgr, explorer, terminal>>

Track == DOMAIN Length

AppsInit ==
    /\ is_playing = TRUE /\ current_track = 1 /\ current_sec \in 0 .. Length[1] - 1
    /\ installing = FALSE /\ progress = 0 /\ stage = 0 /\ installed = {}
    /\ clone_state = "idle" /\ current_lba = 0
    /\ ended = {} /\ selected_proc = 0
    /\ selected_folder = -1 /\ selected_drive = 0
    /\ term_lines = <<>> /\ said = 0

-----------------------------------------------------------------------------
(* One tick of compositor_tick. *)

(* Bug: the next track starts where the last one ended. *)
vlc_app_tick_KeepsPosition ==
    \/ UNCHANGED player
    \/ /\ is_playing
       /\ IF current_sec + 1 >= Length[current_track]
          THEN current_track' = (current_track % Len(Length)) + 1 /\ UNCHANGED current_sec
          ELSE current_sec' = current_sec + 1 /\ UNCHANGED current_track
       /\ UNCHANGED is_playing

(* Every twentieth tick is a second; which ticks those are is left open. *)
vlc_app_tick ==
    \/ UNCHANGED player
    \/ /\ is_playing
       /\ IF current_sec + 1 >= Length[current_track]
          THEN current_track' = (current_track % Len(Length)) + 1 /\ current_sec' = 0
          ELSE current_sec' = current_sec + 1 /\ UNCHANGED current_track
       /\ UNCHANGED is_playing

(* Progress in tenths: below 25, 60 and 95 per cent the stages 0, 1 and 2,
   between 95 and 100 the stage stays, at 100 the installation is done.     *)
installer_app_tick ==
    IF ~installing THEN UNCHANGED installer
    ELSE /\ progress' = progress + 1
         /\ stage' = IF progress' <= 2 THEN 0 ELSE IF progress' <= 5 THEN 1
                     ELSE IF progress' <= 9 THEN 2 ELSE 3
         /\ installing' = (progress' < 10)
         /\ UNCHANGED installed

diskclone_app_tick ==
    IF clone_state # "cloning" THEN UNCHANGED cloner
    ELSE /\ current_lba' = current_lba + 1
         /\ clone_state' = IF current_lba' >= Sectors THEN "complete" ELSE "cloning"

compositor_tick == /\ vlc_app_tick /\ installer_app_tick /\ diskclone_app_tick
                   /\ ticking' # ticking

-----------------------------------------------------------------------------
(* Presses in the windows of these three. *)

Play(t, s, playing) == current_track' = t /\ current_sec' = s /\ is_playing' = playing

on_vlc_mouse ==
    /\ UNCHANGED <<installer, cloner>>
    /\ \/ Play(current_track, current_sec, ~is_playing)                 \* play, pause
       \/ Play(current_track, 0, FALSE)                                 \* stop
       \/ Play(((current_track - 2) % Len(Length)) + 1, 0, is_playing)  \* previous
       \/ Play((current_track % Len(Length)) + 1, 0, is_playing)        \* next
       \/ \E s \in 0 .. Length[current_track] :                         \* the time line
             Play(current_track, s, is_playing)
       \/ \E t \in Track : Play(t, 0, TRUE)                             \* the playlist

(* A package that is not installed counts as installed at once; one that is
   gets launched.  A package dropped on the window is installed too.        *)
on_installer_mouse ==
    /\ UNCHANGED <<player, cloner>>
    /\ installing' = TRUE /\ progress' = 0 /\ stage' = 0     \* trigger_install_simulation
    /\ \/ \E p \in Package \ installed : installed' = installed \cup {p}
       \/ UNCHANGED installed

(* Start or resume, pause, stop. *)
on_diskclone_mouse ==
    /\ UNCHANGED <<player, installer>>
    /\ \/ /\ clone_state \in {"idle", "complete"}
          /\ clone_state' = "cloning" /\ current_lba' = 0
       \/ clone_state = "paused" /\ clone_state' = "cloning" /\ UNCHANGED current_lba
       \/ clone_state = "cloning" /\ clone_state' = "paused" /\ UNCHANGED current_lba
       \/ clone_state' = "idle" /\ current_lba' = 0

TickingNext == compositor_tick \/ on_vlc_mouse \/ on_installer_mouse \/ on_diskclone_mouse

-----------------------------------------------------------------------------
(* Those that only answer. *)

(* Bug: the row below the last process can be selected. *)
Row_OneMore(y, old) == LET row == (y - 100) \div 28
                       IN  IF row <= MaxProcesses THEN row ELSE old

(* The row of the process table at a height, if there is one. *)
Row(y, old) == LET row == (y - 100) \div 28
               IN  IF row < MaxProcesses THEN row ELSE old

(* The same press selects a row and, on the button, ends what is selected. *)
on_taskmgr_mouse ==
    /\ UNCHANGED <<explorer, terminal>>
    /\ \E y \in ClickY, onButton \in BOOLEAN :
          /\ y >= 100
          /\ selected_proc' = Row(y, selected_proc)
          /\ ended' = IF y \in 380 .. 416 /\ onButton /\ selected_proc' \notin Protected
                      THEN ended \cup {selected_proc'} ELSE ended

(* Folders (seven, three to a row), the side bar and the drives. *)
on_explorer_select ==
    /\ UNCHANGED <<taskmgr, terminal>>
    /\ \/ \E f \in 0 .. 6 : selected_folder' = f /\ selected_drive' = 0
       \/ selected_folder' = -1 /\ selected_drive' = 1

(* Bug: the oldest line stays and the newest is lost. *)
term_add_line_Full(n) ==
    term_lines' = IF Len(term_lines) < MaxTermLines THEN Append(term_lines, n) ELSE term_lines

term_add_line(n) ==
    term_lines' = IF Len(term_lines) < MaxTermLines
                  THEN Append(term_lines, n) ELSE Append(Tail(term_lines), n)

(* A command echoes and answers line by line, or clears the screen. *)
execute_command ==
    /\ UNCHANGED <<taskmgr, explorer>>
    /\ \/ /\ said < MaxSaid
          /\ said' = said + 1
          /\ term_add_line(said')
       \/ term_lines' = <<>> /\ UNCHANGED said

AnsweringNext == on_taskmgr_mouse \/ on_explorer_select \/ execute_command

(* The compositor's thread ticks and passes presses on, one after another. *)
AppsNext == \/ TickingNext /\ UNCHANGED answering
            \/ AnsweringNext /\ UNCHANGED ticking

AppsSpec == AppsInit /\ [][AppsNext]_<<ticking, answering>>

-----------------------------------------------------------------------------

(* What the windows show goes together, after any sequence of ticks and
   presses: the player is inside its track, an installation that is done is
   at its end, and a copy is complete exactly when every sector is copied
   (the ticks run between any two presses of the same buttons).                *)
AppsInStep ==
    /\ current_track \in Track
    /\ current_sec <= Length[current_track]
    /\ stage = 3 <=> progress = 10
    /\ installing => progress < 10
    /\ clone_state = "complete" <=> current_lba = Sectors
    /\ clone_state = "idle" => current_lba = 0

(* Only processes of the table that may be ended are: the press on the
   button goes through the selection by row first.  The terminal shows the
   last lines written since it was cleared, and one thing is selected in
   the explorer.                                                            *)
AnswersInStep ==
    /\ selected_proc < MaxProcesses /\ ended \subseteq (0 .. MaxProcesses - 1) \ Protected
    /\ \A i \in 1 .. Len(term_lines) : term_lines[i] = said - Len(term_lines) + i
    /\ selected_folder # -1 => selected_drive = 0

(* The applications of the kernel go through their states in step. *)
AppsAgree == AppsInStep /\ AnswersInStep

=============================================================================
