------------------------------- MODULE Loader -------------------------------
(***************************************************************************)
(* The boot loader (bootloader/main.c, ui.c, gop.c), from the choice of a  *)
(* video mode to the jump into the kernel.  The firmware is outside the    *)
(* repository: its calls fail or succeed, its memory map changes with      *)
(* every allocation and by itself, and ExitBootServices succeeds when the  *)
(* key it is given is the map's current one.                               *)
(***************************************************************************)
EXTENDS Integers, Sequences, FiniteSets

CONSTANTS Entries,     (* MAX_BOOT_ENTRIES: 4                               *)
          Frames,      (* frames of 40 ms until the countdown ends          *)
          Displays,    (* the lists of video modes: width and height        *)
          Target,      (* 1280 x 720                                        *)
          Paths,       (* the number of names KERNEL.ELF is looked for by   *)
          Slack,       (* descriptors 4096 bytes hold                       *)
          FirstBuffer, (* descriptors 16384 bytes hold                      *)
          MaxVersion   (* bound: changes of the memory map                  *)

ASSUME LoaderAssumption ==
    /\ {Entries, Paths, Slack} \subseteq Nat \ {0}
    /\ {Frames, FirstBuffer, MaxVersion} \subseteq Nat
    /\ \A modes \in Displays : modes \in Seq(Nat \X Nat) /\ Len(modes) > 0

VARIABLES at,          (* where the loader is                               *)
          display,     (* the modes there are                               *)
          mode,        (* gop->Mode->Mode: the mode that is set             *)
          selected_index, remaining, timer_active,      (* boot menu        *)
          path,        (* the name tried, from 1                            *)
          handles,     (* files and volumes that are open                   *)
          pool,        (* pool allocations not freed                        *)
          pages,       (* page allocations                                  *)
          whole,       (* every segment was read in full                    *)
          version, descs,   (* of the firmware's map: key, descriptors      *)
          capacity,    (* of the buffer for it                              *)
          map_key,     (* the key of the map read last, -1 before           *)
          memory_map   (* the map in g_boot_info: its version, -1 before    *)

menuVars == <<selected_index, remaining, timer_active>>
imageVars == <<path, handles, pages, whole>>
mapVars == <<capacity, map_key, memory_map>>
loaderVars == <<at, display, mode, menuVars, imageVars, pool, version, descs, mapVars>>

LoaderInit ==
    /\ at = "video" /\ display \in Displays /\ mode \in DOMAIN display
    /\ selected_index = 0 /\ remaining = Frames /\ timer_active = TRUE
    /\ path = 1 /\ handles = {} /\ pages = {} /\ whole = TRUE
    /\ pool = {}
    /\ version = 0 /\ descs = FirstBuffer
    /\ capacity = 0 /\ map_key = -1 /\ memory_map = -1

Goes(from, to) == at = from /\ at' = to

(* The firmware's map gets a new key and one descriptor more or less. *)
MapChanges == /\ version < MaxVersion /\ version' = version + 1
              /\ descs' \in {descs - 1, descs, descs + 1} \cap Nat
MapStays == UNCHANGED <<version, descs>>

-----------------------------------------------------------------------------
(* gop_init asks for one mode after another and takes no notice of those the
   firmware does not answer for.  The first answer with the target's size
   ends the search; or else the last one is taken that is at least as wide
   and as high as the widest and highest before it, and without any the mode
   that is set.                                                             *)
Wanted(modes, answered) == {i \in answered : modes[i] = Target}

Widest(modes, answered, current) ==
    LET best[i \in 0 .. Len(modes)] ==
            IF i = 0 THEN [index |-> current, w |-> 0, h |-> 0]
            ELSE LET b == best[i - 1]
                 IN  IF i \in answered /\ modes[i][1] >= b.w /\ modes[i][2] >= b.h
                     THEN [index |-> i, w |-> modes[i][1], h |-> modes[i][2]] ELSE b
    IN  best[Len(modes)].index

BestMode(modes, answered, current) ==
    LET wanted == Wanted(modes, answered)
    IN  IF wanted = {} THEN Widest(modes, answered, current)
        ELSE CHOOSE i \in wanted : \A j \in wanted : i <= j

(* Without the protocol the loader gives up.  An answer is freed once it was
   looked at, but for the one that ended the search.  That the mode cannot
   be set is ignored, and without pages for a back buffer the front buffer
   is drawn on.                                                             *)
gop_init ==
    /\ at = "video"
    /\ \/ at' = "failed" /\ UNCHANGED <<mode, pool, pages>> /\ MapStays
       \/ \E answered \in SUBSET DOMAIN display :
             /\ at' = "menu"
             /\ mode' \in {mode, BestMode(display, answered, mode)}
             /\ pool' = IF Wanted(display, answered) = {} THEN pool ELSE pool \cup {"info"}
             /\ pages' \in {pages, pages \cup {"back"}}
             /\ MapChanges
    /\ UNCHANGED <<display, menuVars, path, handles, whole, mapVars>>

(* A frame of ui_run_boot_menu: a key, if there is one, and the countdown. *)
Key == {"none", "up", "down", "enter", "esc", "other"}

ui_run_boot_menu ==
    /\ at = "menu"
    /\ \E key \in Key :
          /\ selected_index' = (selected_index + (IF key = "up" THEN -1 ELSE
                                                  IF key = "down" THEN 1 ELSE 0)) % Entries
          /\ timer_active' = (timer_active /\ key = "none")
          /\ remaining' = IF timer_active' THEN remaining - 1 ELSE remaining
          /\ at' = IF key = "esc" THEN "reset"
                   ELSE IF key = "enter" \/ (timer_active' /\ remaining' <= 0)
                   THEN IF selected_index' <= 1 THEN "protocols" ELSE "reset"
                   ELSE "menu"
    /\ UNCHANGED <<display, mode, imageVars, pool, version, descs, mapVars>>

-----------------------------------------------------------------------------
(* load_kernel_file, one call of the firmware at a time. *)

(* A call fails: the function closes and frees what it lists there, and the
   next name is tried, if there is one.                                     *)
Fails(step, closes, frees) ==
    /\ at = step
    /\ handles' = handles \ closes
    /\ pool' = pool \ frees
    /\ path' = path + 1
    /\ at' = IF path < Paths THEN "protocols" ELSE "failed"
    /\ UNCHANGED <<display, mode, menuVars, pages, whole, version, descs, mapVars>>

Opens(step, next, h) ==
    /\ Goes(step, next)
    /\ handles' = handles \cup h
    /\ UNCHANGED <<display, mode, menuVars, path, pages, whole, pool, version, descs, mapVars>>

both == {"root_dir", "kernel_file"}

(* Bug: the program headers are kept when the image has no extent. *)
load_kernel_file_Keeps ==
    \/ Fails("protocols", {}, {}) \/ Opens("protocols", "volume", {"root_dir"})
    \/ Fails("volume", {"root_dir"}, {}) \/ Opens("volume", "header", {"kernel_file"})
    \/ Fails("header", both, {}) \/ Opens("header", "phdrs", {})
    \/ Fails("phdrs", both, {})
    \/ Goes("phdrs", "read") /\ pool' = pool \cup {"phdrs"} /\ MapChanges
       /\ UNCHANGED <<display, mode, menuVars, imageVars, mapVars>>
    \/ Fails("read", both, {})
    \/ /\ Goes("read", "paging") /\ handles' = {} /\ pool' = pool \ {"phdrs"}
       /\ pages' = pages \cup {"kernel"} /\ whole' \in BOOLEAN /\ MapChanges
       /\ UNCHANGED <<display, mode, menuVars, path, mapVars>>

(* Protocols and volume; the file; its header, read and checked; the pool
   for the program headers; these, the extent of the segments and pages for
   them, at 2 MB or anywhere.  What is read into those pages is not checked:
   a short read leaves zeros.                                               *)
load_kernel_file ==
    \/ Fails("protocols", {}, {}) \/ Opens("protocols", "volume", {"root_dir"})
    \/ Fails("volume", {"root_dir"}, {}) \/ Opens("volume", "header", {"kernel_file"})
    \/ Fails("header", both, {}) \/ Opens("header", "phdrs", {})
    \/ Fails("phdrs", both, {})
    \/ Goes("phdrs", "read") /\ pool' = pool \cup {"phdrs"} /\ MapChanges
       /\ UNCHANGED <<display, mode, menuVars, imageVars, mapVars>>
    \/ Fails("read", both, {"phdrs"})
    \/ /\ Goes("read", "paging") /\ handles' = {} /\ pool' = pool \ {"phdrs"}
       /\ pages' = pages \cup {"kernel"} /\ whole' \in BOOLEAN /\ MapChanges
       /\ UNCHANGED <<display, mode, menuVars, path, mapVars>>

-----------------------------------------------------------------------------
(* setup_kernel_page_tables: twelve pages, or none. *)
setup_kernel_page_tables ==
    /\ at = "paging"
    /\ \/ at' = "failed" /\ UNCHANGED pages /\ MapStays
       \/ at' = "buffer" /\ pages' = pages \cup {"tables"} /\ MapChanges
    /\ UNCHANGED <<display, mode, menuVars, path, handles, whole, pool, mapVars>>

(* EfiMain: room for the memory map, ... *)
AllocatePool ==
    /\ at = "buffer"
    /\ \/ at' = "failed" /\ UNCHANGED <<capacity, pool>> /\ MapStays
       \/ /\ at' = "map" /\ pool' = pool \cup {"mmap"}
          /\ capacity' = IF capacity = 0 THEN FirstBuffer ELSE capacity
          /\ MapChanges
    /\ UNCHANGED <<display, mode, menuVars, imageVars, map_key, memory_map>>

(* ... the map, for which the buffer may be too small; what is reported to
   the kernel is set at once; another failure ends the loader ...           *)
GetMemoryMap ==
    /\ at = "map"
    /\ \/ /\ descs > capacity /\ at' = "buffer"
          /\ pool' = pool \ {"mmap"} /\ capacity' = descs + Slack /\ MapChanges
          /\ UNCHANGED <<map_key, memory_map>>
       \/ /\ descs <= capacity /\ at' = "exit"
          /\ map_key' = version /\ memory_map' = version
          /\ UNCHANGED <<pool, capacity>> /\ MapStays
       \/ at' = "failed" /\ UNCHANGED <<pool, mapVars>> /\ MapStays
    /\ UNCHANGED <<display, mode, menuVars, imageVars>>

(* Bug: after a failure the map is not read again. *)
ExitBootServices_Stubborn ==
    /\ at = "exit"
    /\ at' = IF map_key = version \/ version = MaxVersion THEN "kernel" ELSE "exit"
    /\ UNCHANGED <<display, mode, menuVars, imageVars, pool, version, descs, mapVars>>

(* ... and the end of the firmware's services, then the kernel's tables and
   its entry point.                                                         *)
ExitBootServices ==
    /\ at = "exit"
    /\ at' = IF map_key = version THEN "kernel" ELSE "map"
    /\ UNCHANGED <<display, mode, menuVars, imageVars, pool, version, descs, mapVars>>

(* The firmware's own timers allocate and free. *)
FirmwareEvent == /\ at \in {"map", "exit"} /\ MapChanges
                 /\ UNCHANGED <<at, display, mode, menuVars, imageVars, pool, mapVars>>

LoaderNext == \/ gop_init \/ ui_run_boot_menu \/ load_kernel_file
              \/ setup_kernel_page_tables \/ AllocatePool \/ GetMemoryMap
              \/ ExitBootServices \/ FirmwareEvent

LoaderSpec == LoaderInit /\ [][LoaderNext]_loaderVars

-----------------------------------------------------------------------------

(* However many names fail, and wherever, nothing stays open when the next is
   tried, the loader gives up or the kernel runs, and of the pool nothing is
   left but the map and the answer for the wanted mode.  The map the kernel
   gets is the one at the end of the firmware's services, with the kernel and
   its tables in it, and its memory was not given back.  The countdown boots
   the first entry: any key has stopped it (gop_init, load_kernel_file,
   EfiMain, ui_run_boot_menu).                                              *)
HandsOver ==
    /\ at \in {"protocols", "failed", "paging", "kernel"} =>
          handles = {} /\ pool \subseteq {"mmap", "info"}
    /\ at \in {"protocols", "paging"} => "mmap" \notin pool
    /\ "info" \in pool => \E i \in DOMAIN display : display[i] = Target
    /\ at = "kernel" => /\ memory_map = version /\ "mmap" \in pool
                       /\ pages \ {"back"} = {"kernel", "tables"}
    /\ timer_active /\ at # "menu" => selected_index = 0

=============================================================================
