------------------------------ MODULE PanelLog ------------------------------
(***************************************************************************)
(* services/panelmgr: the circular event log, on top of the message ring   *)
(* it announces its entries on.  An entry is its id; an entry read by      *)
(* panelmgr_get_log is read in one step, as in module GuiIpc.              *)
(***************************************************************************)
EXTENDS GuiIpc

CONSTANT LogSize   (* PANELMGR_LOG_RING_SIZE: 256 in the code               *)

ASSUME LogAssumption == LogSize \in Nat \ {0}

VARIABLES entries,    (* g_log_ring: the id in each slot, 0 if none yet     *)
          log_head,   (* g_log_head: the oldest entry                       *)
          log_count,  (* g_log_count                                        *)
          next_id     (* g_next_log_id                                      *)

logVars == <<entries, log_head, log_count, next_id>>

LogSlots == 0 .. LogSize - 1

LogInit == /\ RingInit
           /\ entries = [s \in LogSlots |-> 0]
           /\ log_head = 0
           /\ log_count = 0
           /\ next_id = 1

Advance(s) == (s + 1) % LogSize

(* Bug: the slot is chosen after the head has moved. *)
panelmgr_log_Late ==
    /\ log_head' = IF log_count < LogSize THEN log_head ELSE Advance(log_head)
    /\ log_count' = IF log_count < LogSize THEN log_count + 1 ELSE log_count
    /\ entries' = [entries EXCEPT ![(log_head' + log_count) % LogSize] = next_id]
    /\ next_id' = next_id + 1
    /\ gui_ipc_send

(* panelmgr_log: the entry, and a notification that announces it. *)
panelmgr_log ==
    /\ entries' = [entries EXCEPT ![(log_head + log_count) % LogSize] = next_id]
    /\ log_head' = IF log_count < LogSize THEN log_head ELSE Advance(log_head)
    /\ log_count' = IF log_count < LogSize THEN log_count + 1 ELSE log_count
    /\ next_id' = next_id + 1
    /\ gui_ipc_send

(* panelmgr_init, which panelmgr_thread calls and panelmgr.h asks others to
   call before it: the log is emptied and its first entry written.          *)
panelmgr_init ==
    /\ log_head' = 0
    /\ log_count' = 1
    /\ entries' = [entries EXCEPT ![0] = next_id]
    /\ next_id' = next_id + 1
    /\ gui_ipc_send

(* panelmgr_push_telemetry, and the steps of the ring's other users. *)
Others == RingNext /\ UNCHANGED logVars

LogNext == panelmgr_init \/ panelmgr_log \/ Others

LogSpec == LogInit /\ [][LogNext]_<<ringVars, logVars>>

(* panelmgr_get_log, asked for up to max entries. *)
panelmgr_get_log(max) ==
    [i \in 1 .. IF log_count < max THEN log_count ELSE max |->
        entries[((log_head + i) - 1) % LogSize]]

-----------------------------------------------------------------------------

(* The log holds the last entries written, without a gap and in order,
   wherever the head stands and however often the log was emptied.          *)
LogHoldsNewest ==
    LET all == panelmgr_get_log(LogSize)
    IN  \A i \in 1 .. log_count : all[i] = (next_id - log_count - 1) + i

=============================================================================
