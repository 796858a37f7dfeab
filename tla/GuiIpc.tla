------------------------------- MODULE GuiIpc -------------------------------
(***************************************************************************)
(* kernel/gui/gui_ipc.c: the ring of messages on their way to the desktop  *)
(* shell, and when it is emptied, reset and filled.  Formatting is left    *)
(* out: a message is its number in the order of sending.                   *)
(*                                                                         *)
(* A call is one step: the ring is used by kernel threads only, and a      *)
(* thread leaves the processor in scheduler calls only, of which gui_ipc.c *)
(* makes none.                                                             *)
(***************************************************************************)
EXTENDS Naturals, Sequences

CONSTANTS RingSize,  (* IPC_RING_SIZE: 64 in the code                       *)
          MaxSent    (* bound: messages sent in a behaviour                 *)

ASSUME RingAssumption == RingSize \in Nat /\ RingSize >= 2 /\ MaxSent \in Nat

VARIABLES ring,      (* g_ring: the message in each slot, 0 if none yet     *)
          head,      (* g_ring_head: the next message to write out          *)
          tail,      (* g_ring_tail: the next slot to fill                  *)
          connected, (* g_connected                                         *)
          sent,      (* messages pushed so far                              *)
          out        (* what has been written to the serial port            *)

ringVars == <<ring, head, tail, connected, sent, out>>

Slots == 0 .. RingSize - 1

RingTypeOK == /\ ring \in [Slots -> Nat]
          /\ head \in Slots
          /\ tail \in Slots
          /\ connected \in BOOLEAN
          /\ sent \in Nat
          /\ out \in Seq(Nat)

(* The static initialisers. *)
RingInit == /\ ring = [s \in Slots |-> 0]
        /\ head = 0
        /\ tail = 0
        /\ connected = FALSE
        /\ sent = 0
        /\ out = << >>

(* Bug: the ring is taken to be one slot longer than it is. *)
Wrapped_Long(i) == i % (RingSize + 1)

Wrapped(i) == i % RingSize

Succ(s) == Wrapped(s + 1)

(* Bug: no slot is kept free, so a full ring looks empty. *)
ipc_ring_push_NoGap ==
    /\ sent < MaxSent
    /\ sent' = sent + 1
    /\ ring' = [ring EXCEPT ![tail] = sent']
    /\ tail' = Succ(tail)
    /\ UNCHANGED <<head, connected, out>>

(* A message goes to the slot at the tail, over the oldest if need be. *)
ipc_ring_push ==
    /\ sent < MaxSent
    /\ sent' = sent + 1
    /\ head' = IF Succ(tail) = head THEN Succ(head) ELSE head
    /\ ring' = [ring EXCEPT ![tail] = sent']
    /\ tail' = Succ(tail)
    /\ UNCHANGED <<connected, out>>

(* The messages of a ring r from slot h up to, and not including, slot t. *)
Count(h, t) == IF h <= t THEN t - h ELSE (t + RingSize) - h

Between(r, h, t) == [i \in 1 .. Count(h, t) |-> r[Wrapped((h + i) - 1)]]

Queued == Between(ring, head, tail)

(* gui_ipc_tick, which kmain calls in its loop, after gui_ipc_init: the
   messages from head up to tail are written out (ipc_ring_flush).          *)
gui_ipc_tick ==
    /\ connected
    /\ out' = out \o Queued
    /\ head' = tail
    /\ UNCHANGED <<ring, tail, connected, sent>>

(* gui_ipc_init, called once by kmain. *)
gui_ipc_init ==
    /\ ~ connected
    /\ head' = 0
    /\ tail' = 0
    /\ connected' = TRUE
    /\ UNCHANGED <<ring, sent, out>>

(* gui_ipc_send_mouse_event, _key_event, _window_event, _service_event,
   _rtos_event, _notification and _raw: each formats a line and pushes it.  *)
gui_ipc_send == ipc_ring_push

RingNext == gui_ipc_send \/ gui_ipc_tick \/ gui_ipc_init

RingSpec == RingInit /\ [][RingNext]_ringVars

-----------------------------------------------------------------------------

(* The ring is a queue that drops the oldest of RingSize - 1 messages: the
   indices never make it look empty when it is full, write out a slot twice
   or skip one, wherever they stand and however often they wrap.            *)
Fifo == INSTANCE DropOldest WITH Cap <- RingSize - 1, q <- Queued

ImplementsFifo == Fifo!QueueSpec

=============================================================================
