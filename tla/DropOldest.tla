----------------------------- MODULE DropOldest -----------------------------
(***************************************************************************)
(* What a bounded event queue of the kernel promises (the outbound queue   *)
(* of kernel/gui/gui_ipc.c, the log of services/panelmgr): it never        *)
(* refuses a message; when it is full the oldest one is dropped; what is   *)
(* left comes out in the order in which it was sent.                       *)
(*                                                                         *)
(* Messages are numbered in the order in which they are sent.              *)
(***************************************************************************)
EXTENDS Naturals, Sequences

CONSTANTS Cap,      (* messages the queue can hold                          *)
          MaxSent   (* bound: messages sent in a behaviour                  *)

ASSUME CapAssumption == Cap \in Nat \ {0} /\ MaxSent \in Nat

VARIABLES q,      (* the messages held, oldest first                        *)
          sent,   (* the number of the last message sent                    *)
          out     (* the messages delivered, in the order of delivery       *)

queueVars == <<q, sent, out>>

QueueTypeOK == /\ q \in Seq(Nat)
               /\ sent \in Nat
               /\ out \in Seq(Nat)

QueueInit == q = << >> /\ sent = 0 /\ out = << >>

(* Bug: the newest message held is dropped in place of the oldest. *)
Room_DropsNewest == IF Len(q) < Cap THEN q ELSE SubSeq(q, 1, Cap - 1)

(* Bug: one message more is held than there is room for. *)
Room_OneMore == IF Len(q) <= Cap THEN q ELSE Tail(q)

(* The messages held once there is room for another. *)
Room == IF Len(q) < Cap THEN q ELSE Tail(q)

Put == /\ sent < MaxSent
       /\ sent' = sent + 1
       /\ q' = Append(Room, sent')
       /\ UNCHANGED out

(* Bug: a drain delivers and forgets to empty the queue. *)
Drain_Keeps == /\ out' = out \o q
               /\ UNCHANGED <<q, sent>>

Drain == /\ out' = out \o q
         /\ q' = << >>
         /\ UNCHANGED sent

Clear == /\ q' = << >>
         /\ UNCHANGED <<sent, out>>

QueueNext == Put \/ Drain \/ Clear

QueueSpec == QueueInit /\ [][QueueNext]_queueVars

-----------------------------------------------------------------------------

(* The queue holds the most recent messages, without a gap and in order:
   what was dropped is older than everything that is held.                  *)
HoldsNewest == /\ Len(q) <= Cap
               /\ Len(q) <= sent
               /\ \A i \in 1 .. Len(q) : q[i] = (sent - Len(q)) + i

(* Delivery is in the order of sending, without a duplicate, and nothing
   delivered is still held.                                                 *)
InOrder == /\ \A i, j \in 1 .. Len(out) : i < j => out[i] < out[j]
           /\ \A i \in 1 .. Len(out) : out[i] <= sent - Len(q)

=============================================================================
