-------------------------------- MODULE Ps2 --------------------------------
(***************************************************************************)
(* The input driver (kernel/drivers/ps2.c): a mouse and a keyboard behind  *)
(* one controller, read byte by byte.  The driver waits a while for each   *)
(* answer of the mouse while it sets it up, then kmain's loop polls.       *)
(***************************************************************************)
EXTENDS Integers, Sequences, FiniteSets, SequencesExt

CONSTANTS ScreenW, ScreenH,
          MousePacket,         (* what the mouse may send: triples of bytes      *)
          ScanCode,       (* what the keyboard may send                     *)
          MaxPackets, MaxKeys   (* bounds                                   *)

Byte == 0 .. 255
Bit(b, n) == (b \div 2^n) % 2 = 1

(* A packet's first byte has bit 3 set: the mouse's protocol has it so. *)
ASSUME Ps2Assumption == /\ ScreenW \in Nat \ {0} /\ ScreenH \in Nat \ {0}
                        /\ MaxPackets \in Nat /\ MaxKeys \in Nat
                        /\ MousePacket \subseteq [1 .. 3 -> Byte]
                        /\ \A p \in MousePacket : Bit(p[1], 3)
                        /\ ScanCode \subseteq Byte

VARIABLES wire,            (* what the controller holds: [aux, b]           *)
          ps2_stage,       (* what ps2_init waits for                       *)
          g_mouse_packet,  (* the bytes so far; its length is g_mouse_cycle *)
          g_mouse,         (* x, y and the left button                      *)
          g_shift_state,
          unanswered,            (* commands the mouse has not answered           *)
          packets, moved,  (* history: sent by the mouse, made out          *)
          keys, typed,     (* history: sent by the keyboard, read           *)
          clean            (* history: ps2_init has read nothing but answers *)

ps2Vars == <<wire, ps2_stage, g_mouse_packet, g_mouse, g_shift_state, unanswered,
             packets, moved, keys, typed, clean>>

Ack == 250                 (* 0xFA, with bit 3 set *)

(* ps2_init has put the pointer in the middle, turned the mouse on and sent
   it the first of two commands.                                            *)
Ps2Init ==
    /\ wire = << >> /\ ps2_stage = "defaults" /\ g_mouse_packet = << >>
    /\ g_mouse = [x |-> ScreenW \div 2, y |-> ScreenH \div 2, left |-> FALSE]
    /\ g_shift_state = FALSE /\ unanswered = 1
    /\ packets = << >> /\ moved = << >> /\ keys = << >> /\ typed = << >> /\ clean = TRUE

(* The mouse answers a command, in its own time. *)
MouseAnswers ==
    /\ unanswered > 0 /\ unanswered' = unanswered - 1
    /\ wire' = Append(wire, [aux |-> TRUE, b |-> Ack])
    /\ UNCHANGED <<ps2_stage, g_mouse_packet, g_mouse, g_shift_state, packets, moved,
                   keys, typed, clean>>

(* ps2_mouse_read takes whatever byte comes first, or gives up waiting and
   reads what is not there; then the next command, or the end.              *)
ps2_mouse_read ==
    /\ ps2_stage # "polling"
    /\ IF wire = << >> THEN clean' = FALSE /\ UNCHANGED wire
       ELSE /\ clean' = (clean /\ Head(wire) = [aux |-> TRUE, b |-> Ack])
            /\ wire' = Tail(wire)
    /\ ps2_stage' = IF ps2_stage = "defaults" THEN "stream" ELSE "polling"
    /\ unanswered' = IF ps2_stage = "defaults" THEN unanswered + 1 ELSE unanswered
    /\ UNCHANGED <<g_mouse_packet, g_mouse, g_shift_state, packets, moved, keys, typed>>

(* Once it has the second command the mouse sends packets of three bytes. *)
MouseMoves(p) ==
    /\ ps2_stage # "defaults" /\ unanswered = 0 /\ Len(packets) < MaxPackets
    /\ wire' = wire \o [i \in 1 .. 3 |-> [aux |-> TRUE, b |-> p[i]]]
    /\ packets' = Append(packets, p)
    /\ UNCHANGED <<ps2_stage, g_mouse_packet, g_mouse, g_shift_state, unanswered, moved,
                   keys, typed, clean>>

(* A key's byte may come between the bytes of the mouse's last packet. *)
KeyStruck(c) ==
    /\ Len(keys) < MaxKeys
    /\ \E later \in 0 .. 2 :
          /\ later <= Len(wire)
          /\ \A i \in Len(wire) - later + 1 .. Len(wire) : wire[i].aux
          /\ wire' = InsertAt(wire, Len(wire) - later + 1, [aux |-> FALSE, b |-> c])
    /\ keys' = Append(keys, c)
    /\ UNCHANGED <<ps2_stage, g_mouse_packet, g_mouse, g_shift_state, unanswered, packets,
                   moved, typed, clean>>

Clamp(v, size) == IF v < 0 THEN 0 ELSE IF v >= size THEN size - 1 ELSE v
Signed(b, negative) == IF negative THEN b - 256 ELSE b

(* What a packet does to the pointer. *)
Moved(p) == [x |-> Clamp(g_mouse.x + Signed(p[2], Bit(p[1], 4)), ScreenW),
             y |-> Clamp(g_mouse.y - Signed(p[3], Bit(p[1], 5)), ScreenH),
             left |-> Bit(p[1], 0)]

(* Bug: a key that comes between the bytes of a packet is taken for one. *)
ps2_poll_mouse_AnySource ==
    /\ ps2_stage = "polling" /\ wire # << >>
    /\ Head(wire).aux \/ Len(g_mouse_packet) > 0
    /\ wire' = Tail(wire)
    /\ LET b == Head(wire).b
           packet == Append(g_mouse_packet, b)
       IN  IF Len(packet) = 3
           THEN /\ g_mouse_packet' = << >> /\ g_mouse' = Moved(packet)
                /\ moved' = Append(moved, packet)
           ELSE /\ g_mouse_packet' = IF packet = <<b>> /\ ~Bit(b, 3) THEN << >> ELSE packet
                /\ UNCHANGED <<g_mouse, moved>>
    /\ UNCHANGED <<ps2_stage, g_shift_state, unanswered, packets, keys, typed, clean>>

(* ps2_poll_mouse takes a byte of the mouse; a first byte without bit 3 is
   dropped, and a third one ends the packet.                                *)
ps2_poll_mouse ==
    /\ ps2_stage = "polling" /\ wire # << >> /\ Head(wire).aux
    /\ wire' = Tail(wire)
    /\ LET b == Head(wire).b
           packet == Append(g_mouse_packet, b)
       IN  IF Len(packet) = 3
           THEN /\ g_mouse_packet' = << >> /\ g_mouse' = Moved(packet)
                /\ moved' = Append(moved, packet)
           ELSE /\ g_mouse_packet' = IF packet = <<b>> /\ ~Bit(b, 3) THEN << >> ELSE packet
                /\ UNCHANGED <<g_mouse, moved>>
    /\ UNCHANGED <<ps2_stage, g_shift_state, unanswered, packets, keys, typed, clean>>

(* ps2_poll_keyboard; the other keys with a state are like the shift keys. *)
ps2_poll_keyboard ==
    /\ ps2_stage = "polling" /\ wire # << >> /\ ~Head(wire).aux
    /\ wire' = Tail(wire)
    /\ LET c == Head(wire).b
       IN  /\ g_shift_state' = IF c % 128 \in {42, 54} THEN c < 128 ELSE g_shift_state
           /\ typed' = Append(typed, c)
    /\ UNCHANGED <<ps2_stage, g_mouse_packet, g_mouse, unanswered, packets, moved, keys, clean>>

Ps2Next == \/ MouseAnswers \/ ps2_mouse_read \/ ps2_poll_mouse \/ ps2_poll_keyboard
           \/ \E p \in MousePacket : MouseMoves(p)
           \/ \E c \in ScanCode : KeyStruck(c)

Ps2Spec == Ps2Init /\ [][Ps2Next]_ps2Vars

-----------------------------------------------------------------------------

(* The keys among the first n that were read which are still down. *)
Down == {k \in {42, 54} : \E i \in DOMAIN typed :
            typed[i] = k /\ \A j \in i + 1 .. Len(typed) : typed[j] # k + 128}

(* When the two answers came in time and first, the driver stays in step
   with the mouse however keys and packets mix on the wire: it makes out the
   packets that were sent, in order, and no key is lost.  At any rate the
   pointer stays on the screen, and shift is on only while a shift key is.  *)
PointerInStep ==
    /\ clean => IsPrefix(moved, packets) /\ IsPrefix(typed, keys)
    /\ g_mouse.x \in 0 .. ScreenW - 1 /\ g_mouse.y \in 0 .. ScreenH - 1
    /\ g_shift_state => Down # {}

=============================================================================
