----------------------------- MODULE DebugShell -----------------------------
(***************************************************************************)
(* The kernel shell (kernel/exec/kshell.c): it asks for the desktop shell, *)
(* waits a while for it, then serves a debugger on the second serial line, *)
(* which hands it characters one by one and whenever they come.            *)
(***************************************************************************)
EXTENDS Naturals, Sequences, FiniteSets

CONSTANTS Patience,       (* looks for the desktop: 100, one per 100 ms     *)
          MaxLen,         (* sizeof(pkt_buf): 1024, the last for its end    *)
          Data,           (* what the debugger's packets hold               *)
          MaxPacketsSent  (* bound                                          *)

Letter == UNION {{d[i] : i \in DOMAIN d} : d \in Data}

ASSUME DebugShellAssumption ==
    /\ Patience \in Nat /\ MaxLen \in Nat \ {0, 1} /\ MaxPacketsSent \in Nat
    /\ Data \subseteq Seq(Letter) /\ {"$", "#"} \cap Letter = {}

VARIABLES kshell_at,       (* "settling", "waiting", "idle", "in packet"     *)
          wait_ms,         (* in hundreds                                    *)
          g_gui_ready,
          connected,       (* gui_ipc_is_connected                           *)
          com2,            (* characters that have come and were not read    *)
          debugger,        (* the characters it has still to send            *)
          pkt_buf,
          gdb_sent, handled,   (* history: packets sent, packets handled         *)
          acks             (* history                                        *)

kshellVars == <<kshell_at, wait_ms, g_gui_ready, connected, com2, debugger, pkt_buf,
                gdb_sent, handled, acks>>
guiVars == <<wait_ms, g_gui_ready, connected>>
packetVars == <<com2, debugger, pkt_buf, gdb_sent, handled, acks>>

(* kshell_init has set the line up. *)
KshellInit ==
    /\ kshell_at = "settling" /\ wait_ms = 0 /\ g_gui_ready = FALSE /\ connected = FALSE
    /\ com2 = << >> /\ debugger = << >> /\ pkt_buf = << >>
    /\ gdb_sent = << >> /\ handled = << >> /\ acks = 0

(* After half a second kshell_boot_electron asks for the desktop. *)
kshell_init == /\ kshell_at = "settling" /\ kshell_at' = "waiting"
               /\ UNCHANGED <<guiVars, packetVars>>

Connects == ~connected /\ connected' = TRUE
            /\ UNCHANGED <<kshell_at, wait_ms, g_gui_ready, packetVars>>

(* It looks whether the desktop is there, a bounded number of times. *)
kshell_boot_electron ==
    /\ kshell_at = "waiting"
    /\ IF connected /\ wait_ms < Patience
       THEN g_gui_ready' = TRUE /\ kshell_at' = "idle" /\ UNCHANGED wait_ms
       ELSE IF wait_ms < Patience
       THEN wait_ms' = wait_ms + 1 /\ UNCHANGED <<g_gui_ready, kshell_at>>
       ELSE kshell_at' = "idle" /\ UNCHANGED <<wait_ms, g_gui_ready>>
    /\ UNCHANGED <<connected, packetVars>>

(* The debugger starts its next packet when the last one was acknowledged. *)
Sends(d) ==
    /\ debugger = << >> /\ acks = Len(gdb_sent) /\ Len(gdb_sent) < MaxPacketsSent
    /\ debugger' = <<"$">> \o d \o <<"#", "sum", "sum">>
    /\ gdb_sent' = Append(gdb_sent, d)
    /\ UNCHANGED <<kshell_at, guiVars, com2, pkt_buf, handled, acks>>

CharArrives == /\ debugger # << >>
               /\ com2' = Append(com2, Head(debugger)) /\ debugger' = Tail(debugger)
               /\ UNCHANGED <<kshell_at, guiVars, pkt_buf, gdb_sent, handled, acks>>

(* gdb_recv_packet outside a packet passes over what is not a "$"; without
   a character the shell sleeps and comes again.                            *)
FindStart ==
    /\ kshell_at = "idle" /\ com2 # << >>
    /\ com2' = Tail(com2)
    /\ kshell_at' = IF Head(com2) = "$" THEN "in packet" ELSE "idle"
    /\ pkt_buf' = << >>
    /\ UNCHANGED <<guiVars, debugger, gdb_sent, handled, acks>>

(* The two characters of the sum are read without waiting for them. *)
AfterSum(line) == SubSeq(line, 3, Len(line))

(* The packet is over: acknowledged, and handled unless it is empty. *)
gdb_handle_packet(line) ==
    /\ com2' = AfterSum(line)
    /\ acks' = acks + 1
    /\ handled' = IF pkt_buf = << >> THEN handled ELSE Append(handled, pkt_buf)
    /\ kshell_at' = "idle"
    /\ UNCHANGED <<guiVars, debugger, pkt_buf, gdb_sent>>

(* Bug: a character that is late ends the packet. *)
gdb_recv_packet_Hasty ==
    /\ kshell_at = "in packet"
    /\ \/ Len(pkt_buf) = MaxLen - 1 /\ gdb_handle_packet(com2)
       \/ com2 = << >> /\ gdb_handle_packet(com2)
       \/ /\ Len(pkt_buf) < MaxLen - 1 /\ com2 # << >>
          /\ \/ Head(com2) = "#" /\ gdb_handle_packet(Tail(com2))
             \/ /\ Head(com2) # "#"
                /\ pkt_buf' = Append(pkt_buf, Head(com2)) /\ com2' = Tail(com2)
                /\ UNCHANGED <<kshell_at, guiVars, debugger, gdb_sent, handled, acks>>

(* Inside a packet it waits for each character; a full buffer ends the
   packet too, wherever it is.                                              *)
gdb_recv_packet ==
    /\ kshell_at = "in packet"
    /\ \/ Len(pkt_buf) = MaxLen - 1 /\ gdb_handle_packet(com2)
       \/ /\ Len(pkt_buf) < MaxLen - 1 /\ com2 # << >>
          /\ \/ Head(com2) = "#" /\ gdb_handle_packet(Tail(com2))
             \/ /\ Head(com2) # "#"
                /\ pkt_buf' = Append(pkt_buf, Head(com2)) /\ com2' = Tail(com2)
                /\ UNCHANGED <<kshell_at, guiVars, debugger, gdb_sent, handled, acks>>

KshellNext == \/ kshell_init \/ Connects \/ kshell_boot_electron
              \/ CharArrives \/ FindStart \/ gdb_recv_packet
              \/ \E d \in Data : Sends(d)

KshellSpec == KshellInit /\ [][KshellNext]_kshellVars

-----------------------------------------------------------------------------

(* What is handled of a packet. *)
Cut(d) == IF Len(d) < MaxLen THEN d ELSE SubSeq(d, 1, MaxLen - 1)

(* However slowly characters come, and wherever a packet is cut or the end
   of one is read late, the shell handles the packets that were sent, once
   each and in order, and acknowledges no packet that was not sent.         *)
PacketsHandled ==
    /\ acks <= Len(gdb_sent)
    /\ \A k \in DOMAIN handled : \E i \in DOMAIN gdb_sent :
          /\ gdb_sent[i] # << >> /\ handled[k] = Cut(gdb_sent[i])
          /\ Cardinality({j \in 1 .. i : gdb_sent[j] # << >>}) = k

=============================================================================
