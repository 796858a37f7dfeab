---------------------------- MODULE KernelLines ----------------------------
(***************************************************************************)
(* The kernel's messages on their way to a page: gui_ipc.c writes them to  *)
(* the serial port byte by byte, a line each; the pipe's end hands them to *)
(* the bridge of a shell in chunks of any length; the bridge puts the      *)
(* lines together again and forwards each (ipc_bridge.cjs of both shells). *)
(* The connection may be lost and made at any byte.                        *)
(*                                                                         *)
(* A byte is its number in what the kernel has written, so a gap or a line *)
(* put together from two shows.  All lines are of one length, the last     *)
(* byte of each being its end.  How connections are made and retried is in *)
(* RenderBridge and ShellBridge.                                           *)
(***************************************************************************)
EXTENDS Naturals, Sequences, FiniteSets, Ascending

CONSTANTS LineBytes,    (* bytes of a line                                  *)
          Lines,        (* what the lines written are, in their order       *)
          MaxLines,     (* bound: lines the kernel writes                   *)
          MaxConnects   (* bound: connections                               *)


VARIABLES bridge,       (* whose bridge it is: "render" or "desktop"        *)
          kind,         (* what each line is                                *)
          written,      (* the bytes written, over all connections          *)
          pipe,         (* bytes on the way to the bridge                   *)
          _connected,
          _buffer,      (* _buffer, _lineBuffer: the line not ended yet     *)
          forwarded,    (* history: the lines read, and what became of each *)
          first,        (* history: the first byte of the last connection   *)
          connects,     (* history: connections made                        *)
          quits         (* the first shell has been told to quit            *)

linesVars == <<bridge, kind, written, pipe, _connected, _buffer, forwarded, first, connects, quits>>

(* Messages with a type of the switch; power, which makes the first shell
   quit; with another type, or an object without one; what JSON.parse
   refuses (debug output, and a message that did not fit, cut by
   ipc_ring_push); blanks.                                                  *)
Kind == {"typed", "power", "other", "untyped", "text", "blank"}

ASSUME LinesAssumption == /\ LineBytes \in Nat \ {0}
                          /\ {MaxLines, MaxConnects} \subseteq Nat
                          /\ Lines \subseteq [1 .. MaxLines -> Kind]

LineOf(j) == ((j - 1) \div LineBytes) + 1
IsEnd(j) == j % LineBytes = 0

(* What a line with number n reads, without its end. *)
Whole(n) == [k \in 1 .. LineBytes - 1 |-> (n - 1) * LineBytes + k]

LinesInit ==
    /\ bridge \in {"render", "desktop"}
    /\ kind \in Lines
    /\ written = 0 /\ pipe = << >>
    /\ _connected = FALSE /\ _buffer = << >>
    /\ forwarded = << >> /\ first = 1 /\ connects = 0
    /\ quits = FALSE

(* Without a reader at the other end a byte is lost. *)
uart_putc ==
    /\ written < MaxLines * LineBytes
    /\ written' = written + 1
    /\ pipe' = IF _connected THEN Append(pipe, written + 1) ELSE pipe
    /\ UNCHANGED <<bridge, kind, _connected, _buffer, forwarded, first, connects, quits>>

(* Bug: the rest of a line cut by the last connection is kept. *)
on_connect_KeepsRest ==
    /\ ~ _connected /\ connects < MaxConnects
    /\ _connected' = TRUE
    /\ first' = written + 1
    /\ connects' = connects + 1
    /\ UNCHANGED <<bridge, kind, written, pipe, _buffer, forwarded, quits>>

on_connect ==
    /\ ~ _connected /\ connects < MaxConnects
    /\ _connected' = TRUE
    /\ _buffer' = << >>
    /\ first' = written + 1
    /\ connects' = connects + 1
    /\ UNCHANGED <<bridge, kind, written, pipe, forwarded, quits>>

(* What is on the way is lost with the connection; the buffer stays. *)
on_close ==
    /\ _connected
    /\ _connected' = FALSE
    /\ pipe' = << >>
    /\ UNCHANGED <<bridge, kind, written, _buffer, forwarded, first, connects, quits>>

(* JSON.parse accepts a line only if it is whole; trim() leaves nothing of
   blanks, or of a line of which only the end is there.                     *)
Says(line, k) == \E n \in 1 .. MaxLines : line = Whole(n) /\ kind[n] = k
IsBlank(line) == \A i \in DOMAIN line : kind[LineOf(line[i])] = "blank"

(* The channels the render engine's bridge puts a line on, ...  *)
_dispatchKernelEvent(line) ==
    IF IsBlank(line) \/ Says(line, "untyped") THEN {}
    ELSE IF Says(line, "typed") \/ Says(line, "power") THEN {"kernel:event", "its own"}
    ELSE IF Says(line, "other") THEN {"kernel:event", "kernel:misc"}
    ELSE {"ipc:log"}

(* ... and the first shell's. *)
_handleKernelMessage(line) ==
    IF IsBlank(line) THEN {}
    ELSE IF Says(line, "typed") \/ Says(line, "power") THEN {"its own"}
    ELSE IF Says(line, "other") \/ Says(line, "untyped") THEN {"kernel:raw"}
    ELSE {"kernel:log"}

Channels(line) == IF bridge = "render" THEN _dispatchKernelEvent(line)
                  ELSE _handleKernelMessage(line)

(* Where the lines of b end, and the text between two ends. *)
Ends(b) == Ascending({i \in DOMAIN b : IsEnd(b[i])})
EndBefore(b, k) == IF k = 1 THEN 0 ELSE Ends(b)[k - 1]
Line(b, k) == SubSeq(b, EndBefore(b, k) + 1, Ends(b)[k] - 1)

(* A chunk: its lines are forwarded, and the rest waits for the next. *)
on_data(n) ==
    /\ _connected /\ n \in 1 .. Len(pipe)
    /\ LET b == _buffer \o SubSeq(pipe, 1, n)
           lines == [k \in DOMAIN Ends(b) |-> [text |-> Line(b, k), on |-> Channels(Line(b, k))]]
       IN /\ _buffer' = SubSeq(b, EndBefore(b, Len(Ends(b)) + 1) + 1, Len(b))
          /\ forwarded' = forwarded \o lines
          /\ quits' = (quits \/ (bridge = "desktop" /\
                                   \E k \in DOMAIN lines : Says(lines[k].text, "power")))
    /\ pipe' = SubSeq(pipe, n + 1, Len(pipe))
    /\ UNCHANGED <<bridge, kind, written, _connected, first, connects>>

(* _handlePowerEvent: half a second later the application ends. *)
app_quit ==
    /\ quits /\ _connected
    /\ _connected' = FALSE /\ pipe' = << >>
    /\ connects' = MaxConnects
    /\ UNCHANGED <<bridge, kind, written, _buffer, forwarded, first, quits>>

LinesNext == uart_putc \/ on_connect \/ on_close \/ app_quit \/ \E n \in 1 .. Len(pipe) : on_data(n)

LinesSpec == LinesInit /\ [][LinesNext]_linesVars

-----------------------------------------------------------------------------
(* Through cut lines, lost connections and chunks of any length, what a page
   is told is what the kernel said: the text of a line is always the end of
   one line and never put together from two; of those cut at their beginning
   there is one at most for each connection; lines come in order and once;
   and no line that was written while the bridge was connected and has been
   read is missing.                                                         *)
LinesWhole ==
    /\ \A i \in DOMAIN forwarded : \A k \in DOMAIN forwarded[i].text :
          forwarded[i].text[k] =
             LineOf(forwarded[i].text[k]) * LineBytes - 1 - Len(forwarded[i].text) + k
    /\ \A i, j \in DOMAIN forwarded : i < j =>
          \A k \in DOMAIN forwarded[i].text, l \in DOMAIN forwarded[j].text :
             forwarded[i].text[k] < forwarded[j].text[l]
    /\ Cardinality({i \in DOMAIN forwarded : Len(forwarded[i].text) < LineBytes - 1}) <= connects
    /\ \A n \in 1 .. MaxLines :
          (n - 1) * LineBytes + 1 >= first /\ n * LineBytes <= written - Len(pipe) /\ _connected
             => \E i \in DOMAIN forwarded : forwarded[i].text = Whole(n)
=============================================================================
