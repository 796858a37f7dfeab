-------------------------------- MODULE Vbe --------------------------------
(***************************************************************************)
(* The framebuffer driver of the boot splash (kernel/drivers/gpu/vbe.c).   *)
(* A cell is one pixel of the back buffer or of the screen; a row has      *)
(* `stride' cells, of which `width' can be seen.  Coordinates are 32-bit   *)
(* and wrap at Word.  Sizes are scaled: a glyph is GlyphW by GlyphH.       *)
(***************************************************************************)
EXTENDS Naturals, Sequences, SequencesExt, FiniteSets

CONSTANTS Word,          (* 2^32                                            *)
          Storage,       (* cells of g_back_storage: 1920 * 1080            *)
          Mode,          (* screens: width, height and cells of a row       *)
          GlyphW, GlyphH,(* 8 and 16 in the code                            *)
          BarW,          (* the splash's progress bar: 400 wide ...         *)
          BarH,          (* ... and 10 high                                 *)
          Status,        (* lengths of a status line                        *)
          MaxDrawings    (* bound: calls                                    *)

ASSUME VbeAssumption == /\ {Word, Storage, GlyphW, GlyphH, BarW, BarH} \subseteq Nat \ {0}
                        /\ \A m \in Mode : m.width \in 1 .. m.stride /\ m.height \in Nat \ {0}
                        /\ Status \subseteq Nat /\ MaxDrawings \in Nat

VARIABLES fbMode,          (* the screen the boot loader chose                *)
          vbe_ready,
          back,          (* the back buffer, or the screen itself           *)
          screen,
          strayed,       (* history: a cell outside the back buffer written *)
          hidden,        (* history: a cell right of the screen drawn on    *)
          drawings       (* bounds the calls                                *)

vbeVars == <<fbMode, vbe_ready, back, screen, strayed, hidden, drawings>>

Dark == "dark"
Ink == "ink"

Cells == 0 .. fbMode.stride * fbMode.height - 1
(* vbe_init draws on the screen itself when the storage is too small; it
   counts the pixels that can be seen.                                      *)
Buffered == fbMode.width * fbMode.height <= Storage
BackSize == IF Buffered THEN Storage ELSE fbMode.stride * fbMode.height

VbeInit ==
    /\ fbMode \in Mode
    /\ vbe_ready = FALSE
    /\ back = [i \in Cells |-> Dark]
    /\ screen = [i \in Cells |-> "firmware"]
    /\ strayed = FALSE /\ hidden = FALSE
    /\ drawings = 0

-----------------------------------------------------------------------------
(* What the drawing calls write: sets of pixels <<x, y>>. *)

Plus(a, b)  == (a + b) % Word
Minus(a, b) == (a + Word - b) % Word

(* vbe_put_pixel leaves out what is not on the screen. *)
vbe_put_pixel(x, y) == {p \in {<<x, y>>} : x < fbMode.width /\ y < fbMode.height}

(* Bug: a corner on the screen is enough. *)
vbe_fill_rect_Unclipped(x, y, w, h) ==
    IF x >= fbMode.width \/ y >= fbMode.height THEN {}
    ELSE {<<x + i, y + j>> : i \in 0 .. w - 1, j \in 0 .. h - 1}

(* vbe_fill_rect, and vbe_fill_gradient alike, cut the rectangle at the
   right and at the bottom.                                                 *)
vbe_fill_rect(x, y, w, h) ==
    LET cutW == IF Plus(x, w) > fbMode.width THEN fbMode.width - x ELSE w
        cutH == IF Plus(y, h) > fbMode.height THEN fbMode.height - y ELSE h
    IN  IF x >= fbMode.width \/ y >= fbMode.height THEN {}
        ELSE {<<x + i, y + j>> : i \in 0 .. cutW - 1, j \in 0 .. cutH - 1}

vbe_draw_rect_outline(x, y, w, h, thickness) ==
    vbe_fill_rect(x, y, w, thickness)
    \cup vbe_fill_rect(x, Minus(Plus(y, h), thickness), w, thickness)
    \cup vbe_fill_rect(x, y, thickness, h)
    \cup vbe_fill_rect(Minus(Plus(x, w), thickness), y, thickness, h)

(* The pixels a glyph may set: which of them depends on the character. *)
vbe_draw_glyph(x, y) ==
    UNION {vbe_put_pixel(Plus(x, i), Plus(y, j)) : i \in 0 .. GlyphW - 1, j \in 0 .. GlyphH - 1}

(* A string of one line, of `length' characters. *)
vbe_draw_string(x, y, length) ==
    UNION {vbe_draw_glyph(Plus(x, i * GlyphW), y) : i \in 0 .. length - 1}

CellOf(p) == p[2] * fbMode.stride + p[1]

(* Drawing on the back buffer, which is the screen when it is not buffered. *)
Draw(picture, pixels) ==
    [i \in Cells |-> IF i \in {CellOf(p) : p \in pixels} THEN Ink ELSE picture[i]]
Strays(pixels) == \E p \in pixels : CellOf(p) >= fbMode.stride * fbMode.height \/ CellOf(p) >= BackSize
Hides(pixels) == \E p \in pixels : p[1] >= fbMode.width

(* vbe_clear fills whole rows. *)
Cleared == [i \in Cells |-> Dark]
ClearStrays == fbMode.stride * fbMode.height > BackSize

(* vbe_present copies all rows. *)
Shown(picture) == screen' = picture

-----------------------------------------------------------------------------
(* vbe_init is called once, for a framebuffer. *)
vbe_init ==
    /\ ~vbe_ready
    /\ vbe_ready' = TRUE
    /\ back' = Cleared
    /\ Shown(Cleared)
    /\ strayed' = ClearStrays
    /\ UNCHANGED <<fbMode, hidden, drawings>>

Draws(pixels) ==
    /\ vbe_ready /\ drawings < MaxDrawings
    /\ drawings' = drawings + 1
    /\ strayed' = (strayed \/ Strays(pixels))
    /\ hidden' = (hidden \/ Hides(pixels))
    /\ UNCHANGED <<fbMode, vbe_ready>>

(* One of the drawing calls; the screen shows it at once when there is no
   back buffer.                                                             *)
DrawOne(pixels) ==
    /\ Draws(pixels)
    /\ back' = Draw(back, pixels)
    /\ IF Buffered THEN UNCHANGED screen ELSE Shown(back')

DrawSomething ==
    \E x \in 0 .. Word - 1, y \in {0, fbMode.height - 1, fbMode.height, Word - 1} :
       \/ \E w \in 0 .. fbMode.width + 1, h \in {1, fbMode.height} : DrawOne(vbe_fill_rect(x, y, w, h))
       \/ DrawOne(vbe_draw_glyph(x, y))

vbe_present ==
    /\ vbe_ready
    /\ Shown(back)
    /\ UNCHANGED <<fbMode, vbe_ready, back, strayed, hidden, drawings>>

(* vbe_draw_boot_splash: two titles, the bar with its frame, `filled' of it,
   and a status line, around the middle of the screen.                      *)
Splash(filled, status) ==
    LET cx == fbMode.width \div 2
        cy == fbMode.height \div 2
        barX == Minus(cx, BarW \div 2)
        Centred(length) == Minus(cx, (length * GlyphW) \div 2)
    IN  vbe_draw_string(Centred(5), Minus(cy, 3 * GlyphH), 5)
        \cup vbe_draw_string(Centred(4), Minus(cy, 2 * GlyphH), 4)
        \cup vbe_draw_rect_outline(Minus(barX, 1), Minus(cy + 1, 1), BarW + 2, BarH + 2, 1)
        \cup vbe_fill_rect(barX, cy + 1, BarW, BarH)
        \cup vbe_fill_rect(barX, cy + 1, filled, BarH)
        \cup vbe_draw_string(Centred(status), cy + 1 + 2 * GlyphH, status)

vbe_draw_boot_splash ==
    \E filled \in 0 .. BarW, status \in Status :
       LET pixels == Splash(filled, status) IN
       /\ Draws(pixels)
       /\ back' = Draw(Cleared, pixels)
       /\ Shown(back')

(* vbe_draw_panic, in the upper left corner. *)
vbe_draw_panic ==
    LET pixels == vbe_draw_string(1, 1, 5) \cup vbe_draw_string(1, 1 + GlyphH, 4) IN
    /\ Draws(pixels)
    /\ back' = Draw(Cleared, pixels)
    /\ Shown(back')

VbeNext == vbe_init \/ DrawSomething \/ vbe_present \/ vbe_draw_boot_splash \/ vbe_draw_panic

VbeSpec == VbeInit /\ [][VbeNext]_vbeVars

-----------------------------------------------------------------------------
(* However small the screen and wherever coordinates wrap to, nothing is
   drawn outside of the buffer or right of the screen - provided the rows
   fit in the storage: vbe_init compares the pixels that can be seen with
   it, and a screen with longer rows may need more.                         *)
DrawnInside ==
    /\ ~hidden
    /\ strayed => Buffered /\ fbMode.stride * fbMode.height > Storage
=============================================================================
