----------------------------- MODULE DisplayList ----------------------------
(***************************************************************************)
(* The display list of Chroni (src/video/chroni.c): process_dl takes an    *)
(* instruction when the scanlines of the one before are used up, and       *)
(* do_scanline draws a scanline of the current section from a window that  *)
(* wraps in both directions.                                               *)
(*                                                                         *)
(* Addresses are abstracted to rows and pixel columns of the window, and   *)
(* dl_pos to the number of the instruction.  Modes 6 to 14, for which the  *)
(* tables of the source have no entry, are not listed, nor are windows     *)
(* that do not contain their position, and text windows of an odd width,   *)
(* whose rows do not start at a word of the video memory.                  *)
(***************************************************************************)
EXTENDS Integers, Sequences

CONSTANTS
  Lists,      (* the display lists of the program: sequences of            *)
              (* instructions, the last one an END                         *)
  Lines,      (* scanlines of a frame that are not border                  *)
  ScanWidth   (* pixels of a scanline                                      *)

Text     == {1, 2}
Tiles    == {3}
Bitmaps  == {4, 5}
Content  == Text \cup Tiles \cup Bitmaps
BlankSection == 0
END      == 15

\* An instruction that scrolls gives the size of its window and the position in
\* it, a byte each, and a fine position of three bits each.
Byte == 0 .. 255

PlainInstruction ==
  [mode : Content \cup {BlankSection, END}, count : Byte, scroll : {FALSE}]

ScrollInstruction ==
  [mode : Content \cup {BlankSection, END}, count : Byte, scroll : {TRUE},
   width : Byte \ {0}, height : Byte \ {0}, left : Byte, top : Byte,
   fine_x : 0 .. 7, fine_y : 0 .. 7]

InItsWindow(i) ==
  /\ i.left < i.width /\ i.top < i.height
  /\ i.mode \in Text => i.width % 2 = 0

Instruction ==
  PlainInstruction \cup {i \in ScrollInstruction : InItsWindow(i)}

ASSUME ListAssumption ==
  /\ Lines \in Nat /\ ScanWidth \in Nat
  /\ \A list \in Lists :
       /\ list \in Seq(Instruction)
       /\ Len(list) > 0 /\ list[Len(list)].mode = END

VARIABLES
  list,              (* the display list of this frame                     *)
  dl_pos,            (* the number of the next instruction                 *)
  dl_scanlines, dl_mode, dl_scroll,
  dl_mode_scanlines, dl_mode_scanline,
  row,               (* the row dl_mode_data_addr points at                *)
  dl_row_wrap,
  window,            (* dl_scroll_width, _height, _left, _top, _fine_x and *)
                     (* _fine_y                                            *)
  ypos,              (* the scanline of the frame                          *)
  pc,
  section,           (* history: the number of the instruction in effect   *)
  drawn              (* history: how many lines of it have been drawn      *)

sectionVars == <<dl_pos, dl_mode, dl_scroll, dl_mode_scanlines, window, section>>
rowVars     == <<dl_mode_scanline, row, dl_row_wrap, drawn>>
vars == <<list, sectionVars, dl_scanlines, rowVars, ypos, pc>>

Init ==
  /\ list \in Lists
  /\ dl_pos = 1 /\ dl_scanlines = 0
  /\ dl_mode = 0 /\ dl_scroll = FALSE
  /\ dl_mode_scanlines = 0 /\ dl_mode_scanline = 0
  /\ row = 0 /\ dl_row_wrap = 0
  /\ window = [width |-> 0, height |-> 0, left |-> 0, top |-> 0,
               fine_x |-> 0, fine_y |-> 0]
  /\ ypos = 0
  /\ pc = "back_porch"
  /\ section = 0 /\ drawn = 0

WORD == 65536

UINT8(n)  == n % 256
UINT16(n) == n % WORD
-----------------------------------------------------------------------------
(* process_dl *)

lines_per_mode(mode) == IF mode \in Bitmaps THEN 1 ELSE 8

\* The window of an instruction, in pixels for the bitmap modes.
Window(i) ==
  LET px == IF i.mode \in Bitmaps THEN 8 ELSE 1
      y  == px * i.top + (IF i.mode \in Bitmaps THEN i.fine_y ELSE 0)
      h  == px * i.height
  IN  [width |-> px * i.width, height |-> h, left |-> px * i.left,
       top |-> IF i.mode \in Bitmaps /\ y > h THEN y - h ELSE y,
       fine_x |-> i.fine_x, fine_y |-> i.fine_y]

\* The section starts at the top of its window, which wraps after its last
\* row; without a window it starts at its first row and does not wrap.
start_section(i) ==
  /\ dl_pos' = dl_pos + 1
  /\ dl_mode_scanlines' = lines_per_mode(i.mode) - 1
  /\ IF i.scroll
     THEN /\ window' = Window(i)
          /\ row' = window'.top
          /\ dl_mode_scanline' = IF i.mode \in Bitmaps THEN 0 ELSE i.fine_y
          /\ dl_row_wrap' = UINT16(window'.height - window'.top - 1)
     ELSE /\ row' = 0 /\ dl_mode_scanline' = 0 /\ dl_row_wrap' = WORD - 1
          /\ UNCHANGED window

Scanlines_OneMore(i) == IF i.mode = END THEN 0 ELSE i.count

\* The scanlines that follow this one: a count of zero stands for 65536.
Scanlines(i) == IF i.mode = END THEN 0 ELSE UINT16(i.count - 1)

\* A blank section, like the end of the list, leaves dl_pos where it is.
fetch(i) ==
  /\ dl_mode' = i.mode /\ dl_scroll' = i.scroll
  /\ dl_scanlines' = Scanlines(i)
  /\ section' = dl_pos /\ drawn' = 0
  /\ IF i.mode \in Content THEN start_section(i)
     ELSE UNCHANGED <<dl_pos, dl_mode_scanlines, window, dl_mode_scanline, row,
                      dl_row_wrap>>

process_dl ==
  IF dl_scanlines > 0
  THEN dl_scanlines' = dl_scanlines - 1 /\ UNCHANGED <<sectionVars, rowVars>>
  ELSE fetch(list[dl_pos])

chroni_scanline_back_porch ==
  /\ pc = "back_porch" /\ pc' = "display"
  /\ process_dl
  /\ UNCHANGED <<list, ypos>>
-----------------------------------------------------------------------------
(* do_scanline *)

\* The pixels that one fetch from VRAM gives.
Unit == IF dl_mode = 4 THEN 4 ELSE IF dl_mode = 5 THEN 2 ELSE 8

\* The pixel of its unit that the first pixel of the line is.
pixel_offset == IF dl_mode \in Bitmaps THEN (window.left + window.fine_x) % Unit
                ELSE window.fine_x

first_unit ==
  IF ~dl_scroll THEN 0
  ELSE IF dl_mode \in Bitmaps THEN (window.left + window.fine_x) \div Unit
  ELSE window.left

line_wrap_OneMore ==
  IF dl_scroll /\ dl_mode \in Bitmaps
  THEN UINT16(window.width - window.left - window.fine_x)
  ELSE UINT8(window.width - window.left)

\* line_wrap before the first fetch: an unscrolled line of tiles has 0.
line_wrap ==
  IF dl_scroll /\ dl_mode \in Bitmaps
  THEN UINT16(window.width - window.left - window.fine_x - 1)
  ELSE IF dl_scroll THEN UINT8(window.width - window.left - 1)
  ELSE IF dl_mode \in Bitmaps THEN WORD - 1
  ELSE IF dl_mode \in Tiles THEN 0 ELSE 255

\* What a fetch takes off line_wrap, and line_wrap where the line starts over.
wrap_step == IF dl_mode \in Bitmaps THEN Unit ELSE 1
full_wrap == IF dl_mode \in Bitmaps THEN UINT16(window.width - 1)
             ELSE UINT8(window.width - 1)

\* Units[k]: the unit that fetch k takes, and line_wrap before it.
Units ==
  LET Fetches == 0 .. (pixel_offset + ScanWidth) \div Unit
      f[k \in Fetches] ==
        IF k = 0 THEN [unit |-> first_unit, wrap |-> line_wrap]
        ELSE LET last == f[k - 1]
             IN  IF last.wrap >= wrap_step
                 THEN [unit |-> last.unit + 1, wrap |-> last.wrap - wrap_step]
                 ELSE [unit |-> 0, wrap |-> full_wrap]
  IN  f

\* The columns of the window that the pixels of the line show.
Columns ==
  LET units == Units
  IN  [x \in 0 .. ScanWidth - 1 |->
         LET p == pixel_offset + x
         IN  Unit * units[p \div Unit].unit + (p % Unit)]

next_row_WrapsLate ==
  IF dl_row_wrap > 0
  THEN row' = row + 1 /\ dl_row_wrap' = dl_row_wrap - 1
  ELSE row' = 0 /\ dl_row_wrap' = window.height

next_row ==
  IF dl_row_wrap > 0
  THEN row' = row + 1 /\ dl_row_wrap' = dl_row_wrap - 1
  ELSE row' = 0 /\ dl_row_wrap' = window.height - 1

\* With Chroni disabled do_scanline returns, and the section stays where it is.
do_scanline ==
  \/ UNCHANGED rowVars
  \/ /\ dl_mode \in Content
     /\ drawn' = drawn + 1
     /\ IF dl_mode_scanline = dl_mode_scanlines
        THEN next_row /\ dl_mode_scanline' = 0
        ELSE /\ dl_mode_scanline' = UINT8(dl_mode_scanline + 1)
             /\ UNCHANGED <<row, dl_row_wrap>>

chroni_scanline_display ==
  /\ pc = "display"
  /\ do_scanline
  /\ ypos' = ypos + 1
  /\ pc' = IF ypos' = Lines THEN "frame_start" ELSE "back_porch"
  /\ UNCHANGED <<list, sectionVars, dl_scanlines>>

\* The program has a display list ready when a frame starts.
chroni_frame_start ==
  /\ pc = "frame_start" /\ pc' = "back_porch"
  /\ list' \in Lists
  /\ dl_pos' = 1 /\ dl_scanlines' = 0
  /\ ypos' = 0
  /\ UNCHANGED <<dl_mode, dl_scroll, dl_mode_scanlines, window, section, rowVars>>

Next ==
  chroni_scanline_back_porch \/ chroni_scanline_display \/ chroni_frame_start

Spec == Init /\ [][Next]_vars
-----------------------------------------------------------------------------
(* Properties *)

Drawing == pc = "display" /\ dl_mode \in Content
Current == list[section]

\* The scanlines an instruction asks for.
Asked(i) == IF i.count = 0 THEN WORD ELSE i.count

\* The scanlines a list gives to the sections before section k.
Before(sections) ==
  LET f[k \in 1 .. Len(sections)] ==
        IF k = 1 THEN 0 ELSE f[k - 1] + Asked(sections[k - 1])
  IN  f

\* Each scanline belongs to the section the list gives it to, and the end of
\* the list to all that remain, unless a blank section has come before.
SectionsKeepTheirLines ==
  pc = "display" /\ Current.mode # BlankSection =>
    /\ ypos >= Before(list)[section]
    /\ Current.mode # END => ypos < Before(list)[section + 1]

\* The line of the window that is drawn, counted from its first.
WindowLine ==
  drawn + (IF Current.scroll THEN 8 * Current.top + Current.fine_y ELSE 0)

\* The row and the line in it are those of the line of the window.
RowsFollow ==
  Drawing =>
    LET n    == lines_per_mode(dl_mode)
        rows == IF ~Current.scroll THEN WORD ELSE Current.height * (8 \div n)
    IN  /\ row = (WindowLine \div n) % rows
        /\ dl_mode_scanline = WindowLine % n

\* The pixels of a scrolled line are those of the window from its position on.
ColumnsFollow ==
  Drawing /\ dl_scroll =>
    LET columns == Columns
    IN  \A x \in DOMAIN columns :
          columns[x] =
            (8 * Current.left + Current.fine_x + x) % (8 * Current.width)

\* However a section starts in its window, and whenever Chroni is disabled,
\* its lines follow each other and wrap after the last row, and its pixels
\* start over at the left edge, in every mode and fine position.
LinesFollowTheWindow == RowsFollow /\ ColumnsFollow
=============================================================================
