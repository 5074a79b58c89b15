----------------------------- MODULE FpgaChroni -----------------------------
(***************************************************************************)
(* The FPGA's Chroni as a whole (src/rtl/compy/chroni.v): the display      *)
(* list, the characters, the tiles and the line buffer on the system       *)
(* clock, the monitor on its own clock, and between them the handshakes    *)
(* and the two halves of the line buffer.                                  *)
(***************************************************************************)
EXTENDS FpgaRenderer

VARIABLE lead     \* by how much sys_clk is ahead

vars == <<mode, vga, pixel, cross, list, render, dlproc, vram, text, tile,
          line_buffer, line, lead>>

Init ==
  /\ VgaInit /\ DisplayListInit /\ TextInit /\ TilesInit
  /\ LineBufferInit(0 .. 2 * mode.half_line - 1, Blank)
  /\ lead = 0

\* What the generator of the section asks the line buffer to write.
pixel_out ==
  LET g == IF is_text_mode THEN text ELSE tile
  IN  [wr_en |-> g.wr_en, data |-> g.data, addr |-> g.index,
       bitmap_first |-> text.wr_first, bitmap_last |-> text.wr_last,
       tile_first |-> tile.wr_first, tile_last |-> tile.wr_last]

vram_chroni_addr ==
  IF dlproc.read_dl THEN <<"list", dlproc.dl_addr, 0>>
  ELSE IF is_text_mode THEN WordOf(text.vram_addr) ELSE tile.vram_addr

\* The two clocks have no phase in common, but neither gets ahead of the other
\* by more than its own period.
Ahead(ticks) ==
  /\ lead' = lead + ticks
  /\ -mode.sys_ticks <= lead' /\ lead' <= mode.vga_ticks

SysClock ==
  /\ Ahead(mode.vga_ticks)
  /\ dst_clock
  /\ render_block
  /\ dlproc_clock
  /\ char_gen(line_buffer.wr_busy)
  /\ tile_gen(line_buffer.wr_busy)
  /\ line_buffer_clock(pixel_out)
  /\ vram' = [latched |-> vram_chroni_addr, q |-> vram.latched]
  /\ UNCHANGED <<mode, vga, pixel, list>>

VgaClock ==
  /\ Ahead(-mode.sys_ticks)
  /\ vga_clock(dlproc.blank, dlproc.double_pixel, dlproc.narrow, line)
  /\ UNCHANGED <<list, render, dlproc, vram, text, tile, line_buffer, line>>

Next == SysClock \/ VgaClock

Spec == Init /\ [][Next]_vars /\ WF_vars(Next)
-----------------------------------------------------------------------------
(* What the display list says. *)

Content == 1 .. 3

\* The section of line k, and which of its lines it is; a count of 0 is 256.
SectionOf(m, l) ==
  LET Count(s) == IF s.mode = END THEN 1000 ELSE IF s.count = 0 THEN 256 ELSE s.count
      at[k \in 0 .. m.lines - 1] ==
        IF k = 0 THEN [section |-> 1, line |-> 0]
        ELSE LET before == at[k - 1]
             IN  IF before.line + 1 < Count(l[before.section])
                 THEN [before EXCEPT !.line = @ + 1]
                 ELSE [section |-> before.section + 1, line |-> 0]
  IN  at

\* The pixel at column x of line n of a section, as the emulator draws it
\* (DisplayList): rows and columns follow the window and start over at its
\* edges.  The attributes of the FPGA start over once, and then go on.
SectionPixel(m, s, n, x) ==
  LET fine   == IF s.scroll THEN s.fine ELSE [x |-> 0, y |-> 0]
      pitch  == IF s.scroll THEN s.size.x
                ELSE (IF s.narrow THEN m.narrow_columns ELSE m.columns)
                     * (IF s.mode = 1 THEN 2 ELSE 1)
      row    == IF s.scroll
                THEN (s.position.y + (n + fine.y) \div CharLines) % s.size.y
                ELSE (n + fine.y) \div CharLines
      below  == (n + fine.y) % CharLines
      cell   == (x + fine.x) \div 8
      right  == (x + fine.x) % 8
      column == IF s.scroll THEN (s.position.x + cell) % s.size.x ELSE cell
      wide   == IF s.scroll /\ s.position.x + cell >= s.size.x
                THEN s.position.x + cell - s.size.x
                ELSE IF s.scroll THEN s.position.x + cell ELSE cell
      char   == Screen(2 * s.lms + pitch * row + column)
      attr   == Screen(2 * s.attr + pitch * row + wide)
      word   == Screen(s.lms + pitch * row + column)
  IN  IF s.mode = 3
      THEN TilePixel([data |-> [word |-> TileWord(word, below, right \div 4),
                                palette |-> word],
                      shift |-> right % 4])
      ELSE BitmapPixel([data |-> [glyph |-> Glyph(char, below), attr |-> attr],
                        first |-> 8 - right])

Width(m, s) ==
  (IF s.narrow THEN m.narrow_columns ELSE m.columns) * (IF s.mode = 1 THEN 16 ELSE 8)

\* The column that a fine scroll adds to a line has no word in the buffers when
\* the line fills them: what it shows is left to the memory.
Buffered(m, s, x) ==
  (x + (IF s.scroll THEN s.fine.x ELSE 0)) \div 8
    < (IF s.mode = 3 THEN m.columns ELSE 2 * m.columns)
Anything == [any |-> TRUE]

Picture ==
  [m \in Modes |-> [l \in Lists[m] |->
     LET at == SectionOf(m, l)
     IN  [k \in 0 .. m.lines - 1 |->
            LET s == l[at[k].section]
            IN  IF s.mode \notin Content THEN <<>>
                ELSE [x \in 1 .. Width(m, s) |->
                                IF Buffered(m, s, x - 1)
                                THEN SectionPixel(m, s, at[k].line, x - 1)
                                ELSE Anything]]]]

CurrentLine ==
  Picture[mode][list][(vga.y_cnt - mode.v_pf_start) \div (Repeats \div 2)]

\* Each scanline of the playfield shows the line that the list gives it, whole
\* and from its section's window, or the border where there is none, while the
\* next line is being written and whatever the phase of the two clocks.  The
\* column a fine scroll adds to eighty characters or forty tiles is left out.
ShowsTheList ==
  vga.h_pf /\ vga.v_pf =>
    /\ vga.display_scanline = (CurrentLine # <<>>)
    /\ vga.display_scanline =>
         LET p == CurrentLine[(vga.x_cnt - h_pf_start - 1) \div (scale_x + 1) + 1]
         IN  p = Anything \/ pixel.out = p

\* Frames start again and again: no request of a handshake is lost for good.
FramesStart == []<>frame_start /\ []<>~frame_start /\ []<>render_start

=============================================================================
