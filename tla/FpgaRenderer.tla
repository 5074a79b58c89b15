---------------------------- MODULE FpgaRenderer -----------------------------
(***************************************************************************)
(* The FPGA's Chroni on the system clock (src/rtl/compy/chroni.v): when a  *)
(* line is to be rendered (render_block), the section of the display list  *)
(* it belongs to (dlproc), and its characters and tiles (char_gen and      *)
(* tile_gen): on the first line of a row the characters and their          *)
(* attributes are read into two buffers, and on every line the glyphs of   *)
(* the buffer are given to the line buffer.                                *)
(*                                                                         *)
(* One step is one edge of sys_clk.  The words of the display list are     *)
(* records of their fields, and dl_mode_*_addr are kept as their distance  *)
(* from dl_lms and dl_attr.  A byte of the screen stands for its address,  *)
(* and a byte of a glyph for the character it belongs to and its line.     *)
(***************************************************************************)
EXTENDS FpgaVga, SequencesExt

CONSTANTS
  Lists,      \* display lists, sequences of sections, for each of the modes
  CharLines   \* of a character and of a tile: eight

END == 15

VARIABLES
  list,         \* the display list VDLIST points at
  render,       \* render_block, with the edge detectors it feeds and reads
  dlproc,       \* the registers of dlproc
  vram          \* a read from the video memory takes two clocks: the address
                \* that was latched, and what is read

DisplayListInit ==
  /\ list \in Lists[mode]
  /\ render = [state |-> 15, flag |-> FALSE, buffer |-> 0,
               flag_prev |-> FALSE, start_prev |-> FALSE]
  /\ dlproc = [state |-> "IDLE", ptr |-> 1, mem_wait |-> 0, addr_part |-> 0,
               scroll_part |-> 0, mode |-> 0, scroll |-> FALSE, narrow |-> FALSE,
               scanlines |-> 0, lms |-> 0, attr |-> 0, offset |-> 0,
               width |-> 0, height |-> 0, left |-> 0, top |-> 0,
               fine_x |-> 0, fine_y |-> 0, cols |-> 0, pitch |-> 0,
               row_size |-> 0, vram_render |-> FALSE,
               trigger |-> FALSE, trigger_prev |-> FALSE, lms_changed |-> FALSE,
               report |-> FALSE, blank |-> FALSE, double_pixel |-> FALSE,
               read_dl |-> FALSE, dl_addr |-> 1]
  /\ vram = [latched |-> Blank, q |-> Blank]
-----------------------------------------------------------------------------
\* A section in the list: what it is and its length, where its screen and its
\* attributes are, and the size of the window, its position and the fine one.
SectionWords(s) ==
  <<s>> \o (IF s.mode \in {0, END} THEN <<>>
           ELSE <<s.lms>> \o (IF s.mode = 3 THEN <<>> ELSE <<s.attr>>)
                \o (IF s.scroll THEN <<s.size, s.position, s.fine>> ELSE <<>>))

Words == [l \in UNION {Lists[m] : m \in Modes} |-> FlattenSeq([k \in DOMAIN l |-> SectionWords(l[k])])]
-----------------------------------------------------------------------------
(* render_block *)

frame_start  == cross["frame_start"].signal
render_start == cross["render_start"].signal
scanline_start_rising == cross["scanline_start"].signal /\ ~render.start_prev
render_flag_rising == render.flag /\ ~render.flag_prev
trigger_rising == dlproc.trigger /\ ~dlproc.trigger_prev

render_block ==
  LET s    == render.state
      last == Repeats - 1
  IN
  render' =
    [IF frame_start THEN [render EXCEPT !.buffer = 0, !.flag = FALSE, !.state = 15]
     ELSE IF render_start THEN [render EXCEPT !.state = 0, !.flag = TRUE]
     ELSE IF ~scanline_start_rising \/ s = 15 THEN render
     ELSE [render EXCEPT
             !.state  = IF s = last THEN 0 ELSE s + 1,
             !.flag   = s \in {Repeats \div 2 - 1, last},
             !.buffer = IF s = last THEN 0 ELSE 1]
     EXCEPT !.flag_prev = render.flag,
            !.start_prev = cross["scanline_start"].signal]
-----------------------------------------------------------------------------
(* dlproc *)

\* The next line is asked for: of this section, or of the one that follows.
next_line(d) ==
  LET e == [d EXCEPT !.report = FALSE, !.blank = TRUE]
  IN  IF d.mode = END THEN [e EXCEPT !.state = "IDLE"]
      ELSE IF d.scanlines = 0 THEN [e EXCEPT !.state = "READ"]
      ELSE [e EXCEPT !.scanlines = d.scanlines - 1, !.trigger = d.vram_render,
                     !.blank = d.mode = 0]

\* The next word of the list is addressed, and there after three clocks.
address(d, state) ==
  [d EXCEPT !.dl_addr = d.ptr, !.ptr = d.ptr + 1, !.mem_wait = 2, !.state = state]

wait(d) == [d EXCEPT !.mem_wait = (d.mem_wait - 1) % 4]

instruction(d, word) ==
  [d EXCEPT !.scroll = word.scroll, !.narrow = word.narrow, !.mode = word.mode,
            !.scanlines = (word.count - 1) % 256,
            !.state = IF word.mode = 0 THEN "EXEC"
                      ELSE IF word.mode = END THEN "IDLE" ELSE "LMS"]

\* The address of the screen, and of the attributes unless it shows tiles.
lms_word(d, word) ==
  LET e == IF d.addr_part = 1 THEN [d EXCEPT !.lms = word] ELSE [d EXCEPT !.attr = word]
  IN  IF d.addr_part = 0 \/ d.mode = 3
      THEN [e EXCEPT !.report = TRUE, !.scroll_part = 0,
                     !.state = IF d.scroll THEN "SCROLL" ELSE "EXEC"]
      ELSE address([e EXCEPT !.addr_part = 0], "LMS_READ")

scroll_word(d, word) ==
  LET e == CASE d.scroll_part = 0 -> [d EXCEPT !.width = word.x, !.height = word.y]
             [] d.scroll_part = 1 -> [d EXCEPT !.left = word.x, !.top = word.y]
             [] d.scroll_part = 2 -> [d EXCEPT !.fine_x = word.x, !.fine_y = word.y]
  IN  [e EXCEPT !.scroll_part = d.scroll_part + 1,
                !.state = IF d.scroll_part = 2 THEN "EXEC" ELSE "SCROLL"]

\* Mode 1 has twice the columns of the others.
execute(d) ==
  LET e    == [d EXCEPT !.state = "PREPARE", !.read_dl = FALSE, !.blank = d.mode = 0]
      base == (IF d.narrow THEN mode.narrow_columns ELSE mode.columns) *
              (IF d.mode = 1 THEN 2 ELSE 1)
      cols == base + (IF d.fine_x # 0 THEN 1 ELSE 0)
      pitch == IF d.scroll THEN d.width ELSE cols
  IN  IF d.mode \notin 1 .. 3 THEN e
      ELSE [e EXCEPT !.cols = cols, !.pitch = pitch,
                     !.row_size = IF d.mode = 3 THEN pitch ELSE pitch \div 2,
                     !.double_pixel = d.mode # 1, !.vram_render = TRUE]

prepare(d) ==
  [d EXCEPT !.lms_changed = d.report, !.trigger = d.mode # 0,
            !.offset = IF d.scroll THEN d.row_size * d.top ELSE 0,
            !.state = "WAIT"]

Reading(d) == d.state \in {"READ_WAIT", "LMS_READ", "SCROLL_READ"}

read_word(d, word) ==
  CASE d.state = "READ_WAIT"   -> instruction(d, word)
    [] d.state = "LMS_READ"    -> lms_word(d, word)
    [] d.state = "SCROLL_READ" -> scroll_word(d, word)

fetch(d) ==
  CASE d.state = "READ" ->
         address([d EXCEPT !.vram_render = FALSE, !.read_dl = TRUE], "READ_WAIT")
    [] d.state = "LMS"     -> address([d EXCEPT !.addr_part = 1], "LMS_READ")
    [] d.state = "SCROLL"  -> address(d, "SCROLL_READ")
    [] d.state = "EXEC"    -> execute(d)
    [] d.state = "PREPARE" -> prepare(d)
    [] Reading(d) /\ d.mem_wait # 0 -> wait(d)
    [] Reading(d) /\ d.mem_wait = 0 -> read_word(wait(d), Words[list][vram.q[2]])
    [] OTHER -> d

dlproc_clock ==
  LET d == [dlproc EXCEPT !.trigger = FALSE, !.lms_changed = FALSE,
                          !.trigger_prev = dlproc.trigger]
  IN
  dlproc' = IF frame_start
            THEN [d EXCEPT !.ptr = 1, !.read_dl = FALSE, !.state = "IDLE", !.mode = 0,
                           !.scanlines = 0, !.double_pixel = FALSE]
            ELSE IF render_flag_rising THEN next_line(d) ELSE fetch(d)
-----------------------------------------------------------------------------
(* char_gen *)

VARIABLE text            \* the registers of char_gen

\* A block memory with a register before and after it: a read takes two clocks.
\* Its address may pass its depth: nothing is kept there.
Spram(depth) ==
  [address |-> 0, we |-> FALSE, data |-> Blank, latched |-> 0, q |-> Blank,
   words |-> [k \in 0 .. depth - 1 |-> Blank]]

spram_clock(b) ==
  [b EXCEPT !.latched = b.address, !.we = FALSE,
            !.q = IF b.latched \in DOMAIN b.words THEN b.words[b.latched] ELSE Blank,
            !.words = [k \in DOMAIN @ |-> IF b.we /\ k = b.address THEN b.data ELSE @[k]]]

\* As many words as the widest line has columns of its mode, and none for the
\* column that a fine scroll adds.
TextDepth == 2 * mode.columns
TileDepth == mode.columns

TextInit ==
  text = [state |-> "IDLE", mem_wait |-> 0, vram_addr |-> <<"screen", 0, 0>>,
          char_addr |-> 0, attr_addr |-> 0, load_char |-> 0, load_attr |-> 0,
          char_origin |-> 0, attr_origin |-> 0, scanline |-> 0,
          char_wrap |-> 0, attr_wrap |-> 0, row_wrap |-> 0,
          char_index |-> 0, attr_index |-> 0, chars |-> Spram(TextDepth), attrs |-> Spram(TextDepth),
          char_attr |-> Blank, next |-> Blank, bit_first |-> 0, bit_last |-> 0,
          index |-> 0, data |-> Blank, wr_en |-> FALSE, wr_first |-> 0, wr_last |-> 0]

is_text_mode == dlproc.mode < 3

\* Bytes of the screen, and of the glyphs, and the words they are read in.
Screen(a)   == <<"screen", a, 0>>
Glyph(c, l) == <<"glyph", c, l>>
Odd(a)      == (IF a[1] = "screen" THEN a[2] ELSE a[3]) % 2
WordOf(a)   == IF a[1] = "screen" THEN <<"screen", a[2] \div 2, 0>>
               ELSE <<"glyph", a[2], a[3] \div 2>>

\* The byte of the word that was read, by the address that is there by now.
vram_chroni_rd_byte ==
  LET odd == Odd(text.vram_addr)
      w   == vram.q
  IN  IF w[1] = "screen" THEN <<"screen", 2 * w[2] + odd, 0>>
      ELSE <<"glyph", w[2], 2 * w[3] + odd>>

\* Columns, or rows, until the window starts over.
Wrap(size, position) == IF dlproc.scroll THEN (size - position - 1) % 256 ELSE 255
-----------------------------------------------------------------------------
\* A line begins, in a new section at the position of its window.
start_text(t) ==
  LET d     == dlproc
      reads == t.scanline = 0 \/ d.lms_changed
      char0 == 2 * (d.lms + d.offset)
      attr0 == 2 * (d.attr + d.offset)
      s == [t EXCEPT !.char_index = 0, !.attr_index = 0,
                     !.index = render.buffer * mode.half_line,
                     !.state = IF reads THEN "TEXT_READ" ELSE "FONT_READ",
                     !.mem_wait = IF reads THEN 3 ELSE 2,
                     !.bit_first = 8 - d.fine_x, !.bit_last = 0,
                     !.char_wrap = Wrap(d.width, d.left),
                     !.attr_wrap = Wrap(d.width, d.left)]
  IN  IF d.lms_changed
      THEN [s EXCEPT !.char_origin = char0, !.attr_origin = attr0,
                     !.load_char = char0 + d.left, !.char_addr = char0 + d.left,
                     !.load_attr = attr0 + d.left, !.attr_addr = attr0 + d.left,
                     !.scanline = d.fine_y, !.row_wrap = Wrap(d.height, d.top)]
      ELSE [s EXCEPT !.char_addr = t.load_char, !.attr_addr = t.load_attr]

Waits(t) == [t EXCEPT !.mem_wait = (t.mem_wait - 1) % 4]

read_chars(t) ==
  LET wraps == t.char_wrap = 0
      s == [t EXCEPT !.vram_addr = Screen(t.char_addr),
                     !.char_addr = IF wraps THEN t.char_origin ELSE t.char_addr + 1,
                     !.char_wrap = IF wraps THEN Wrap(dlproc.width, 0) ELSE @ - 1]
      last == t.char_index = dlproc.cols - 1
  IN  IF t.mem_wait # 0 THEN Waits(s)
      ELSE [s EXCEPT !.chars.address = t.char_index, !.chars.we = TRUE,
                     !.chars.data = vram_chroni_rd_byte,
                     !.char_index = IF last THEN 0 ELSE @ + 1,
                     !.mem_wait = IF last THEN 3 ELSE 0,
                     !.state = IF last THEN "ATTR_READ" ELSE @]

\* Unlike the characters, the attributes start over once only.
read_attrs(t) ==
  LET wraps == t.attr_wrap = 0
      s == [t EXCEPT !.vram_addr = Screen(t.attr_addr),
                     !.attr_addr = IF wraps THEN t.attr_origin ELSE t.attr_addr + 1,
                     !.attr_wrap = IF wraps THEN 255 ELSE @ - 1]
      last == t.attr_index = dlproc.cols - 1
  IN  IF t.mem_wait # 0 THEN Waits(s)
      ELSE [s EXCEPT !.attrs.address = t.attr_index, !.attrs.we = TRUE,
                     !.attrs.data = vram_chroni_rd_byte,
                     !.attr_index = IF last THEN 0 ELSE @ + 1,
                     !.mem_wait = IF last THEN 2 ELSE 0,
                     !.state = IF last THEN "FONT_READ" ELSE @]

\* The next character and its attribute are addressed in the buffers.
next_char(t) ==
  [t EXCEPT !.chars.address = t.char_index, !.char_index = @ + 1,
            !.attrs.address = t.attr_index, !.attr_index = @ + 1]

read_font(t) ==
  LET s == Waits(IF t.mem_wait = 2 THEN next_char(t) ELSE t)
  IN  IF t.mem_wait = 0 THEN [s EXCEPT !.state = "FONT_FETCH"] ELSE s

fetch_font(t) ==
  [next_char(t) EXCEPT !.vram_addr = Glyph(text.chars.q, t.scanline % CharLines),
                       !.char_attr = text.attrs.q,
                       !.state = "FONT_WAIT", !.mem_wait = 2]

wait_font(t) ==
  IF t.mem_wait = 0
  THEN [Waits(t) EXCEPT !.next = vram_chroni_rd_byte, !.state = "FONT_WRITE"]
  ELSE Waits(t)

write_font(t) ==
  [t EXCEPT !.data = [glyph |-> t.next, attr |-> t.char_attr], !.wr_en = TRUE,
            !.wr_first = t.bit_first, !.wr_last = t.bit_last, !.state = "FONT_DONE"]

next_row_NeverWraps(t) ==
  [t EXCEPT !.scanline = 0, !.char_origin = @ + dlproc.pitch,
            !.attr_origin = @ + dlproc.pitch, !.row_wrap = (@ - 1) % 256,
            !.load_char = @ + dlproc.pitch, !.load_attr = @ + dlproc.pitch]

\* The row below, or after the last row of the window its first.
next_row(t) ==
  LET d == dlproc
      s == [t EXCEPT !.scanline = 0]
  IN  IF t.row_wrap = 0
      THEN [s EXCEPT !.char_origin = 2 * d.lms, !.load_char = 2 * d.lms + d.left,
                     !.attr_origin = 2 * d.attr, !.load_attr = 2 * d.attr + d.left,
                     !.row_wrap = Wrap(d.height, 0)]
      ELSE [s EXCEPT !.char_origin = @ + d.pitch, !.load_char = @ + d.pitch,
                     !.attr_origin = @ + d.pitch, !.load_attr = @ + d.pitch,
                     !.row_wrap = @ - 1]

\* From the second character on all bits are drawn, and the last one gives
\* what the first has left out.
font_done(t) ==
  IF t.char_index = dlproc.cols + 1
  THEN IF t.scanline = CharLines - 1 THEN [next_row(t) EXCEPT !.state = "IDLE"]
       ELSE [t EXCEPT !.state = "IDLE", !.scanline = (@ + 1) % 256]
  ELSE [t EXCEPT !.state = "FONT_FETCH", !.index = @ + t.bit_first, !.bit_first = 8,
                 !.bit_last = IF t.char_index # dlproc.cols \/ dlproc.fine_x = 0
                              THEN 0 ELSE 8 - dlproc.fine_x]

generate_text(t, wr_busy) ==
  CASE t.state = "TEXT_READ"  -> read_chars(t)
    [] t.state = "ATTR_READ"  -> read_attrs(t)
    [] t.state = "FONT_READ"  -> read_font(t)
    [] t.state = "FONT_FETCH" -> fetch_font(t)
    [] t.state = "FONT_WAIT"  -> wait_font(t)
    [] t.state = "FONT_WRITE" -> IF wr_busy THEN t ELSE write_font(t)
    [] t.state = "FONT_DONE"  -> font_done(t)
    [] OTHER -> t

char_gen(wr_busy) ==
  LET t == [text EXCEPT !.chars = spram_clock(@), !.attrs = spram_clock(@),
                        !.wr_en = FALSE]
  IN
  text' = IF frame_start
          THEN [t EXCEPT !.state = "IDLE", !.scanline = 0, !.index = 0,
                         !.wr_first = 0, !.wr_last = 0]
          ELSE IF trigger_rising /\ is_text_mode THEN start_text(t)
          ELSE generate_text(t, wr_busy)
-----------------------------------------------------------------------------
(* The tiles (tile_gen): like the characters, but words of the screen that *)
(* say which tile and which palette, and two words of four pixels for each *)
(* line of a tile.                                                         *)

VARIABLE tile            \* the registers of tile_gen

TilesInit ==
  tile = [state |-> "IDLE", mem_wait |-> 0, vram_addr |-> <<"screen", 0, 0>>,
          addr |-> 0, load |-> 0, origin |-> 0, scanline |-> 0,
          wrap |-> 0, row_wrap |-> 0, buffer_index |-> 0, buffer |-> Spram(TileDepth),
          pixel_index |-> 0, pixel_offset |-> 0, palette |-> Blank,
          next |-> Blank, pixel_first |-> 0, pixel_last |-> 0,
          index |-> 0, data |-> Blank, wr_en |-> FALSE, wr_first |-> 0, wr_last |-> 0]

\* Four pixels of a line of a tile: its left or its right half.
TileWord(t, l, half) == <<"tile", t, 2 * l + half>>

start_tiles(t) ==
  LET d     == dlproc
      reads == t.scanline = 0 \/ d.lms_changed
      tile0 == d.lms + d.offset
      s == [t EXCEPT !.buffer_index = 0, !.index = render.buffer * mode.half_line,
                     !.state = IF reads THEN "SCREEN_READ" ELSE "TILE_READ",
                     !.mem_wait = IF reads THEN 3 ELSE 2,
                     !.pixel_first = 4 - (d.fine_x % 4), !.pixel_last = 0,
                     !.pixel_offset = d.fine_x \div 4,
                     !.wrap = Wrap(d.width, d.left)]
  IN  IF d.lms_changed
      THEN [s EXCEPT !.origin = tile0, !.load = tile0 + d.left, !.addr = tile0 + d.left,
                     !.scanline = d.fine_y, !.row_wrap = Wrap(d.height, d.top)]
      ELSE [s EXCEPT !.addr = t.load]

read_screen(t) ==
  LET wraps == t.wrap = 0
      s == [t EXCEPT !.vram_addr = Screen(t.addr),
                     !.addr = IF wraps THEN t.origin ELSE t.addr + 1,
                     !.wrap = IF wraps THEN Wrap(dlproc.width, 0) ELSE @ - 1]
      last == t.buffer_index = dlproc.cols - 1
  IN  IF t.mem_wait # 0 THEN Waits(s)
      ELSE [s EXCEPT !.buffer.address = t.buffer_index, !.buffer.we = TRUE,
                     !.buffer.data = vram.q,
                     !.buffer_index = IF last THEN 0 ELSE @ + 1,
                     !.mem_wait = IF last THEN 3 ELSE 0,
                     !.state = IF last THEN "TILE_READ" ELSE @]

\* The next tile of the buffer; only the first starts at its right half.
read_tile(t) ==
  LET s == Waits(t)
  IN  IF t.mem_wait = 2
      THEN [s EXCEPT !.buffer.address = t.buffer_index, !.buffer_index = @ + 1]
      ELSE IF t.mem_wait = 0
      THEN [s EXCEPT !.pixel_index = t.pixel_offset, !.pixel_offset = 0,
                     !.state = "TILE_FETCH"]
      ELSE s

fetch_tile(t) ==
  [t EXCEPT !.palette = tile.buffer.q,
            !.vram_addr = TileWord(tile.buffer.q, t.scanline % CharLines, t.pixel_index),
            !.state = "TILE_WAIT", !.mem_wait = 2]

wait_tile(t) ==
  IF t.mem_wait = 0
  THEN [Waits(t) EXCEPT !.next = vram.q, !.state = "TILE_WRITE"]
  ELSE Waits(t)

write_tile(t) ==
  [t EXCEPT !.data = [word |-> t.next, palette |-> t.palette], !.wr_en = TRUE,
            !.wr_first = t.pixel_first % 8, !.wr_last = t.pixel_last % 8,
            !.state = "TILE_NEXT"]

next_half(t) ==
  [t EXCEPT !.index = @ + t.pixel_first, !.pixel_first = 4,
            !.pixel_last = IF t.buffer_index # dlproc.cols \/ dlproc.fine_x = 0
                           THEN 0 ELSE (4 - dlproc.fine_x) % 16,
            !.state = IF t.pixel_index = 0 THEN "TILE_FETCH" ELSE "TILE_DONE",
            !.pixel_index = 1]

next_tile_row(t) ==
  LET d == dlproc
      s == [t EXCEPT !.scanline = 0]
  IN  IF t.row_wrap = 0
      THEN [s EXCEPT !.origin = d.lms, !.load = d.lms + d.left,
                     !.row_wrap = Wrap(d.height, 0)]
      ELSE [s EXCEPT !.origin = @ + d.pitch, !.load = @ + d.pitch, !.row_wrap = @ - 1]

tile_done(t) ==
  IF t.buffer_index # dlproc.cols + 1 THEN [t EXCEPT !.state = "TILE_READ"]
  ELSE IF t.scanline = CharLines - 1 THEN [next_tile_row(t) EXCEPT !.state = "IDLE"]
  ELSE [t EXCEPT !.state = "IDLE", !.scanline = (@ + 1) % 256]

generate_tiles(t, wr_busy) ==
  CASE t.state = "SCREEN_READ" -> read_screen(t)
    [] t.state = "TILE_READ"   -> read_tile(t)
    [] t.state = "TILE_FETCH"  -> fetch_tile(t)
    [] t.state = "TILE_WAIT"   -> wait_tile(t)
    [] t.state = "TILE_WRITE"  -> IF wr_busy THEN t ELSE write_tile(t)
    [] t.state = "TILE_NEXT"   -> next_half(t)
    [] t.state = "TILE_DONE"   -> tile_done(t)
    [] OTHER -> t

tile_gen(wr_busy) ==
  LET t == [tile EXCEPT !.buffer = spram_clock(@), !.wr_en = FALSE]
  IN
  tile' = IF frame_start
          THEN [t EXCEPT !.state = "IDLE", !.scanline = 0, !.index = 0,
                         !.wr_first = 0, !.wr_last = 0]
          ELSE IF trigger_rising /\ ~is_text_mode THEN start_tiles(t)
          ELSE generate_tiles(t, wr_busy)
=============================================================================
