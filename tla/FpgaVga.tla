------------------------------- MODULE FpgaVga -------------------------------
(***************************************************************************)
(* The side of the FPGA's Chroni that runs on the clock of the monitor     *)
(* (src/rtl/compy/vga_output.v): it counts the pixels and the scanlines,   *)
(* tells the other clock when a frame, the rendering and a scanline start, *)
(* and shows the half of the line buffer that is not being written.  The   *)
(* other half is written on the clock of the system                        *)
(* (chroni_line_buffer.v): it takes eight pixels of a character or four of *)
(* a tile in one clock, and stores one in each of the following.           *)
(*                                                                         *)
(* One step is one edge of a clock; what is not named in a step keeps its  *)
(* value, as a register does.  A pixel is what it was read from.           *)
(***************************************************************************)
EXTENDS Integers

CONSTANT Modes
  \* The geometries of chroni_vga_modes.vh, each with its clock: sys_ticks of
  \* sys_clk take as long as vga_ticks of vga_clk.  columns and narrow_columns
  \* are the characters of 16 pixels of a scanline, half_line the pixels of
  \* each half of the line buffer, and lines those of the playfield.

VARIABLES
  mode,     \* the geometry, and whether it scales
  vga,      \* the registers of vga_output.v
  pixel,    \* the pixel on its way through the line buffer and the palette
  cross,    \* crossclock_handshake: the requests, their signals and answers
  line_buffer, \* the registers of chroni_line_buffer.v
  line         \* the pixels, in both halves

Handshakes == {"frame_start", "render_start", "scanline_start"}

Blank == <<"blank", 0, 0>>

VgaInit ==
  /\ mode \in Modes
  /\ vga = [x_cnt |-> 1, y_cnt |-> 1, frame_start |-> FALSE,
            scanline_end |-> FALSE, h_pf |-> FALSE, h_pf_pix |-> FALSE,
            v_pf |-> FALSE, narrow |-> FALSE, double_pixel |-> FALSE,
            output_state |-> 15, output_buffer |-> 0, display_scanline |-> FALSE,
            index |-> 0, pixel_x_dbl |-> 0]
  /\ pixel = [address |-> 0, q |-> Blank, color |-> Blank, out |-> Blank]
  /\ cross = [h \in Handshakes |->
                [req |-> FALSE, pipe |-> FALSE, signal |-> FALSE,
                 back |-> FALSE, ack |-> FALSE]]
-----------------------------------------------------------------------------
(* crossclock_handshake.v *)

busy(h) == cross[h].req \/ cross[h].ack

\* The flip-flops on either side take what the other side last held.
src_clock(req) ==
  cross' = [h \in Handshakes |->
              [cross[h] EXCEPT !.req = req[h], !.ack = cross[h].back,
                               !.back = cross[h].signal]]

dst_clock ==
  cross' = [h \in Handshakes |->
              [cross[h] EXCEPT !.signal = cross[h].pipe, !.pipe = cross[h].req]]
-----------------------------------------------------------------------------
(* vga_output.v *)

starts_rendering ==
  /\ vga.scanline_end /\ ~busy("render_start")
  /\ vga.y_cnt = mode.v_pf_start - 2

Asks ==
  [h \in Handshakes |->
     CASE h = "frame_start"  -> vga.frame_start /\ ~busy(h)
       [] h = "render_start" -> starts_rendering
       [] h = "scanline_start" ->
            vga.scanline_end /\ ~starts_rendering /\ ~busy(h)]

Keeps_Forever(h) == cross[h].req

\* A request goes away with its answer; at the end of a scanline none does.
Keeps(h) ==
  cross[h].req /\ ~(cross[h].ack /\ (h = "frame_start" \/ ~vga.scanline_end))

\* A signal that is set at one count and reset at another.
Between(on, count, first, last) ==
  IF count = first THEN TRUE ELSE IF count = last THEN FALSE ELSE on

h_pf_start == IF vga.narrow THEN mode.h_pf_start_narrow ELSE mode.h_pf_start
h_pf_end   == IF vga.narrow THEN mode.h_pf_end_narrow ELSE mode.h_pf_end

\* The scanlines of two lines of the playfield, one from each half.
Repeats == IF mode.scale THEN 8 ELSE 4

scale_x ==
  IF vga.double_pixel THEN IF mode.scale THEN 3 ELSE 1
  ELSE IF mode.scale THEN 1 ELSE 0

output_block_HalfLate ==
  LET s    == vga.output_state
      last == Repeats - 1
  IN  IF vga.y_cnt = mode.v_pf_end THEN [vga EXCEPT !.output_state = 15]
      ELSE IF vga.y_cnt = mode.v_pf_start - 1
      THEN [vga EXCEPT !.output_state = 0, !.output_buffer = 0]
      ELSE IF s = 15 THEN vga
      ELSE [vga EXCEPT
              !.output_state  = IF s = last THEN 0 ELSE s + 1,
              !.output_buffer = IF s = last THEN 0
                                ELSE IF s = Repeats \div 2 THEN 1 ELSE @]

\* The half of the line buffer changes after half of the output states.
output_block ==
  LET s    == vga.output_state
      last == Repeats - 1
  IN  IF vga.y_cnt = mode.v_pf_end THEN [vga EXCEPT !.output_state = 15]
      ELSE IF vga.y_cnt = mode.v_pf_start - 1
      THEN [vga EXCEPT !.output_state = 0, !.output_buffer = 0]
      ELSE IF s = 15 THEN vga
      ELSE [vga EXCEPT
              !.output_state  = IF s = last THEN 0 ELSE s + 1,
              !.output_buffer = IF s = last THEN 0
                                ELSE IF s = Repeats \div 2 - 1 THEN 1 ELSE @]

\* The pixels of a line; outside the playfield the first of the half to show.
pixel_counter ==
  IF ~(vga.h_pf_pix /\ vga.v_pf) THEN <<vga.output_buffer * mode.half_line, 0>>
  ELSE IF vga.pixel_x_dbl = scale_x THEN <<vga.index + 1, 0>>
  ELSE <<vga.index, vga.pixel_x_dbl + 1>>

vga_clock(blank_scanline, double_pixel, narrow, pixels) ==
  LET v == IF vga.scanline_end THEN output_block ELSE vga
      x == vga.x_cnt
      y == vga.y_cnt
      n == pixel_counter
  IN
  /\ vga' = [v EXCEPT
       !.x_cnt = IF vga.scanline_end THEN 1 ELSE x + 1,
       !.y_cnt = IF ~vga.scanline_end THEN y
                 ELSE IF y = mode.v_total THEN 1 ELSE y + 1,
       !.frame_start = x = 1 /\ y = 1,
       !.scanline_end = x = mode.h_total - 1,
       !.narrow = IF x = 1 THEN narrow ELSE @,
       !.h_pf = Between(@, x, h_pf_start, h_pf_end),
       !.h_pf_pix = Between(@, x, h_pf_start - 4, h_pf_end - 4),
       !.v_pf = Between(@, y, mode.v_pf_start, mode.v_pf_end),
       !.double_pixel = IF vga.scanline_end THEN double_pixel ELSE @,
       !.display_scanline = IF vga.scanline_end THEN ~blank_scanline ELSE @,
       !.index = n[1], !.pixel_x_dbl = n[2]]
  /\ pixel' = [address |-> vga.index, q |-> IF pixel.address \in DOMAIN pixels THEN pixels[pixel.address]
                                              ELSE Blank,
               color |-> pixel.q, out |-> pixel.color]
  /\ src_clock([h \in Handshakes |-> Asks[h] \/ Keeps(h)])
  /\ UNCHANGED mode
-----------------------------------------------------------------------------
(* chroni_line_buffer.v *)

LineBufferInit(addresses, blank) ==
  /\ line_buffer =
       [wr_busy |-> FALSE,
        bitmap |-> [data |-> blank, addr |-> 0, first |-> 0, last |-> 0],
        tile   |-> [data |-> blank, addr |-> 0, first |-> 0, last |-> 0,
                    skip |-> 0, shift |-> 0],
        wr_en |-> FALSE, wr_addr |-> 0, wr_data |-> blank]
  /\ line = [a \in addresses |-> blank]

\* Bit of a character and nibble of a word of a tile: what the pixel is.
BitmapPixel(b) == [char |-> b.data, bit |-> b.first - 1]
TilePixel(t)   == [word |-> t.data, nibble |-> t.shift]

Store(lb, addr, data) ==
  [lb EXCEPT !.wr_en = TRUE, !.wr_addr = addr, !.wr_data = data]

next_bitmap(lb) ==
  LET b == lb.bitmap
  IN  [Store(lb, b.addr, BitmapPixel(b)) EXCEPT
         !.bitmap.addr = b.addr + 1, !.bitmap.first = b.first - 1,
         !.wr_busy = TRUE]

\* The nibbles that are skipped take a clock, too.
next_tile(lb) ==
  LET t       == lb.tile
      shifted == [lb EXCEPT !.tile.shift = t.shift + 1, !.wr_busy = TRUE]
  IN  IF t.skip > 0 THEN [shifted EXCEPT !.tile.skip = t.skip - 1]
      ELSE [Store(shifted, t.addr, TilePixel(t)) EXCEPT
              !.tile.addr = t.addr + 1, !.tile.first = (t.first - 1) % 8]

\* What it is asked to write: out.bitmap and out.tile are the ports of the
\* two generators.  A character counts whenever wr_bitmap_first is not zero.
write_pixels(lb, out) ==
  LET idle == [lb EXCEPT !.wr_busy = FALSE]
  IN
  IF out.wr_en /\ out.bitmap_first # 0
  THEN [lb EXCEPT !.wr_busy = TRUE,
          !.bitmap = [data |-> out.data, addr |-> out.addr,
                      first |-> out.bitmap_first, last |-> out.bitmap_last]]
  ELSE IF lb.bitmap.first # lb.bitmap.last THEN next_bitmap(lb)
  ELSE IF out.wr_en /\ out.tile_first # 0
  THEN [lb EXCEPT !.wr_busy = TRUE,
          !.tile = [data |-> out.data, addr |-> out.addr,
                    first |-> out.tile_first, last |-> out.tile_last,
                    skip |-> 4 - out.tile_first, shift |-> 0]]
  ELSE IF lb.tile.first # lb.tile.last THEN next_tile(lb)
  ELSE IF out.wr_en THEN Store(idle, out.addr, out.data)
  ELSE [idle EXCEPT !.wr_en = FALSE]

line_buffer_clock(out) ==
  /\ line_buffer' = write_pixels(line_buffer, out)
  /\ line' = IF line_buffer.wr_en /\ line_buffer.wr_addr \in DOMAIN line
             THEN [line EXCEPT ![line_buffer.wr_addr] = line_buffer.wr_data]
             ELSE line
=============================================================================
