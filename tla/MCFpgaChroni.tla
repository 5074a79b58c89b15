---------------------------- MODULE MCFpgaChroni ----------------------------
EXTENDS FpgaChroni

Vga == [h_total |-> 42, h_pf_start |-> 8, h_pf_end |-> 40,
        h_pf_start_narrow |-> 16, h_pf_end_narrow |-> 32,
        v_total |-> 15, v_pf_start |-> 4, v_pf_end |-> 14,
        scale |-> FALSE, sys_ticks |-> 4, vga_ticks |-> 1,
        columns |-> 2, narrow_columns |-> 1, half_line |-> 32, lines |-> 5]

Svga == [Vga EXCEPT !.h_total = 60, !.sys_ticks = 5, !.vga_ticks = 2]

\* Mode3 of chroni_vga_modes.vh at half its width: half the characters in half
\* the time, which what a line costs in any case makes the tighter of the two.
FullHd == [h_total |-> 1100, h_pf_start |-> 256, h_pf_end |-> 896,
        h_pf_start_narrow |-> 320, h_pf_end_narrow |-> 832,
        v_total |-> 12, v_pf_start |-> 3, v_pf_end |-> 11,
        scale |-> TRUE, sys_ticks |-> 2, vga_ticks |-> 3,
        columns |-> 20, narrow_columns |-> 16, half_line |-> 320, lines |-> 2]

MCModes == {Vga, Svga, FullHd}

Section(m, count) ==
  [mode |-> m, count |-> count, narrow |-> FALSE, scroll |-> FALSE,
   lms |-> 0, attr |-> 100,
   size |-> [x |-> 0, y |-> 0], position |-> [x |-> 0, y |-> 0],
   fine |-> [x |-> 0, y |-> 0]]

Scrolled(m, count, width, height, left, top, x, y) ==
  [Section(m, count) EXCEPT !.scroll = TRUE, !.size = [x |-> width, y |-> height],
                            !.position = [x |-> left, y |-> top],
                            !.fine = [x |-> x, y |-> y]]
End == Section(END, 1)

At(s, lms, attr) == [s EXCEPT !.lms = lms, !.attr = attr]
Narrow(s) == [s EXCEPT !.narrow = TRUE]

SmallLists == {
  <<Section(2, 3), Section(0, 1), End>>,
  <<Section(0, 1), At(Section(1, 0), 40, 60), End>>,
  <<Scrolled(1, 3, 6, 2, 5, 1, 3, 1), At(Scrolled(2, 2, 4, 3, 3, 2, 7, 0), 20, 30), End>>,
  <<Scrolled(1, 2, 2, 2, 1, 0, 5, 0), Narrow(Scrolled(1, 3, 4, 2, 1, 1, 4, 1)), End>>,
  <<Scrolled(3, 3, 3, 2, 2, 1, 5, 1), Scrolled(3, 2, 4, 3, 3, 2, 0, 0), End>>,
  <<Section(3, 1), At(Section(2, 3), 20, 30), End>>,
  <<Scrolled(3, 2, 3, 2, 1, 1, 6, 1), At(Scrolled(2, 1, 4, 2, 2, 1, 1, 1), 20, 30), Section(0, 2), End>>,
  <<Narrow(Scrolled(3, 4, 2, 2, 1, 0, 3, 1)), Narrow(Section(0, 1)), End>> }

WideLists == { <<Scrolled(1, 1, 44, 2, 20, 1, 3, 1), Scrolled(1, 1, 44, 2, 42, 0, 3, 0), End>> }

MCLists == [m \in MCModes |->
              CASE m = FullHd -> WideLists
                [] m = Svga   -> {l \in SmallLists : l[1].mode = 1}
                [] OTHER      -> SmallLists]
=============================================================================
