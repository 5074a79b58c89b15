------------------------------ MODULE MCChroni ------------------------------
(* Lists with every mode, with windows of four columns and two rows that   *)
(* wrap several times within a line and once in a frame, in several        *)
(* positions, and with sections that end in the middle of a row.           *)
EXTENDS Chroni

Plain(mode, count) == [mode |-> mode, count |-> count, scroll |-> FALSE]
End == Plain(END, 0)

Scrolled(mode, count, width, height, left, top, fine_x, fine_y) ==
  [mode |-> mode, count |-> count, scroll |-> TRUE, width |-> width,
   height |-> height, left |-> left, top |-> top, fine_x |-> fine_x,
   fine_y |-> fine_y]

MCLists ==
  { <<Plain(1, 5), Scrolled(mode, 17, 4, 2, left, top, fine_x, fine_y),
      Plain(4, 2), End>> :
      mode \in 2 .. 5, left \in {0, 3}, top \in {0, 1}, fine_x \in {0, 3, 7},
      fine_y \in {0, 5} }
  \cup { <<Scrolled(2, 0, 2, 1, 1, 0, 1, 1), End>>,
         <<Plain(3, 4), Plain(0, 3), Plain(5, 2), End>>, <<End>> }

\* Every register of an address and of a palette, with values at its limits.
MCWrites ==
  { <<6, 255>>, <<7, 255>>, <<38, 254>>, <<39, 255>>, <<40, 1>>, <<10, 1>>, <<10, 2>>,
    <<8, 0>>, <<42, 1>>, <<44, 1>>, <<11, 1>>, <<11, 2>>, <<46, 0>>, <<46, 15>>,
    <<4, 255>>, <<5, 1>>, <<5, 2>> }
=============================================================================
