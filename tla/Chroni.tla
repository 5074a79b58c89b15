------------------------------- MODULE Chroni -------------------------------
(***************************************************************************)
(* Chroni from both sides: the display list it draws (DisplayList), and    *)
(* the registers through which a program reaches its memory and its        *)
(* palette, as the emulator keeps them (src/src/video/chroni.c) and as the *)
(* FPGA does (src/rtl/compy/chroni.v), both given the same accesses.  What *)
(* is drawn is the program's choice of a list, so that the two share no    *)
(* state, and one of them is at work in a behaviour.                       *)
(*   One step of the registers is one edge of sys_clk, with or without an  *)
(* access; the emulator does the whole of an access in that step.  A       *)
(* memory is a function on the bytes, or the entries, that were ever       *)
(* written.                                                                *)
(***************************************************************************)
EXTENDS DisplayList

CONSTANTS
  Writes,        \* pairs of a register and a value a program may store there
  Accesses       \* bound: so many accesses

\* The registers by their numbers.
AddressRegisters == {6, 7, 8, 9, 38, 39, 40, 42, 43, 44}
DataRegisters    == {10, 11}
OtherRegisters   == {4, 5, 46}

ASSUME RegisterAssumption ==
  /\ Accesses \in Nat
  /\ Writes \subseteq (AddressRegisters \cup DataRegisters \cup OtherRegisters) \X (0 .. 255)

Pointers  == {"VADDR", "VADDR_AUX"}
VramBytes == 131072

VARIABLES
  address,       \* emulator: vram_write_address, and the auxiliary one
  autoinc, vram, palette,
  palette_state, \* the index, the value and whether its low byte has come
  fpga,          \* the registers of register_write
  fpga_vram, fpga_palette,
  wr_en,         \* cpu_wr_en: an access is its rising edge
  accesses,
  apart,         \* fields of the pointers in which the two may differ,
  differ         \* and bytes of the memory

emulator == <<address, autoinc, vram, palette, palette_state>>
registerVars == <<emulator, fpga, fpga_vram, fpga_palette, wr_en, accesses, apart, differ>>

Nothing == [a \in {} |-> 0]

\* A memory f with what was written to another on top; and with one more.
Over(g, f) == [a \in DOMAIN g \cup DOMAIN f |-> IF a \in DOMAIN g THEN g[a] ELSE f[a]]
One(a, v)  == [b \in {a} |-> v]

RegistersInit ==
  /\ address = [p \in Pointers |-> 0]
  /\ autoinc = 5
  /\ vram = Nothing /\ palette = Nothing
  /\ palette_state = [index |-> 0, value |-> 0, low |-> FALSE]
  /\ fpga = [address |-> [p \in Pointers |-> 0], state |-> "IDLE", index |-> 0,
             value |-> 0, palette_wr |-> Nothing, vram_wr |-> Nothing]
  /\ fpga_vram = Nothing /\ fpga_palette = Nothing
  /\ wr_en = FALSE /\ accesses = 0
  /\ apart = [p \in Pointers |-> {}] /\ differ = {}
-----------------------------------------------------------------------------
\* The pointer of a register, and the fields of it that it replaces: bits 0 to
\* 7, 8, 9 to 15 and 16.
Pointer(r) == IF r \in {6, 7, 10, 38, 39, 40} THEN "VADDR" ELSE "VADDR_AUX"

Fields == {"low", "bit8", "middle", "bit16"}

Weight(f) == CASE f = "low"  -> 1   [] f = "middle" -> 512
               [] f = "bit8" -> 256 [] f = "bit16"  -> 65536

Part(a, f) ==
  (a \div Weight(f)) % (CASE f = "low" -> 256 [] f = "middle" -> 128 [] OTHER -> 2)

Field(r) ==
  CASE r \in {6, 8}   -> {"low", "bit8"}
    [] r \in {7, 9}   -> {"middle", "bit16"}
    [] r \in {38, 42} -> {"low"}
    [] r \in {39, 43} -> {"bit8", "middle"}
    [] r \in {40, 44} -> {"bit16"}
-----------------------------------------------------------------------------
(* chroni.c *)

Kept_ShortMask(r) ==
  CASE r \in {6, 8}   -> {"middle"}
    [] r \in {7, 9}   -> {"low", "bit8"}
    [] r \in {38, 42} -> {"bit8", "middle", "bit16"}
    [] r \in {39, 43} -> {"low", "bit16"}
    [] r \in {40, 44} -> {"low", "bit8", "middle"}

\* The masks 1FE00, 001FF, 1FF00, 100FF and 0FFFF.
Kept(r) ==
  CASE r \in {6, 8}   -> {"middle", "bit16"}
    [] r \in {7, 9}   -> {"low", "bit8"}
    [] r \in {38, 42} -> {"bit8", "middle", "bit16"}
    [] r \in {39, 43} -> {"low", "bit16"}
    [] r \in {40, 44} -> {"low", "bit8", "middle"}

Masked(a, fields) ==
  LET of(f) == IF f \in fields THEN Part(a, f) * Weight(f) ELSE 0
  IN  of("low") + of("bit8") + of("middle") + of("bit16")

\* It has none of the bits that are kept, so that | is a sum.
Shifted(r, v) ==
  CASE r \in {6, 8}   -> v * 2
    [] r \in {7, 9}   -> v * 512
    [] r \in {38, 42} -> v
    [] r \in {39, 43} -> v * 256
    [] r \in {40, 44} -> (v % 2) * 65536

\* The two bits of autoinc that are a pointer's.  An increment is tested first, and
\* its bit is one of the two of a decrement, too.
AutoincOf(p)  == IF p = "VADDR" THEN autoinc ELSE autoinc \div 4
increments(p) == AutoincOf(p) % 2 = 1
decrements(p) == AutoincOf(p) % 4 # 0

Moved(p) ==
  IF increments(p) THEN address[p] + 1
  ELSE IF decrements(p) THEN address[p] - 1 ELSE address[p]

Stepped_NeverWraps(p) == Moved(p)

\* vaddr_autoinc, vaddr_aux_autoinc
Stepped(p) == Moved(p) % VramBytes

chroni_register_write(r, v) ==
  LET p == Pointer(r)
      s == palette_state
  IN
  /\ address' = [address EXCEPT ![p] =
       IF r \in AddressRegisters THEN Masked(@, Kept(r)) + Shifted(r, v)
       ELSE IF r \in DataRegisters THEN Stepped(p) ELSE @]
  /\ vram' = IF r \in DataRegisters THEN Over(One(address[p], v), vram) ELSE vram
  /\ autoinc' = IF r = 46 THEN v ELSE autoinc
  /\ palette_state' =
       CASE r = 4 -> [s EXCEPT !.index = v, !.low = FALSE]
         [] r = 5 /\ ~s.low -> [s EXCEPT !.value = (@ \div 256) * 256 + v, !.low = TRUE]
         [] r = 5 /\ s.low -> [index |-> (s.index + 1) % 256,
                               value |-> (s.value % 256) + v * 256, low |-> FALSE]
         [] OTHER -> s
  /\ palette' = IF r = 5 /\ s.low THEN Over(One(s.index, palette_state'.value), palette)
                ELSE palette

\* A read of VDATA, too, moves the address on.
chroni_register_read(r) ==
  /\ address' = [address EXCEPT ![Pointer(r)] = Stepped(Pointer(r))]
  /\ UNCHANGED <<autoinc, vram, palette, palette_state>>
-----------------------------------------------------------------------------
(* chroni.v *)

\* Bits 8:0, 16:9, 7:0, 15:8 and 16 are replaced.
Replaced(a, r, v) ==
  CASE r \in {6, 8}   -> (a \div 512) * 512 + 2 * v
    [] r \in {7, 9}   -> v * 512 + (a % 512)
    [] r \in {38, 42} -> (a \div 256) * 256 + v
    [] r \in {39, 43} -> (a \div 65536) * 65536 + v * 256 + (a % 256)
    [] r \in {40, 44} -> (v % 2) * 65536 + (a % 65536)

\* An even byte of the auxiliary pointer is written with both bytes enabled.
BytesEnabled(p, a) ==
  IF a % 2 = 1 \/ p = "VADDR" THEN {a} ELSE {a, a + 1}

\* What is asked of the memories is for one clock.
Released(f) == [f EXCEPT !.palette_wr = Nothing, !.vram_wr = Nothing]

register_write(r, v) ==
  LET p == Pointer(r)
      a == fpga.address[p]
      f == Released(fpga)
  IN
  CASE r \in AddressRegisters -> [f EXCEPT !.address[p] = Replaced(a, r, v)]
    [] r \in DataRegisters ->
         [f EXCEPT !.address[p] = (a + 1) % VramBytes,
                   !.vram_wr = [b \in BytesEnabled(p, a) |-> v]]
    [] r = 4 -> [f EXCEPT !.index = v, !.state = "LO"]
    [] r = 5 /\ fpga.state = "LO" ->
         [f EXCEPT !.value = (@ \div 256) * 256 + v, !.state = "HI"]
    [] r = 5 /\ fpga.state # "LO" ->
         [f EXCEPT !.value = (@ % 256) + v * 256, !.state = "WRITE"]
    [] OTHER -> f

palette_write_IncrementsFirst ==
  IF fpga.state # "WRITE" THEN Released(fpga)
  ELSE [Released(fpga) EXCEPT !.palette_wr = One((fpga.index + 1) % 256, fpga.value),
                           !.state = "LO", !.index = (@ + 1) % 256]

\* Without an access, a palette entry that is complete is written.
palette_write ==
  IF fpga.state # "WRITE" THEN Released(fpga)
  ELSE [Released(fpga) EXCEPT !.palette_wr = One(fpga.index, fpga.value),
                           !.state = "LO", !.index = (@ + 1) % 256]

\* The memories take what the registers held before this edge of the clock.
memories ==
  /\ fpga_vram' = Over(fpga.vram_wr, fpga_vram)
  /\ fpga_palette' = Over(fpga.palette_wr, fpga_palette)
-----------------------------------------------------------------------------
(* Where the two may differ: an address after a read of VDATA, which the   *)
(* FPGA does not have, or with another increment than one, and a byte      *)
(* written through such an address, or beside an even auxiliary one.       *)

Compare(r) ==
  LET p == Pointer(r)
      e == address[p]
      f == fpga.address[p]
      alike == apart[p] = {}
  IN
  IF r \in AddressRegisters
  THEN /\ apart' = [apart EXCEPT ![p] = @ \ Field(r)]
       /\ differ' = differ
  ELSE IF r \in DataRegisters
  THEN /\ apart' = [apart EXCEPT ![p] = IF alike /\ increments(p) THEN {} ELSE Fields]
       /\ differ' = IF alike THEN (differ \ {e}) \cup (BytesEnabled(p, e) \ {e})
                    ELSE differ \cup {e} \cup BytesEnabled(p, f)
  ELSE UNCHANGED <<apart, differ>>

\* A palette value without an index before it is no use of the palette.
Write(w) ==
  /\ ~wr_en /\ accesses < Accesses
  /\ w[1] = 5 => fpga.state # "IDLE"
  /\ chroni_register_write(w[1], w[2])
  /\ fpga' = register_write(w[1], w[2])
  /\ memories /\ Compare(w[1])
  /\ wr_en' = TRUE /\ accesses' = accesses + 1

Read(r) ==
  /\ ~wr_en /\ accesses < Accesses
  /\ chroni_register_read(r)
  /\ fpga' = palette_write
  /\ memories
  /\ apart' = [apart EXCEPT ![Pointer(r)] = Fields]
  /\ accesses' = accesses + 1 /\ UNCHANGED <<wr_en, differ>>

Clock ==
  /\ fpga' = palette_write
  /\ memories
  /\ wr_en' = FALSE
  /\ UNCHANGED <<emulator, accesses, apart, differ>>

RegistersNext == (\E w \in Writes : Write(w)) \/ (\E r \in DataRegisters : Read(r)) \/ Clock
-----------------------------------------------------------------------------
\* The bytes of the two, once the FPGA has written the last one, but those of
\* an address that only the emulator has moved on.
SameMemory ==
  LET written == Over(fpga.vram_wr, fpga_vram)
  IN  \A a \in (DOMAIN vram \cup DOMAIN written) \ differ :
        a \in DOMAIN vram /\ a \in DOMAIN written /\ vram[a] = written[a]

\* The palettes: an entry is written when its second byte has come.
SamePalette ==
  LET last == IF fpga.state = "WRITE" THEN One(fpga.index, fpga.value) ELSE Nothing
  IN  Over(last, Over(fpga.palette_wr, fpga_palette)) = palette

\* Whatever the accesses, in words, in bytes, over the end of the memory and
\* right after each other, the same program leaves the same memory and the
\* same palette in the emulator and in the FPGA.
MachinesAgree == SameMemory /\ SamePalette
-----------------------------------------------------------------------------
VARIABLE work

chroniVars == <<work, vars, registerVars>>

ChroniInit ==
  /\ work \in {"list", "registers"}
  /\ Init /\ RegistersInit
  /\ work = "registers" => list = CHOOSE l \in Lists : TRUE

Draw  == work = "list" /\ Next /\ UNCHANGED <<work, registerVars>>
Store == work = "registers" /\ RegistersNext /\ UNCHANGED <<work, vars>>

ChroniNext == Draw \/ Store
ChroniSpec == ChroniInit /\ [][ChroniNext]_chroniVars
=============================================================================
