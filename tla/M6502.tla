-------------------------------- MODULE M6502 -------------------------------
(***************************************************************************)
(* The instructions of the emulated 6502, one at a time: the macros of     *)
(* src/cpu/m6502/ops02.h, put together by the table of t6502.c, and the    *)
(* interrupts of m6502.c.  The cycle counts and the illegal opcodes are     *)
(* left out.                                                               *)
(***************************************************************************)
EXTENDS Integers, Bitwise, TLC

Bit(v, k)  == (v \div 2^k) % 2
Word(l, h) == l + 256 * h
Signed(v)  == IF v < 128 THEN v ELSE v - 256

\* Memory that no program has written holds NOPs.
Peek(mem, a)    == IF a \in DOMAIN mem THEN mem[a] ELSE 234
Poke(mem, a, v) == (a :> v) @@ mem

\* The opcode table is regular: each instruction has a row, and each mode a
\* column in the rows of its kind.
Column ==
  [indexed  |-> [IDX |-> 0, ZPG |-> 4, IMM |-> 8, ABS |-> 12,
                 IDY |-> 16, ZPX |-> 20, ABY |-> 24, ABX |-> 28],
   byX      |-> [IMM |-> 0, ZPG |-> 4, ACC |-> 8, ABS |-> 12, ZPX |-> 20, ABX |-> 28],
   byY      |-> [IMM |-> 0, ZPG |-> 4, ABS |-> 12, ZPY |-> 20, ABY |-> 28]]

Rows ==
  {<<op, base, "indexed", DOMAIN Column.indexed>> : <<op, base>> \in
     {<<"ORA", 1>>, <<"AND", 33>>, <<"EOR", 65>>, <<"ADC", 97>>,
      <<"LDA", 161>>, <<"CMP", 193>>, <<"SBC", 225>>}}
  \cup
  {<<op, base, "byX", {"ZPG", "ACC", "ABS", "ZPX", "ABX"}>> : <<op, base>> \in
     {<<"ASL", 2>>, <<"ROL", 34>>, <<"LSR", 66>>, <<"ROR", 98>>}}
  \cup
  {<<"STA", 129, "indexed", DOMAIN Column.indexed \ {"IMM"}>>,
   <<"STX", 130, "byY", {"ZPG", "ABS", "ZPY"}>>, <<"LDX", 162, "byY", DOMAIN Column.byY>>,
   <<"DEC", 194, "byX", {"ZPG", "ABS", "ZPX", "ABX"}>>,
   <<"INC", 226, "byX", {"ZPG", "ABS", "ZPX", "ABX"}>>,
   <<"BIT", 32, "byX", {"ZPG", "ABS"}>>, <<"STY", 128, "byX", {"ZPG", "ABS", "ZPX"}>>,
   <<"LDY", 160, "byX", {"IMM", "ZPG", "ABS", "ZPX", "ABX"}>>,
   <<"CPY", 192, "byX", {"IMM", "ZPG", "ABS"}>>, <<"CPX", 224, "byX", {"IMM", "ZPG", "ABS"}>>,
   <<"JMP", 64, "byX", {"ABS"}>>}

Others ==
  [BRK |-> 0, JSR |-> 32, RTI |-> 64, RTS |-> 96, PHP |-> 8, PLP |-> 40, PHA |-> 72,
   PLA |-> 104, DEY |-> 136, TAY |-> 168, INY |-> 200, INX |-> 232, CLC |-> 24,
   SEC |-> 56, CLI |-> 88, SEI |-> 120, TYA |-> 152, CLV |-> 184, CLD |-> 216,
   SED |-> 248, TXA |-> 138, TXS |-> 154, TAX |-> 170, TSX |-> 186, DEX |-> 202,
   NOP |-> 234, BPL |-> 16, BMI |-> 48, BVC |-> 80, BVS |-> 112, BCC |-> 144,
   BCS |-> 176, BNE |-> 208, BEQ |-> 240]

\* What a branch looks at, and what an instruction on a flag sets it to.
Branches ==
  [BPL |-> <<"n", 0>>, BMI |-> <<"n", 1>>, BVC |-> <<"v", 0>>, BVS |-> <<"v", 1>>,
   BCC |-> <<"c", 0>>, BCS |-> <<"c", 1>>, BNE |-> <<"z", 0>>, BEQ |-> <<"z", 1>>]
FlagSets ==
  [CLC |-> <<"c", 0>>, SEC |-> <<"c", 1>>, CLI |-> <<"i", 0>>, SEI |-> <<"i", 1>>,
   CLV |-> <<"v", 0>>, CLD |-> <<"d", 0>>, SED |-> <<"d", 1>>]

Insns ==
  UNION {{<<r[2] + Column[r[3]][m], r[1], m>> : m \in r[4]} : r \in Rows}
  \cup {<<Others[op], op, IF op \in DOMAIN Branches THEN "REL"
                          ELSE IF op = "JSR" THEN "ABS" ELSE "IMP">> : op \in DOMAIN Others}
  \cup {<<108, "JMP", "IND">>}

insn6502 ==
  [b \in {t[1] : t \in Insns} |->
     LET t == CHOOSE t \in Insns : t[1] = b IN [op |-> t[2], mode |-> t[3]]]

Length(mode) ==
  CASE mode \in {"IMP", "ACC"} -> 1
    [] mode \in {"ABS", "ABX", "ABY", "IND"} -> 3
    [] OTHER -> 2
-----------------------------------------------------------------------------
(* The state s of the processor: pc, a, x, y, sp, the flags and mem. *)

EA(s, mode) ==
  LET first  == Peek(s.mem, (s.pc + 1) % 65536)
      second == Peek(s.mem, (s.pc + 2) % 65536)
      abs    == Word(first, second)
      Pointer(z) == Word(Peek(s.mem, z % 256), Peek(s.mem, (z + 1) % 256))
  IN  CASE mode = "ZPG" -> first
        [] mode = "ZPX" -> (first + s.x) % 256
        [] mode = "ZPY" -> (first + s.y) % 256
        [] mode = "ABS" -> abs
        [] mode = "ABX" -> (abs + s.x) % 65536
        [] mode = "ABY" -> (abs + s.y) % 65536
        [] mode = "IDX" -> Pointer(first + s.x)
        [] mode = "IDY" -> (Pointer(first) + s.y) % 65536
        [] mode = "IND" -> Word(Peek(s.mem, abs),
                                Peek(s.mem, Word((first + 1) % 256, second)))
        [] OTHER -> (s.pc + 1) % 65536

SET_NZ(s, v)  == [s EXCEPT !.n = Bit(v, 7), !.z = IF v = 0 THEN 1 ELSE 0]
Sets(s, r, v) == SET_NZ([s EXCEPT ![r] = v], v)

PUSH(s, v) == [s EXCEPT !.mem = Poke(s.mem, 256 + s.sp, v), !.sp = (s.sp + 255) % 256]
Pulled(s, k) == Peek(s.mem, 256 + ((s.sp + k) % 256))
PUSH_PC(s, pc) == PUSH(PUSH(s, pc \div 256), pc % 256)

\* The status byte: F_T is always set, F_B but for interrupts.
P(s, b) == 128 * s.n + 64 * s.v + 32 + 16 * b + 8 * s.d + 4 * s.i + 2 * s.z + s.c
PullP(s, p) ==
  [s EXCEPT !.n = Bit(p, 7), !.v = Bit(p, 6), !.d = Bit(p, 3), !.i = Bit(p, 2),
            !.z = Bit(p, 1), !.c = Bit(p, 0)]

Vector(s, at) == Word(Peek(s.mem, at), Peek(s.mem, at + 1))
NMI_VEC == 65530
IRQ_VEC == 65534

Interrupt(s, at, b) ==
  [PUSH(PUSH_PC(s, s.pc), P(s, b)) EXCEPT !.i = 1, !.pc = Vector(s, at)]

\* m6502_take_irq, and the NMI of m6502_set_irq_line.
m6502_take_irq(s) == Interrupt(s, IRQ_VEC, 0)
m6502_nmi(s)      == Interrupt(s, NMI_VEC, 0)

Compare(s, r, m) ==
  SET_NZ([s EXCEPT !.c = IF r >= m THEN 1 ELSE 0], (r - m + 256) % 256)

Binary(s, m) ==
  LET sum == s.a + m + s.c
      v   == IF Bit(s.a, 7) = Bit(m, 7) /\ Bit(s.a, 7) # Bit(sum, 7) THEN 1 ELSE 0
  IN  Sets([s EXCEPT !.v = v, !.c = sum \div 256], "a", sum % 256)

\* Decimal: the low digits lo and the high ones hi, in steps of 16.
ADC(s, m) ==
  LET low == (s.a % 16) + (m % 16) + s.c
      lo  == IF low > 9 THEN low + 6 ELSE low
      top == 16 * ((s.a \div 16) + (m \div 16))
      hi  == IF low > 9 THEN top + 16 ELSE top
      carried == IF hi > 144 THEN hi + 96 ELSE hi
  IN  IF s.d = 0 THEN Binary(s, m)
      ELSE [s EXCEPT !.z = IF (low + top) % 256 = 0 THEN 1 ELSE 0, !.n = Bit(hi, 7),
                     !.v = IF Bit(s.a, 7) = Bit(m, 7) /\ Bit(s.a, 7) # Bit(hi, 7)
                           THEN 1 ELSE 0,
                     !.c = IF carried > 255 THEN 1 ELSE 0,
                     !.a = (lo % 16) + 16 * ((carried \div 16) % 16)]

SBC(s, m) ==
  LET low == (s.a % 16) - (m % 16) - (1 - s.c)
      lo  == IF low < 0 THEN low - 6 ELSE low
      top == 16 * ((s.a \div 16) - (m \div 16))
      hi  == IF low < 0 THEN top - 1 ELSE top
      borrowed == IF hi < 0 THEN hi - 96 ELSE hi
  IN  IF s.d = 0 THEN Binary(s, 255 - m)
      ELSE [Binary(s, 255 - m) EXCEPT !.a = (lo % 16) + 16 * ((borrowed \div 16) % 16)]

\* A shift or rotation: the value and the carry it leaves.
Shifted(op, s, m) ==
  CASE op = "ASL" -> <<(2 * m) % 256, Bit(m, 7)>>
    [] op = "ROL" -> <<2 * (m % 128) + s.c, Bit(m, 7)>>
    [] op = "LSR" -> <<m \div 2, Bit(m, 0)>>
    [] op = "ROR" -> <<(m \div 2) + 128 * s.c, Bit(m, 0)>>

WriteBack(s, mode, ea, v) ==
  SET_NZ(IF mode = "ACC" THEN [s EXCEPT !.a = v] ELSE [s EXCEPT !.mem = Poke(s.mem, ea, v)], v)

\* The instruction op, with the program counter of s behind its operand m,
\* which is at ea.
Instruction(op, mode, s, ea, m) ==
  CASE op = "LDA" -> Sets(s, "a", m)
    [] op = "LDX" -> Sets(s, "x", m)
    [] op = "LDY" -> Sets(s, "y", m)
    [] op = "TAX" -> Sets(s, "x", s.a)
    [] op = "TAY" -> Sets(s, "y", s.a)
    [] op = "TSX" -> Sets(s, "x", s.sp)
    [] op = "TXA" -> Sets(s, "a", s.x)
    [] op = "TYA" -> Sets(s, "a", s.y)
    [] op = "TXS" -> [s EXCEPT !.sp = s.x]
    [] op = "INX" -> Sets(s, "x", (s.x + 1) % 256)
    [] op = "INY" -> Sets(s, "y", (s.y + 1) % 256)
    [] op = "DEX" -> Sets(s, "x", (s.x + 255) % 256)
    [] op = "DEY" -> Sets(s, "y", (s.y + 255) % 256)
    [] op = "ORA" -> Sets(s, "a", s.a | m)
    [] op = "AND" -> Sets(s, "a", s.a & m)
    [] op = "EOR" -> Sets(s, "a", s.a ^^ m)
    [] op = "ADC" -> ADC(s, m)
    [] op = "SBC" -> SBC(s, m)
    [] op = "CMP" -> Compare(s, s.a, m)
    [] op = "CPX" -> Compare(s, s.x, m)
    [] op = "CPY" -> Compare(s, s.y, m)
    [] op = "BIT" -> [s EXCEPT !.n = Bit(m, 7), !.v = Bit(m, 6),
                               !.z = IF s.a & m = 0 THEN 1 ELSE 0]
    [] op = "INC" -> WriteBack(s, mode, ea, (m + 1) % 256)
    [] op = "DEC" -> WriteBack(s, mode, ea, (m + 255) % 256)
    [] op \in {"ASL", "ROL", "LSR", "ROR"} ->
         WriteBack([s EXCEPT !.c = Shifted(op, s, m)[2]], mode, ea, Shifted(op, s, m)[1])
    [] op = "STA" -> [s EXCEPT !.mem = Poke(s.mem, ea, s.a)]
    [] op = "STX" -> [s EXCEPT !.mem = Poke(s.mem, ea, s.x)]
    [] op = "STY" -> [s EXCEPT !.mem = Poke(s.mem, ea, s.y)]
    [] op = "PHA" -> PUSH(s, s.a)
    [] op = "PHP" -> PUSH(s, P(s, 1))
    [] op = "PLA" -> Sets([s EXCEPT !.sp = (s.sp + 1) % 256], "a", Pulled(s, 1))
    [] op = "PLP" -> PullP([s EXCEPT !.sp = (s.sp + 1) % 256], Pulled(s, 1))
    [] op \in DOMAIN FlagSets -> [s EXCEPT ![FlagSets[op][1]] = FlagSets[op][2]]
    [] op \in DOMAIN Branches ->
         IF s[Branches[op][1]] = Branches[op][2]
         THEN [s EXCEPT !.pc = (s.pc + Signed(m) + 65536) % 65536] ELSE s
    [] op = "JMP" -> [s EXCEPT !.pc = ea]
    [] op = "JSR" -> [PUSH_PC(s, s.pc - 1) EXCEPT !.pc = ea]
    [] op = "RTS" -> [s EXCEPT !.pc = (Word(Pulled(s, 1), Pulled(s, 2)) + 1) % 65536,
                               !.sp = (s.sp + 2) % 256]
    [] op = "RTI" -> [PullP(s, Pulled(s, 1)) EXCEPT !.pc = Word(Pulled(s, 2), Pulled(s, 3)),
                                                    !.sp = (s.sp + 3) % 256]
    [] op = "BRK" -> Interrupt(s, IRQ_VEC, 1)
    [] op = "NOP" -> s

\* m6502_execute, for the one instruction at the program counter.
Execute(s) ==
  LET i  == insn6502[Peek(s.mem, s.pc)]
      ea == EA(s, i.mode)
  IN  Instruction(i.op, i.mode, [s EXCEPT !.pc = (s.pc + Length(i.mode)) % 65536], ea,
                  IF i.mode = "ACC" THEN s.a ELSE Peek(s.mem, ea))
=============================================================================
