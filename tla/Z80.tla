--------------------------------- MODULE Z80 --------------------------------
(***************************************************************************)
(* The Z80 of src/cpu/z80/z80.c, and its listing in z80dasm.c.  The state  *)
(* of the processor is a record s: its registers, the alternate ones in    *)
(* alt, the refresh register r and its kept bit r2, the lines irq and nmi, *)
(* the cycles icount that are left of the slice and the extra ones an      *)
(* interrupt costs, and the mem and ports it is connected to.  s.hacks     *)
(* tells whether loops that only wait are skipped.                         *)
(*   The arithmetic comes first: the flag tables that z80_init fills, and  *)
(* the macros and functions that use them.  F is a set of flags, Y and X   *)
(* being the copies of bits 5 and 3 of a result.  An operation on the      *)
(* accumulator takes and returns a state s with a and f; the others return *)
(* a value v with the flags f.                                             *)
(*   Then come the instructions, the interrupts and the slices.  The       *)
(* tables of opcodes are regular: an opcode is 64 * x + 8 * y + z.  The    *)
(* prefix p is "hl", or "ix" or "iy" after DD or FD.  No daisy chain is    *)
(* configured.                                                             *)
(***************************************************************************)
EXTENDS Integers, Sequences, FiniteSets, Bitwise, TLC, FiniteSetsExt

Byte == 0..255

Bit(v, k) == (v \div 2^k) % 2
\* The bit k of x ^ y ^ z.
OddBit(x, y, z, k) == (Bit(x, k) + Bit(y, k) + Bit(z, k)) % 2 = 1

Flag(name, raised) == IF raised THEN {name} ELSE {}
YX(v)    == Flag("Y", Bit(v, 5) = 1) \cup Flag("X", Bit(v, 3) = 1)
Carry(f) == IF "C" \in f THEN 1 ELSE 0
-----------------------------------------------------------------------------
(* The tables. *)

SZ  == [i \in Byte |-> Flag("Z", i = 0) \cup Flag("S", i >= 128) \cup YX(i)]
SZP == [i \in Byte |->
          SZ[i] \cup Flag("P", Cardinality({k \in 0..7 : Bit(i, k) = 1}) % 2 = 0)]
SZ_BIT == [i \in Byte |-> SZ[i] \cup Flag("P", i = 0)]

SZHV_inc == [i \in Byte |-> SZ[i] \cup Flag("P", i = 128) \cup Flag("H", i % 16 = 0)]
SZHV_dec == [i \in Byte |->
               SZ[i] \cup {"N"} \cup Flag("P", i = 127) \cup Flag("H", i % 16 = 15)]

SZHVC_add_NoCarryIn(c, old, new) ==
  LET val == new - old - c
  IN  SZ[new] \cup Flag("H", (new % 16) < (old % 16)) \cup Flag("C", new < old)
              \cup Flag("P", Bit(val, 7) = Bit(old, 7) /\ Bit(val, 7) # Bit(new, 7))

\* The flags of a sum that takes A from old to new, with the carry c.
SZHVC_add(c, old, new) ==
  LET val == new - old - c
  IN  SZ[new] \cup Flag("H", (new % 16) < (old % 16) + c)
              \cup Flag("C", new < old + c)
              \cup Flag("P", Bit(val, 7) = Bit(old, 7) /\ Bit(val, 7) # Bit(new, 7))

SZHVC_sub(c, old, new) ==
  LET val == old - new - c
  IN  SZ[new] \cup {"N"} \cup Flag("H", (new % 16) + c > old % 16)
              \cup Flag("C", new + c > old)
              \cup Flag("P", Bit(val, 7) # Bit(old, 7) /\ Bit(old, 7) # Bit(new, 7))
-----------------------------------------------------------------------------
(* The accumulator. *)

Added(s, value, c) ==
  LET res == (s.a + value + c) % 256
  IN  [s EXCEPT !.a = res, !.f = SZHVC_add(c, s.a, res)]
Taken(s, value, c) ==
  LET res == (s.a - value - c) % 256
  IN  [s EXCEPT !.a = res, !.f = SZHVC_sub(c, s.a, res)]

ADD(s, value) == Added(s, value, 0)
ADC(s, value) == Added(s, value, Carry(s.f))
SUB(s, value) == Taken(s, value, 0)
SBC(s, value) == Taken(s, value, Carry(s.f))
NEG(s)        == SUB([s EXCEPT !.a = 0], s.a)

\* Y and X are those of the operand.
CP(s, value) == [s EXCEPT !.f = (SUB(s, value).f \ {"Y", "X"}) \cup YX(value)]

Logic(s, res, more) == [s EXCEPT !.a = res, !.f = SZP[res] \cup more]
AND(s, value) == Logic(s, s.a & value, {"H"})
OR(s, value)  == Logic(s, s.a | value, {})
XOR(s, value) == Logic(s, s.a ^^ value, {})

DAA(s) ==
  LET lo == s.a % 16
      hi == s.a \div 16
      cf == "C" \in s.f
      hf == "H" \in s.f
      nf == "N" \in s.f
      diff == CASE cf                            -> IF lo <= 9 /\ ~hf THEN 96 ELSE 102
                [] ~cf /\ lo >= 10               -> IF hi <= 8 THEN 6 ELSE 102
                [] ~cf /\ lo < 10 /\ hi >= 10    -> IF hf THEN 102 ELSE 96
                [] OTHER                         -> IF hf THEN 6 ELSE 0
      res  == (IF nf THEN s.a - diff ELSE s.a + diff) % 256
  IN  [s EXCEPT !.a = res,
                !.f = SZP[res] \cup (s.f \cap {"N"})
                      \cup Flag("C", cf \/ (IF lo <= 9 THEN hi >= 10 ELSE hi >= 9))
                      \cup Flag("H", IF nf THEN hf /\ lo <= 5 ELSE lo >= 10)]

CPL(s) ==
  LET res == 255 - s.a
  IN  [s EXCEPT !.a = res,
                !.f = (s.f \cap {"S", "Z", "P", "C"}) \cup {"H", "N"} \cup YX(res)]
SCF(s) == [s EXCEPT !.f = (s.f \cap {"S", "Z", "P"}) \cup {"C"} \cup YX(s.a)]
CCF(s) == [s EXCEPT !.f = (s.f \cap {"S", "Z", "P"}) \cup YX(s.a)
                          \cup (IF "C" \in s.f THEN {"H"} ELSE {"C"})]

\* RLCA, RRCA, RLA, RRA: out is the bit that goes to the carry.
Turned(s, res, out) ==
  [s EXCEPT !.a = res,
            !.f = (s.f \cap {"S", "Z", "P"}) \cup Flag("C", out = 1) \cup YX(res)]
RLCA(s) == Turned(s, ((2 * s.a) % 256) + Bit(s.a, 7), Bit(s.a, 7))
RRCA(s) == Turned(s, s.a \div 2 + 128 * Bit(s.a, 0), Bit(s.a, 0))
RLA(s)  == Turned(s, ((2 * s.a) % 256) + Carry(s.f), Bit(s.a, 7))
RRA(s)  == Turned(s, s.a \div 2 + 128 * Carry(s.f), Bit(s.a, 0))
-----------------------------------------------------------------------------
(* A byte, with the flags before. *)

INC(f, value) ==
  LET res == (value + 1) % 256 IN [v |-> res, f |-> (f \cap {"C"}) \cup SZHV_inc[res]]
DEC(f, value) ==
  LET res == (value - 1) % 256 IN [v |-> res, f |-> (f \cap {"C"}) \cup SZHV_dec[res]]

Left(value, new)  ==
  LET res == ((2 * value) % 256) + new
  IN  [v |-> res, f |-> SZP[res] \cup Flag("C", Bit(value, 7) = 1)]
Right(value, new) ==
  LET res == value \div 2 + 128 * new
  IN  [v |-> res, f |-> SZP[res] \cup Flag("C", Bit(value, 0) = 1)]

RLC(f, value) == Left(value, Bit(value, 7))
RRC(f, value) == Right(value, Bit(value, 0))
RL(f, value)  == Left(value, Carry(f))
RR(f, value)  == Right(value, Carry(f))
SLA(f, value) == Left(value, 0)
SRA(f, value) == Right(value, Bit(value, 7))
SLL(f, value) == Left(value, 1)
SRL(f, value) == Right(value, 0)

BIT(f, bit, value) == (f \cap {"C"}) \cup {"H"} \cup SZ_BIT[value & 2^bit]
BIT_XY(f, bit, value, ea) == (BIT(f, bit, value) \ {"Y", "X"}) \cup YX(ea \div 256)

RES(bit, value) == value - 2^bit * Bit(value, bit)
SET(bit, value) == value + 2^bit * (1 - Bit(value, bit))
-----------------------------------------------------------------------------
(* Two words. *)

ADD16(f, x, y) ==
  LET res == x + y
  IN  [v |-> res % 65536,
       f |-> (f \cap {"S", "Z", "P"}) \cup Flag("H", OddBit(x, y, res, 12))
             \cup Flag("C", Bit(res, 16) = 1) \cup YX((res \div 256) % 256)]

\* The flags of a full result.
Word16(res, x, y, overflow) ==
  [v |-> res % 65536,
   f |-> (SZ[(res \div 256) % 256] \ {"Z"}) \cup Flag("Z", res % 65536 = 0)
         \cup Flag("H", OddBit(x, y, res, 12)) \cup Flag("C", Bit(res, 16) = 1)
         \cup Flag("P", overflow)]

ADC16(f, x, y) ==
  LET res == x + y + Carry(f)
  IN  Word16(res, x, y, Bit(x, 15) = Bit(y, 15) /\ Bit(y, 15) # Bit(res, 15))
SBC16(f, x, y) ==
  LET res == x - y - Carry(f)
      w   == Word16(res, x, y, Bit(x, 15) # Bit(y, 15) /\ Bit(x, 15) # Bit(res, 15))
  IN  [w EXCEPT !.f = @ \cup {"N"}]
-----------------------------------------------------------------------------
(* The state. *)

Word(l, h) == l + 256 * h
Signed(v)  == IF v < 128 THEN v ELSE v - 256

\* Memory that no program has written holds NOPs.
Peek(mem, a)    == IF a \in DOMAIN mem THEN mem[a] ELSE 0
Poke(mem, a, v) == (a :> v) @@ mem

RM(s, a)      == Peek(s.mem, a)
WM(s, a, v)   == [s EXCEPT !.mem = Poke(s.mem, a, v)]
RM16(s, a)    == Word(RM(s, a), RM(s, (a + 1) % 65536))
WM16(s, a, v) == WM(WM(s, a, v % 256), (a + 1) % 65536, v \div 256)

\* The devices at the ports give back what was written to them.
InPort(s, port)     == IF port \in DOMAIN s.ports THEN s.ports[port] ELSE 255
OUT(s, port, value) == [s EXCEPT !.ports = Poke(s.ports, port, value)]

ARG(s)      == RM(s, s.pc)
ARG16(s)    == RM16(s, s.pc)
Skip(s, n)  == [s EXCEPT !.pc = (s.pc + n) % 65536]
Spend(s, n) == [s EXCEPT !.icount = @ - n]
Refresh(s, n) == [s EXCEPT !.r = (@ + n) % 256]

FlagOrder == <<"C", "N", "P", "X", "H", "Y", "Z", "S">>
FByte(f)  == LET b[k \in 0..8] ==
                   IF k = 0 THEN 0
                   ELSE b[k - 1] + (IF FlagOrder[k] \in f THEN 2^(k - 1) ELSE 0)
             IN  b[8]
Flags(v)  == {FlagOrder[k] : k \in {k \in 1..8 : Bit(v, k - 1) = 1}}

Halves ==
  [bc |-> <<"b", "c">>, de |-> <<"d", "e">>, hl |-> <<"h", "l">>,
   ix |-> <<"hx", "lx">>, iy |-> <<"hy", "ly">>]
Pair(s, rr) ==
  CASE rr = "sp" -> s.sp
    [] rr = "af" -> Word(FByte(s.f), s.a)
    [] OTHER     -> Word(s[Halves[rr][2]], s[Halves[rr][1]])
SetPair(s, rr, v) ==
  CASE rr = "sp" -> [s EXCEPT !.sp = v]
    [] rr = "af" -> [s EXCEPT !.a = v \div 256, !.f = Flags(v % 256)]
    [] OTHER     -> [s EXCEPT ![Halves[rr][1]] = v \div 256, ![Halves[rr][2]] = v % 256]
AddPair(s, rr, n) == SetPair(s, rr, (Pair(s, rr) + n) % 65536)

PUSH(s, v)  == LET sp == (s.sp - 2) % 65536 IN WM16([s EXCEPT !.sp = sp], sp, v)
Unstack(s)  == [s EXCEPT !.sp = (@ + 2) % 65536]
POP(s, rr)  == SetPair(Unstack(s), rr, RM16(s, s.sp))
Return(s)   == [Unstack(s) EXCEPT !.pc = RM16(s, s.sp)]
Call(s, to) == [PUSH(s, s.pc) EXCEPT !.pc = to]

\* The operand of an instruction: a register, or "m", the byte at s.ea.  With
\* the prefix p, h and l are the halves of the index register.
Reg8 == <<"b", "c", "d", "e", "h", "l", "m", "a">>
Named(p, r) ==
  IF r \in {"h", "l"} THEN Halves[p][IF r = "h" THEN 1 ELSE 2] ELSE r
Get(s, p, r)    == IF r = "m" THEN RM(s, s.ea) ELSE s[Named(p, r)]
Put(s, p, r, v) ==
  IF r = "m" THEN WM(s, s.ea, v) ELSE [s EXCEPT ![Named(p, r)] = v]
\* ... with the flags that come with it.
PutF(s, p, r, u) == [Put(s, p, r, u.v) EXCEPT !.f = u.f]

EAX(s, p) ==
  IF p = "hl" THEN [s EXCEPT !.ea = Pair(s, "hl")]
  ELSE [Skip(s, 1) EXCEPT !.ea = (Pair(s, p) + Signed(ARG(s))) % 65536]
Addressed(s, p, r) == IF r = "m" THEN EAX(s, p) ELSE s
-----------------------------------------------------------------------------
(* The cycles. *)

cc_op ==
  << 4,10, 7, 6, 4, 4, 7, 4, 4,11, 7, 6, 4, 4, 7, 4,
     8,10, 7, 6, 4, 4, 7, 4,12,11, 7, 6, 4, 4, 7, 4,
     7,10,16, 6, 4, 4, 7, 4, 7,11,16, 6, 4, 4, 7, 4,
     7,10,13, 6,11,11,10, 4, 7,11,13, 6, 4, 4, 7, 4>>
cc_op_c0 ==
  << 5,10,10,10,10,11, 7,11, 5,10,10, 0,10,17, 7,11,
     5,10,10,11,10,11, 7,11, 5, 4,10,11,10, 0, 7,11,
     5,10,10,19,10,11, 7,11, 5, 4,10, 4,10, 0, 7,11,
     5,10,10, 4,10,11, 7,11, 5, 6,10, 4,10, 0, 7,11>>
OpCycles(o) ==
  CASE o < 64   -> cc_op[o + 1]
    [] o >= 192 -> cc_op_c0[o - 191]
    [] OTHER    -> IF o # 118 /\ (o % 8 = 6 \/ o \in 112..119) THEN 7 ELSE 4

cc_cb(o)   == IF o % 8 # 6 THEN 8 ELSE IF o \in 64..127 THEN 12 ELSE 15
cc_xycb(o) == IF o \in 64..127 THEN 20 ELSE 23
cc_ed(o) ==
  CASE o \in 64..127 -> (CASE o \in {103, 111}    -> 18
                           [] o % 8 < 2           -> 12
                           [] o % 8 = 2           -> 15
                           [] o % 8 = 3           -> 20
                           [] o \in {71, 79, 87, 95} -> 9
                           [] OTHER               -> 8)
    [] o \in 160..191 -> IF o % 8 < 4 THEN 16 ELSE 8
    [] OTHER          -> 8

\* The instructions that a prefix changes: those that have h, l or (hl) in
\* their operands, but for EX DE,HL and EXX.
Indexes_00_7f(o) ==
  LET y == (o \div 8) % 8  z == o % 8
  IN  IF o < 64
      THEN \/ z \in 1..3 /\ y \in {4, 5}
           \/ z = 1 /\ y % 2 = 1
           \/ z \in 4..6 /\ y \in 4..6
      ELSE o # 118 /\ (y \in 4..6 \/ z \in 4..6)
Indexes_80_ff(o) ==
  IF o < 192 THEN o % 8 \in 4..6 ELSE o \in {203, 225, 227, 229, 233, 249}
Indexes(o) == IF o < 128 THEN Indexes_00_7f(o) ELSE Indexes_80_ff(o)

cc_xy(o) ==
  LET y == (o \div 8) % 8  z == o % 8
  IN  CASE ~Indexes(o)   -> 4
        [] o \in {52, 53} -> 23
        [] o < 64        -> (CASE z = 1 -> IF y = 4 THEN 14 ELSE 15
                               [] z = 2 -> 20
                               [] z = 3 -> 10
                               [] OTHER -> IF y = 6 THEN 19 ELSE 9)
        [] o < 192       -> IF z = 6 \/ (o < 128 /\ y = 6) THEN 19 ELSE 9
        [] OTHER         -> [n \in {203, 225, 227, 229, 233, 249} |->
                               CASE n = 203 -> 0 [] n = 225 -> 14 [] n = 227 -> 23
                                 [] n = 229 -> 15 [] n = 233 -> 8 [] n = 249 -> 10][o]

BURNODD_CountsRounds(s, cycles, opcodes, cyclesum) ==
  IF cycles <= 0 THEN s
  ELSE Spend(Refresh(s, cycles \div cyclesum), (cycles \div cyclesum) * cyclesum)

BURNODD(s, cycles, opcodes, cyclesum) ==
  IF cycles <= 0 THEN s
  ELSE Spend(Refresh(s, (cycles \div cyclesum) * opcodes),
             (cycles \div cyclesum) * cyclesum)

z80_burn(s, cycles) ==
  LET n == (cycles + 3) \div 4
  IN  IF cycles > 0 THEN Spend(Refresh(s, n), 4 * n) ELSE s
-----------------------------------------------------------------------------
(* Jumps, and the loops that are skipped. *)

Cond(s, y) == (<<"Z", "C", "P", "S">>[y \div 2 + 1] \in s.f) = (y % 2 = 1)

\* A jump to itself, or back over a NOP or EI or over an LD SP, goes round
\* until the slice ends.
BusyLoop(s, oldpc, cost) ==
  LET op == RM(s, s.pc)
      GoRound(first) == BURNODD(s, s.icount - first, 2, first + cost)
  IN  CASE s.after_EI \/ ~s.hacks                -> s
        [] s.pc = oldpc                          -> BURNODD(s, s.icount, 1, cost)
        [] s.pc = oldpc - 1 /\ op \in {0, 251}   -> GoRound(4)
        [] s.pc = oldpc - 3 /\ op = 49           -> GoRound(10)
        [] OTHER                                 -> s

JumpTo(s)   == [s EXCEPT !.pc = ARG16(s)]
JumpBy(s)   == Skip(s, 1 + Signed(ARG(s)))
JP(s)       == BusyLoop(JumpTo(s), s.pc - 1, 10)
JR(s)       == BusyLoop(JumpBy(s), s.pc - 1, 12)
JP_COND(s, cond)   == IF cond THEN JumpTo(s) ELSE Skip(s, 2)
JR_COND(s, cond)   == IF cond THEN Spend(JumpBy(s), 5) ELSE Skip(s, 1)
CALL(s)            == Call(Skip(s, 2), ARG16(s))
CALL_COND(s, cond) == IF cond THEN Spend(CALL(s), 7) ELSE Skip(s, 2)
RET_COND(s, cond)  == IF cond THEN Spend(Return(s), 6) ELSE s

\* A loop that counts rr, of the registers with the codes hi and lo, down to
\* zero: DEC rr; LD A,hi; OR lo; JR NZ or JP NZ.
CheckLoop(s, rr, hi, lo) ==
  LET at(k)  == RM(s, s.pc + k)
      tests  == <<at(0), at(1)>> \in {<<120 + hi, 176 + lo>>, <<120 + lo, 176 + hi>>}
      cnt    == CASE at(2) = 32 /\ at(3) = 251                              -> 20
                  [] at(2) = 194 /\ Word(at(3), at(4)) = s.pc - 1           -> 18
                  [] OTHER                                                  -> 0
      rounds == {Pair(s, rr), (s.icount - 1) \div cnt}
      n      == CHOOSE r \in rounds : \A q \in rounds : r <= q
  IN  IF /\ s.hacks /\ Pair(s, rr) > 1 /\ s.pc < 65532
         /\ tests /\ cnt > 0 /\ s.icount > cnt
      THEN AddPair(Spend(Refresh(s, 4 * n), cnt * n), rr, -n)
      ELSE s

ENTER_HALT(s) ==
  LET t == [Skip(s, -1) EXCEPT !.halt = TRUE]
  IN  IF s.after_EI \/ ~s.hacks THEN t ELSE z80_burn(t, t.icount)
LEAVE_HALT(s) == IF s.halt THEN Skip([s EXCEPT !.halt = FALSE], 1) ELSE s
-----------------------------------------------------------------------------
\* What the device that interrupts answers to irq_callback.
CONSTANT IrqVector
ASSUME IrqVectorAssumption == IrqVector \in Nat

take_interrupt(s) ==
  LET t    == [LEAVE_HALT(s) EXCEPT !.iff1 = 0, !.iff2 = 0]
      Costs(u, cycles) == [u EXCEPT !.extra = @ + cycles]
      to   == IrqVector % 65536
      rst  == 8 * ((IrqVector \div 8) % 8)
  IN  CASE s.iff1 = 0 -> s
        [] s.iff1 = 1 /\ s.im = 2 ->
             Costs(Call(t, RM16(t, Word(IrqVector % 256, t.i))), 17)
        [] s.iff1 = 1 /\ s.im = 1 -> Costs(Call(t, 56), 13)
        [] OTHER -> (CASE IrqVector \div 65536 = 205 -> Costs(Call(t, to), 19)
                       [] IrqVector \div 65536 = 195 -> Costs([t EXCEPT !.pc = to], 12)
                       [] OTHER -> Costs(Call(t, rst), OpCycles(rst)
                                              + (IF rst \in {16, 32, 40, 48, 56} THEN 5 ELSE 0)))
-----------------------------------------------------------------------------
(* The prefixes ED and CB. *)

RETN_OnlyReturns(s) == [Return(s) EXCEPT !.iff1 = s.iff2]

\* RETN looks for an interrupt that came in the handler; RETI does not.
RETN(s) ==
  LET t == Return(s)
      u == [t EXCEPT !.iff1 = 1]
  IN  IF t.iff1 = 0 /\ t.iff2 = 1
      THEN (IF t.irq = 1 THEN take_interrupt(u) ELSE u)
      ELSE [t EXCEPT !.iff1 = t.iff2]
RETI(s) == Return(s)

LD_A(s, v) ==
  [s EXCEPT !.a = v, !.f = (@ \cap {"C"}) \cup SZ[v] \cup Flag("P", s.iff2 = 1)]
LD_R_A(s) == [s EXCEPT !.r = s.a, !.r2 = s.a \div 128]
LD_A_R(s) == LD_A(s, (s.r % 128) + 128 * s.r2)
RRD(s) ==
  LET n == RM(s, Pair(s, "hl"))
      a == 16 * (s.a \div 16) + (n % 16)
  IN  [WM(s, Pair(s, "hl"), (n \div 16) + 16 * (s.a % 16))
         EXCEPT !.a = a, !.f = (@ \cap {"C"}) \cup SZP[a]]
RLD(s) ==
  LET n == RM(s, Pair(s, "hl"))
      a == 16 * (s.a \div 16) + (n \div 16)
  IN  [WM(s, Pair(s, "hl"), 16 * (n % 16) + (s.a % 16))
         EXCEPT !.a = a, !.f = (@ \cap {"C"}) \cup SZP[a]]

\* LDI and LDD, CPI and CPD, INI and IND, OUTI and OUTD: HL goes by n.
LDI(s, n) ==
  LET io == RM(s, Pair(s, "hl"))
      t  == AddPair(AddPair(AddPair(WM(s, Pair(s, "de"), io), "hl", n), "de", n), "bc", -1)
  IN  [t EXCEPT !.f = (@ \cap {"S", "Z", "C"}) \cup Flag("Y", Bit(s.a + io, 1) = 1)
                      \cup Flag("X", Bit(s.a + io, 3) = 1) \cup Flag("P", Pair(t, "bc") # 0)]
CPI(s, n) ==
  LET val  == RM(s, Pair(s, "hl"))
      res  == (s.a - val) % 256
      t    == AddPair(AddPair(s, "hl", n), "bc", -1)
      half == OddBit(s.a, val, res, 4)
      low  == IF half THEN (res - 1) % 256 ELSE res
  IN  [t EXCEPT !.f = (@ \cap {"C"}) \cup (SZ[res] \ {"Y", "X"}) \cup {"N"}
                      \cup Flag("H", half) \cup Flag("Y", Bit(low, 1) = 1)
                      \cup Flag("X", Bit(low, 3) = 1) \cup Flag("P", Pair(t, "bc") # 0)]
\* The flags of INI and OUTI, from the byte, the sum t and B.
IoFlags(b, io, t) ==
  SZ[b] \cup Flag("N", io >= 128) \cup (IF t >= 256 THEN {"H", "C"} ELSE {})
        \cup (SZP[(t % 8) ^^ b] \cap {"P"})
INI(s, n) ==
  LET io == InPort(s, Pair(s, "bc"))
      b  == (s.b - 1) % 256
  IN  [AddPair(WM([s EXCEPT !.b = b], Pair(s, "hl"), io), "hl", n)
         EXCEPT !.f = IoFlags(b, io, ((s.c + n) % 256) + io)]
OUTI(s, n) ==
  LET io == RM(s, Pair(s, "hl"))
      t  == [s EXCEPT !.b = (@ - 1) % 256]
      u  == AddPair(OUT(t, Pair(t, "bc"), io), "hl", n)
  IN  [u EXCEPT !.f = IoFlags(u.b, io, u.l + io)]

\* y is 4 for a step up, 5 for a step down, and 2 more for a repetition.
Repeated(s, y, z) ==
  LET n == IF y % 2 = 0 THEN 1 ELSE -1
      t == CASE z = 0 -> LDI(s, n) [] z = 1 -> CPI(s, n)
             [] z = 2 -> INI(s, n) [] z = 3 -> OUTI(s, n)
      more == CASE z = 0 -> Pair(t, "bc") # 0
                [] z = 1 -> Pair(t, "bc") # 0 /\ "Z" \notin t.f
                [] OTHER -> t.b # 0
  IN  IF y >= 6 /\ more THEN Spend(Skip(t, -2), 5) ELSE t

ed_80_ff(s, o) ==
  IF o \in 160..191 /\ o % 8 < 4 THEN Repeated(s, (o \div 8) % 8, o % 8) ELSE s

ed_00_7f(s, o) ==
  LET y  == (o \div 8) % 8
      z  == o % 8
      rr == <<"bc", "de", "hl", "sp">>[y \div 2 + 1]
      r  == Reg8[y + 1]
      hl == Pair(s, "hl")
      Sum(u) == [SetPair(s, "hl", u.v) EXCEPT !.f = u.f]
      io == InPort(s, Pair(s, "bc"))
      got == [s EXCEPT !.f = (@ \cap {"C"}) \cup SZP[io]]
  IN  CASE o < 64 -> s
        [] o >= 64 /\ z = 0 -> IF r = "m" THEN got ELSE [got EXCEPT ![r] = io]
        [] o >= 64 /\ z = 1 -> OUT(s, Pair(s, "bc"), IF r = "m" THEN 0 ELSE s[r])
        [] o >= 64 /\ z = 2 -> Sum(IF y % 2 = 0 THEN SBC16(s.f, hl, Pair(s, rr))
                                                ELSE ADC16(s.f, hl, Pair(s, rr)))
        [] o >= 64 /\ z = 3 -> IF y % 2 = 0 THEN WM16(Skip(s, 2), ARG16(s), Pair(s, rr))
                               ELSE SetPair(Skip(s, 2), rr, RM16(s, ARG16(s)))
        [] o >= 64 /\ z = 4 -> NEG(s)
        [] o >= 64 /\ z = 5 -> IF y % 2 = 0 THEN RETN(s) ELSE RETI(s)
        [] o >= 64 /\ z = 6 -> [s EXCEPT !.im = IF y % 4 < 2 THEN 0 ELSE (y % 4) - 1]
        [] o >= 64 /\ z = 7 -> (CASE y = 0 -> [s EXCEPT !.i = s.a] [] y = 1 -> LD_R_A(s)
                                  [] y = 2 -> LD_A(s, s.i)         [] y = 3 -> LD_A_R(s)
                                  [] y = 4 -> RRD(s)               [] y = 5 -> RLD(s)
                                  [] OTHER -> s)

ed(s, o) == IF o < 128 THEN ed_00_7f(s, o) ELSE ed_80_ff(s, o)

Rotated(f, y, v) ==
  CASE y = 0 -> RLC(f, v) [] y = 1 -> RRC(f, v) [] y = 2 -> RL(f, v)  [] y = 3 -> RR(f, v)
    [] y = 4 -> SLA(f, v) [] y = 5 -> SRA(f, v) [] y = 6 -> SLL(f, v) [] y = 7 -> SRL(f, v)

\* The operand of an opcode under CB, and the bit or the rotation.
CbGet(s, o)    == Get(s, "hl", Reg8[(o % 8) + 1])
CbPut(s, o, v) == Put(s, "hl", Reg8[(o % 8) + 1], v)
Bit8(o)        == (o \div 8) % 8

cb_00_7f(s, o) ==
  LET u == Rotated(s.f, Bit8(o), CbGet(s, o))
  IN  IF o < 64 THEN [CbPut(s, o, u.v) EXCEPT !.f = u.f]
      ELSE [s EXCEPT !.f = BIT(s.f, Bit8(o), CbGet(s, o))]
cb_80_ff(s, o) ==
  CbPut(s, o, IF o < 192 THEN RES(Bit8(o), CbGet(s, o)) ELSE SET(Bit8(o), CbGet(s, o)))
cb(s, o) ==
  LET t == Addressed(s, "hl", Reg8[(o % 8) + 1])
  IN  IF o < 128 THEN cb_00_7f(t, o) ELSE cb_80_ff(t, o)

\* The byte at EA; what is stored there is also loaded to the register.
XyPut(s, o, v) == WM(CbPut(s, o, v), s.ea, v)
xycb_00_7f(s, o) ==
  LET u == Rotated(s.f, Bit8(o), RM(s, s.ea))
  IN  IF o < 64 THEN [XyPut(s, o, u.v) EXCEPT !.f = u.f]
      ELSE [s EXCEPT !.f = BIT_XY(s.f, Bit8(o), RM(s, s.ea), s.ea)]
xycb_80_ff(s, o) ==
  LET v == RM(s, s.ea)
  IN  XyPut(s, o, IF o < 192 THEN RES(Bit8(o), v) ELSE SET(Bit8(o), v))
xycb(s, o) == IF o < 128 THEN xycb_00_7f(s, o) ELSE xycb_80_ff(s, o)
-----------------------------------------------------------------------------
(* The main table. *)

\* The registers that EX AF and EXX exchange.
Exchange(s, rs) ==
  [k \in DOMAIN s |->
     IF k \in rs THEN s.alt[k]
     ELSE IF k = "alt" THEN [j \in DOMAIN s.alt |-> IF j \in rs THEN s[j] ELSE s.alt[j]]
     ELSE s[k]]

Alu(s, y, v) ==
  CASE y = 0 -> ADD(s, v) [] y = 1 -> ADC(s, v) [] y = 2 -> SUB(s, v) [] y = 3 -> SBC(s, v)
    [] y = 4 -> AND(s, v) [] y = 5 -> XOR(s, v) [] y = 6 -> OR(s, v)  [] y = 7 -> CP(s, v)

Accumulator(s, y) ==
  CASE y = 0 -> RLCA(s) [] y = 1 -> RRCA(s) [] y = 2 -> RLA(s) [] y = 3 -> RRA(s)
    [] y = 4 -> DAA(s)  [] y = 5 -> CPL(s)  [] y = 6 -> SCF(s) [] y = 7 -> CCF(s)

op_00_3f(s, p, o) ==
  LET y  == o \div 8
      z  == o % 8
      rr == <<"bc", "de", p, "sp">>[y \div 2 + 1]
      r  == Reg8[y + 1]
      t  == Addressed(s, p, r)
      to == ARG16(s)
      sum == ADD16(s.f, Pair(s, p), Pair(s, rr))
      less == AddPair(s, rr, -1)
  IN  CASE z = 0 ->
             (CASE y = 0 -> s
                [] y = 1 -> Exchange(s, {"a", "f"})
                [] y = 2 -> LET u == [s EXCEPT !.b = (@ - 1) % 256] IN JR_COND(u, u.b # 0)
                [] y = 3 -> JR(s)
                [] OTHER -> JR_COND(s, Cond(s, y - 4)))
        [] z = 1 -> IF y % 2 = 0 THEN SetPair(Skip(s, 2), rr, to)
                    ELSE [SetPair(s, p, sum.v) EXCEPT !.f = sum.f]
        [] z = 2 ->
             (CASE y \in {0, 2} -> WM(s, Pair(s, rr), s.a)
                [] y \in {1, 3} -> [s EXCEPT !.a = RM(s, Pair(s, rr))]
                [] y = 4 -> WM16(Skip(s, 2), to, Pair(s, p))
                [] y = 5 -> SetPair(Skip(s, 2), p, RM16(s, to))
                [] y = 6 -> WM(Skip(s, 2), to, s.a)
                [] y = 7 -> [Skip(s, 2) EXCEPT !.a = RM(s, to)])
        [] z = 3 ->
             (CASE y % 2 = 0 -> AddPair(s, rr, 1)
                [] y = 1 -> CheckLoop(less, "bc", 0, 1)
                [] y = 3 -> CheckLoop(less, "de", 2, 3)
                [] y = 5 -> IF p = "hl" THEN CheckLoop(less, "hl", 4, 5) ELSE less
                [] y = 7 -> less)
        [] z = 4 -> PutF(t, p, r, INC(t.f, Get(t, p, r)))
        [] z = 5 -> PutF(t, p, r, DEC(t.f, Get(t, p, r)))
        [] z = 6 -> Put(Skip(t, 1), p, r, ARG(t))
        [] z = 7 -> Accumulator(s, y)

\* h and l stay those of HL next to (IX+o).
op_40_7f(s, p, o) ==
  LET to   == Reg8[((o \div 8) % 8) + 1]
      from == Reg8[(o % 8) + 1]
      with == IF "m" \in {to, from} THEN "hl" ELSE p
      t    == IF "m" \in {to, from} THEN EAX(s, p) ELSE s
  IN  IF o = 118 THEN ENTER_HALT(s) ELSE Put(t, with, to, Get(t, with, from))

op_80_bf(s, p, o) ==
  LET r == Reg8[(o % 8) + 1]
      t == Addressed(s, p, r)
  IN  Alu(t, (o \div 8) % 8, Get(t, p, r))

RECURSIVE Op(_, _, _)
RECURSIVE SkipEIs(_)

\* An instruction that is executed with all it costs, from its first byte.
EXEC(s) == LET o == ARG(s) IN Op(Spend(Skip(s, 1), OpCycles(o)), "hl", o)

SkipEIs(s) ==
  IF ARG(s) = 251 THEN SkipEIs(Refresh(Skip(Spend(s, 4), 1), 1)) ELSE s

EI_TakesAtOnce(s) ==
  LET t == SkipEIs(Refresh([s EXCEPT !.iff1 = 1, !.iff2 = 1], 1))
  IN  CASE s.iff1 = 1              -> [s EXCEPT !.iff2 = 1]
        [] s.iff1 = 0 /\ t.irq = 1 -> take_interrupt(t)
        [] OTHER                   -> EXEC(t)

\* With interrupts off, the next instruction comes before an interrupt does.
EI(s) ==
  LET t == SkipEIs(Refresh([s EXCEPT !.iff1 = 1, !.iff2 = 1], 1))
      next == [EXEC([t EXCEPT !.after_EI = TRUE]) EXCEPT !.after_EI = FALSE]
  IN  CASE s.iff1 = 1            -> [s EXCEPT !.iff2 = 1]
        [] s.iff1 = 0 /\ t.irq = 1 -> take_interrupt(next)
        [] OTHER                 -> EXEC(t)

EXEC_cb(s) == LET t == Refresh(s, 1) IN cb(Spend(Skip(t, 1), cc_cb(ARG(t))), ARG(t))
EXEC_ed(s) == LET t == Refresh(s, 1) IN ed(Spend(Skip(t, 1), cc_ed(ARG(t))), ARG(t))

\* After DD or FD.  What the prefix does not change runs as without it.
EXEC_xy(s, p) ==
  LET o == ARG(s)
      t == Spend(Skip(Refresh(s, 1), 1), cc_xy(o))
      u == EAX(Refresh(t, 1), p)
  IN  CASE ~Indexes(o) -> Op(t, "hl", o)
        [] o = 203     -> xycb(Spend(Skip(u, 1), cc_xycb(ARG(u))), ARG(u))
        [] p = "ix" /\ o \in {100, 109} -> t
        [] OTHER       -> Op(Refresh(t, 1), p, o)

op_c0_ff(s, p, o) ==
  LET y  == (o \div 8) % 8
      z  == o % 8
      rr == <<"bc", "de", p, "af">>[y \div 2 + 1]
      n  == Word(ARG(s), s.a)
      t  == Skip(s, 1)
  IN  CASE z = 0 -> RET_COND(s, Cond(s, y))
        [] z = 1 -> (CASE y % 2 = 0 -> POP(s, rr)
                       [] y = 1 -> Return(s)
                       [] y = 3 -> Exchange(s, {"b", "c", "d", "e", "h", "l"})
                       [] y = 5 -> [s EXCEPT !.pc = Pair(s, p)]
                       [] y = 7 -> [s EXCEPT !.sp = Pair(s, p)])
        [] z = 2 -> JP_COND(s, Cond(s, y))
        [] z = 3 -> (CASE y = 0 -> JP(s)
                       [] y = 1 -> EXEC_cb(s)
                       [] y = 2 -> OUT(t, n, s.a)
                       [] y = 3 -> [t EXCEPT !.a = InPort(s, n)]
                       [] y = 4 -> SetPair(WM16(s, s.sp, Pair(s, p)), p, RM16(s, s.sp))
                       [] y = 5 -> SetPair(SetPair(s, "de", Pair(s, "hl")), "hl", Pair(s, "de"))
                       [] y = 6 -> [s EXCEPT !.iff1 = 0, !.iff2 = 0]
                       [] y = 7 -> EI(s))
        [] z = 4 -> CALL_COND(s, Cond(s, y))
        [] z = 5 -> (CASE y % 2 = 0 -> PUSH(s, Pair(s, rr))
                       [] y = 1 -> CALL(s)
                       [] y = 3 -> EXEC_xy(s, "ix")
                       [] y = 5 -> EXEC_ed(s)
                       [] y = 7 -> EXEC_xy(s, "iy"))
        [] z = 6 -> Alu(t, y, ARG(s))
        [] z = 7 -> Call(s, 8 * y)

Op(s, p, o) ==
  CASE o < 64        -> op_00_3f(s, p, o)
    [] o \in 64..127  -> op_40_7f(s, p, o)
    [] o \in 128..191 -> op_80_bf(s, p, o)
    [] o >= 192       -> op_c0_ff(s, p, o)
-----------------------------------------------------------------------------
(* What the program that has the processor calls. *)

z80_reset(mem, ports, hacks) ==
  [pc |-> 0, sp |-> 0, a |-> 0, f |-> {"Z"}, b |-> 0, c |-> 0, d |-> 0, e |-> 0, h |-> 0,
   l |-> 0, hx |-> 255, lx |-> 255, hy |-> 255, ly |-> 255,
   alt |-> [a |-> 0, f |-> {}, b |-> 0, c |-> 0, d |-> 0, e |-> 0, h |-> 0, l |-> 0],
   r |-> 0, r2 |-> 0, i |-> 0, im |-> 0, iff1 |-> 0, iff2 |-> 0, halt |-> FALSE, irq |-> 0,
   nmi |-> 0, extra |-> 0, icount |-> 0, ea |-> 0, after_EI |-> FALSE,
   mem |-> mem, ports |-> ports, hacks |-> hacks]

\* z80_execute, in the steps of its loop.
StartSlice(s, cycles) == [s EXCEPT !.icount = cycles - s.extra, !.extra = 0]
Instruction(s)        == EXEC(Refresh(s, 1))
EndSlice(s)           == [s EXCEPT !.icount = @ - s.extra, !.extra = 0]

RECURSIVE Rest(_)
Rest(s) == LET t == Instruction(s) IN IF t.icount > 0 THEN Rest(t) ELSE t
z80_execute(s, cycles) == EndSlice(Rest(StartSlice(s, cycles)))

z80_set_irq_line(s, state) ==
  IF state = 0 THEN [s EXCEPT !.irq = 0] ELSE take_interrupt([s EXCEPT !.irq = state])

z80_set_nmi_line(s, state) ==
  LET t == LEAVE_HALT([s EXCEPT !.nmi = state, !.iff1 = 0])
  IN  IF s.nmi = state \/ state = 0 THEN [s EXCEPT !.nmi = state]
      ELSE [Call(t, 102) EXCEPT !.extra = @ + 11]
-----------------------------------------------------------------------------
(* DasmZ80 of z80dasm.c: how many bytes an instruction takes, and where it *)
(* says that a jump goes.  A table gives the letters of the arguments of   *)
(* an opcode that the listing looks up; "?" is an opcode it does not know. *)

\* The bytes that a letter takes.
Takes(letter) ==
  CASE letter \in {"A", "N", "W"}      -> 2
    [] letter \in {"B", "O", "P", "X"} -> 1
    [] letter \in {"V", "?"}           -> 0

mnemonic_main(o) ==
  LET y == (o \div 8) % 8  z == o % 8
  IN  CASE o < 64 /\ z = 0 /\ y >= 2       -> {"O"}
        [] o < 64 /\ z = 1 /\ y % 2 = 0    -> {"N"}
        [] o < 64 /\ z = 2 /\ y >= 4       -> {"W"}
        [] o \in 0..63 \cup 192..255 /\ z = 6 -> {"B"}
        [] o \in {195, 205} \/ (o >= 192 /\ z \in {2, 4}) -> {"A"}
        [] o \in {211, 219}                -> {"P"}
        [] o >= 192 /\ z = 7               -> {"V"}
        [] OTHER                           -> {}

mnemonic_ed(o) ==
  CASE o \in 64..127 /\ o % 8 = 3                                   -> {"W"}
    [] o \in (64..127 \ {119, 127}) \cup {n \in 160..191 : n % 8 < 4} -> {}
    [] OTHER                                                        -> {"?"}

mnemonic_xx_OffsetOnly(o) ==
  LET z == o % 8
  IN  CASE ~Indexes(o)       -> {"?"}
        [] o = 33            -> {"N"}
        [] o \in {34, 42}    -> {"W"}
        [] o \in {38, 46}    -> {"B"}
        [] o \in 52..54      -> {"X"}
        [] o \in 112..119 \/ (o \in 64..191 /\ z = 6) -> {"X"}
        [] OTHER             -> {}

mnemonic_xx(o) ==
  LET z == o % 8
  IN  CASE ~Indexes(o)               -> {"?"}
        [] o = 33                    -> {"N"}
        [] o \in {34, 42}            -> {"W"}
        [] o \in {38, 46}            -> {"B"}
        [] o \in {52, 53}            -> {"X"}
        [] o = 54                    -> {"X", "B"}
        [] o \in 112..119 \/ (o \in 64..191 /\ z = 6) -> {"X"}
        [] OTHER                     -> {}

\* After CB the listing names registers, bits and the address it has.
mnemonic_cb(o)    == {}
mnemonic_xx_cb(o) == {}

\* Where the listing finds the letters, and how many bytes come before.
DasmZ80(s, pc) ==
  LET op   == RM(s, pc)
      op1  == RM(s, (pc + 1) % 65536)
      args == CASE op = 203          -> mnemonic_cb(op1)
                [] op = 237          -> mnemonic_ed(op1)
                [] op \in {221, 253} -> IF op1 # 203 THEN mnemonic_xx(op1)
                                        ELSE mnemonic_xx_cb(RM(s, (pc + 3) % 65536))
                [] OTHER             -> mnemonic_main(op)
      first == CASE op \in {203, 237} -> 2
                 [] op \in {221, 253} -> IF op1 = 203 THEN 4 ELSE 2
                 [] OTHER             -> 1
      arg  == (pc + first) % 65536
  IN  [known  |-> "?" \notin args,
       length |-> first + MapThenSumSet(Takes, args),
       goesTo |-> CASE "A" \in args -> {RM16(s, arg)}
                    [] "O" \in args -> {(pc + Signed(RM(s, arg)) + 2) % 65536}
                    [] "V" \in args -> {op & 56}
                    [] OTHER        -> {}]
=============================================================================
