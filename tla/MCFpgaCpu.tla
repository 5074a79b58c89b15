----------------------------- MODULE MCFpgaCpu ------------------------------
(***************************************************************************)
(* The programs for TLC.  Each starts with instructions that load the      *)
(* registers; then come two or three to test.                              *)
(***************************************************************************)
EXTENDS FpgaCpuRun

Regs(a, x, y, sp, p) == [a |-> a, x |-> x, y |-> y, sp |-> sp, p |-> p]

\* LDX #sp, TXS, LDX #x, LDY #y, LDA #p, PHA, LDA #a, PLP
Start(r) == <<162, r.sp, 154, 162, r.x, 160, r.y, 169, r.p, 72, 169, r.a, 40>>

Image(a, bytes) == [b \in {a + k - 1 : k \in DOMAIN bytes} |-> bytes[b - a + 1]]

\* The vectors, and what an earlier program has left in RAM.
Memory(r) ==
  Image(49152, Start(r)) @@ Image(65530, <<0, 200, 0, 192, 0, 208>>)
  @@ Image(32, <<64, 3>>) @@ Image(248, <<129>>) @@ Image(255, <<16, 2>>) @@ Image(0, <<5>>)
  @@ Image(800, <<127>>) @@ Image(1023, <<255>>)

Operands(m) ==
  CASE m \in {"IMP", "ACC"} -> {<<>>}
    [] m = "IMM" -> {<<1>>, <<127>>, <<128>>, <<255>>}
    [] m = "REL" -> {<<16>>, <<240>>}
    [] m = "ABS" -> {<<32, 3>>, <<0, 192>>}
    [] m \in {"ABX", "ABY", "IND"} -> {<<32, 3>>, <<255, 3>>}
    [] OTHER -> {<<32>>, <<248>>}

TestsOf(insns) == UNION {{<<t[1]>> \o o : o \in Operands(t[3])} : t \in insns}
All == TestsOf(Insns)
Named(ops) == TestsOf({t \in Insns : t[2] \in ops})

\* Instructions that leave each part of the processor in another state: NOP,
\* INC z, LDA (z),Y, PLA, ASL A, LDA a,X, STX z,Y, CMP #, PHP, BIT z, BEQ, JSR,
\* JMP, BRK, RTS, RTI.
First == {<<234>>, <<230, 32>>, <<177, 32>>, <<104>>, <<10>>, <<189, 32, 3>>, <<150, 32>>,
          <<201, 127>>, <<8>>, <<36, 248>>, <<240, 16>>, <<32, 32, 200>>, <<76, 32, 200>>,
          <<0>>, <<96>>, <<64>>}

Silence == [answer |-> <<>>, clocks |-> {1}, gaps |-> {0}]
Nothing == [mem |-> <<>>, heard |-> <<>>]
Program(r, speeds, tests, fall) ==
  [mem |-> Memory(r), speeds |-> speeds, tests |-> tests, lines |-> fall,
   far |-> Silence, result |-> Nothing]

\* LDX #0, LDA #1, STA SERIAL_OUT; wait: LDA SERIAL_READY, AND #1, BEQ wait,
\* LDA SERIAL_IN, STA buffer,X, INX, then what is in rest, CPX #3, BNE wait
SerialRead(rest) ==
  LET loop == <<173, 8, 147, 41, 1, 240, 249, 173, 9, 147, 157, 0, 4, 232>> \o rest \o <<224, 3>>
  IN  <<162, 0, 169, 1, 141, 9, 147>> \o loop \o <<208, 254 - Len(loop)>>
Serial(rest, speeds, clocks, gaps) ==
  [mem |-> Image(49152, SerialRead(rest)) @@ Image(65532, <<0, 192>>), speeds |-> speeds,
   tests |-> <<{<<234>>}>>, lines |-> {},
   far |-> [answer |-> <<1, 240, 90>>, clocks |-> clocks, gaps |-> gaps],
   result |-> [mem |-> Image(1024, <<1, 240, 90>>), heard |-> <<1>>]]

\* LDA #0, STA TIMER_NDX, LDA # a number of ticks, STA TIMER_VL, LDA #1,
\* STA TIMER_WR_EN, STA TIMER_EN, CLI; wait: LDA count, CMP #3, BNE wait, STA result
\* and PHA, LDA #1, STA TIMER_ACK, INC count, LDA count, PLA, RTI
Timer(ticks) ==
  [mem |-> Image(49152, <<169, 0, 141, 1, 147>>)
           @@ Image(49159, <<141, 2, 147, 169, 1, 141, 5, 147, 141, 6, 147, 88,
                             165, 16, 201, 3, 208, 250, 133, 17>>)
           @@ Image(53248, <<72, 169, 1, 141, 7, 147, 230, 16, 165, 16, 104, 64>>)
           @@ Image(65532, <<0, 192, 0, 208>>) @@ Image(16, <<0>>),
   speeds |-> {0}, tests |-> <<{<<169, t>> : t \in ticks}, {<<234>>}>>, lines |-> {},
   far |-> Silence, result |-> [mem |-> Image(17, <<3>>), heard |-> <<>>]]

MCPrograms ==
  [pairs      |-> Program(Regs(128, 3, 9, 255, 0), {0}, <<First, All>>, {}),
   flags      |-> Program(Regs(0, 128, 1, 1, 195), {0}, <<{<<234>>}, All>>, {}),
   decimal    |-> Program(Regs(153, 255, 248, 0, 9), {0}, <<{<<234>>}, All>>, {}),
   slow       |-> Program(Regs(255, 129, 0, 128, 4), {1, 2}, <<{<<234>>}, All>>, {}),
   interrupts |-> Program(Regs(1, 2, 3, 255, 0), {0, 1},
                          <<{<<120>>, <<40>>, <<230, 32>>, <<72>>},
                            {<<234>>, <<64>>, <<88>>}, {<<234>>}>>,
                          {"irq", "nmi"}),
   reset      |-> Program(Regs(1, 2, 3, 255, 197), {0, 1},
                          <<{<<230, 32>>, <<177, 32>>, <<0>>, <<96>>, <<104>>}, {<<234>>}>>,
                          {"reset", "nmi"}),
   serial     |-> Serial(<<>>, {0, 2, 4}, {40, 41, 43}, {0, 50}),
   \* STX CPU_CLK
   changing   |-> Serial(<<142, 0, 147>>, {0, 3}, {41}, {0, 200}),
   timer      |-> Timer(90..110)]

\* What the microcode says of pulls.
DescribedPrograms ==
  [described |-> Program(Regs(128, 3, 9, 255, 0), {0},
                         <<First, Named({"PLA"})>>, {})]
=============================================================================
