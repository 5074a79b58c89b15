------------------------------ MODULE MCCores -------------------------------
(***************************************************************************)
(* What the cores are given to do by TLC.                                  *)
(***************************************************************************)
EXTENDS Cores

(* The jobs of the Z80. *)

\* LD SP,Top; LD A,4; LD I,A; IM; EI; JP Main
Boot(im) == <<49, 0, 2, 62, 4, 237, 71, 237, im, 251, 195, 0, 1>>
Im0 == 70
Im1 == 86
Im2 == 94

\* PUSH AF; INC (1024), by way of A; POP AF; EI; RETI
Handler == <<245, 58, 0, 4, 60, 50, 0, 4, 241, 251, 237, 77>>
\* PUSH AF; XOR A; POP AF; RETN
NmiHandler == <<245, 175, 241, 237, 69>>
\* DI; LD A,(1280); INC A; LD (1280),A; EI; RET
Subroutine == <<243, 58, 0, 5, 60, 50, 0, 5, 251, 201>>
Halt == <<118, 24, 253>>

Memory(im, bytes) ==
  Image(0, Boot(im)) @@ Image(56, Handler) @@ Image(102, NmiHandler) @@ Image(128, Subroutine)
  @@ Image(Main, bytes) @@ Image(1279, <<56>>) @@ Image(1280, <<0, 2, 3, 4>>)
  @@ Image(1300, <<9, 9>>)

\* Loops that wait for an interrupt.
Wait(im, bytes, changes) ==
  [mem |-> Memory(im, bytes), exact |-> TRUE, nmi |-> TRUE, cycles |-> {7, 45},
   slices |-> 3, events |-> changes, result |-> <<>>]
\* Programs with an end.
Work(bytes, exact, a, result) ==
  [mem |-> Memory(Im1, bytes \o Halt), exact |-> exact, nmi |-> TRUE, cycles |-> {30, 150},
   slices |-> 3, events |-> 1, result |-> Image(a, result)]

MCPrograms ==
  [halts  |-> Wait(Im0, Halt, 2),
   jr     |-> Wait(Im1, <<24, 254>>, 1),
   jp     |-> Wait(Im2, <<195, 0, 1>>, 1),
   nop_jr |-> Wait(Im1, <<0, 24, 253>>, 1),
   ei_jr  |-> Wait(Im1, <<251, 24, 253>>, 2),
   ei_jp  |-> Wait(Im2, <<251, 195, 0, 1>>, 2),
   sp_jp  |-> Wait(Im0, <<49, 0, 2, 195, 0, 1>>, 1),
   \* LDIR to 1296, and LDDR one byte up
   ldir   |-> Work(<<33, 0, 5, 17, 16, 5, 1, 3, 0, 237, 176>>, TRUE, 1296, <<0, 2, 3>>),
   lddr   |-> Work(<<33, 2, 5, 17, 3, 5, 1, 3, 0, 237, 184>>, TRUE, 1281, <<0, 2, 3>>),
   \* CPIR for 3; LD (1300),HL
   cpir   |-> Work(<<33, 0, 5, 1, 4, 0, 62, 3, 237, 177, 34, 20, 5>>, TRUE, 1300, <<3, 5>>),
   \* OTIR of three bytes, INIR of two
   otir   |-> Work(<<33, 1, 5, 1, 64, 3, 237, 179, 33, 16, 5, 6, 2, 237, 178>>, TRUE,
                   1296, <<2, 3>>),
   \* 1795 + 8608, in digits
   digits |-> Work(<<33, 149, 23, 17, 8, 134, 125, 131, 39, 111, 124, 138, 39, 103, 34, 20, 5>>,
                   TRUE, 1300, <<3, 4>>),
   \* RLD, LD (1300),A; with IX: INC (IX+2), SET 7,(IX+3)
   indexed |-> Work(<<33, 2, 5, 62, 17, 237, 111, 50, 20, 5, 221, 33, 0, 5, 221, 52, 2,
                      221, 203, 3, 254>>, TRUE, 1282, <<50, 132>>),
   \* CALL, CALL, with interrupts off inside
   calls  |-> Work(<<205, 128, 0, 205, 128, 0>>, TRUE, 1280, <<2>>),
   \* LD BC,5; DEC BC; LD A,B; OR C; JR NZ; LD (1300),BC
   delay_bc |-> Work(<<1, 5, 0, 11, 120, 177, 32, 251, 237, 67, 20, 5>>, FALSE, 1300, <<0, 0>>),
   \* LD DE,5; DEC DE; LD A,E; OR D; JP NZ; LD (1300),DE
   delay_de |-> Work(<<17, 5, 0, 27, 123, 178, 194, 3, 1, 237, 83, 20, 5>>, FALSE,
                     1300, <<0, 0>>),
   delay_hl |-> Work(<<33, 5, 0, 43, 124, 181, 32, 251, 34, 20, 5>>, FALSE, 1300, <<0, 0>>)]

Prefixes == {<<>>, <<203>>, <<237>>, <<221>>, <<253>>, <<221, 203, 5>>, <<253, 203, 250>>}
MCListed == {p \o <<o, 5, 19>> : p \in Prefixes, o \in Byte}

MCOperands == {256 * h + l : h, l \in {0, 15, 127, 128, 255}}
-----------------------------------------------------------------------------
(* The AY-3-8910 and the monitor. *)

MCPsgSongs ==
  {<<<<0, 3>>, <<2, 1>>, <<8, 15>>, <<9, 16>>, <<11, 0>>, <<6, 2>>, <<7, 40>>>>,
   <<<<4, 9>>, <<10, 16>>, <<8, 9>>, <<11, 2>>, <<7, 59>>, <<13, 0>>>>}
MCPsgWrites ==
  {<<0, 40>>, <<6, 1>>, <<7, 120>>, <<7, 145>>, <<8, 0>>, <<11, 1>>, <<15, 60>>}
    \cup {<<13, v>> : v \in {8, 10, 11, 13}}

Reset6502(mem, start, x, y) ==
  [pc |-> start, a |-> 0, x |-> x, y |-> y, sp |-> 255, n |-> 0, v |-> 0, d |-> 0, i |-> 1,
   z |-> 1, c |-> 0, mem |-> mem]

\* The main program at 512: CLI; PHA; JSR 544; PLA; an illegal opcode; BRK.
\* At 544: PHA; JSR 560; PLA; RTS.  At 560: BMI 566; LDX #$80; BNE 560; RTS.
\* The handlers: at 576 LDY #2; RTI, at 592 RTI.
Vectors == Image(65530, <<80, 2, 0, 2, 64, 2>>)
Calls ==
  Vectors @@ Image(512, <<88, 72, 32, 32, 2, 104, 2, 0, 0>>)
  @@ Image(544, <<72, 32, 48, 2, 104, 96>>) @@ Image(560, <<48, 4, 162, 128, 208, 250, 96>>)
  @@ Image(576, <<160, 2, 64>>) @@ Image(592, <<64>>)
\* A program that waits: CLI; JMP 513
Waits ==
  Vectors @@ Image(512, <<88, 76, 1, 2>>) @@ Image(576, <<160, 2, 64>>) @@ Image(592, <<64>>)

User(mem, e, v) == [code |-> DOMAIN mem \ (65530..65535), edits |-> e, events |-> v]
OneInstruction(op, operand, x) ==
  Reset6502(Image(512, <<op>> \o operand) @@ Image(32, <<64, 3>>)
        @@ Image(222, <<64, 3>>) @@ Image(255, <<16>>)
        @@ Image(0, <<5>>) @@ Image(767, <<1, 2>>), 512, x, 200)

MCMonitorPrograms ==
  [edits |-> User(Calls, 2, 0), events |-> User(Calls, 0, 2), waits |-> User(Waits, 1, 1),
   lists |-> [code |-> {512}, edits |-> 0, events |-> 0]]

Start(st, bs, stopped) == [s |-> st, breakpoints |-> bs, prompt |-> stopped]
MCMonitorStarts ==
  LET user(mem) == {Start(Reset6502(mem, 512, 0, 0), <<544>>, TRUE)}
  IN  [edits |-> user(Calls), events |-> user(Calls), waits |-> user(Waits),
       lists |-> {Start(OneInstruction(op, o, x), <<>>, FALSE) :
                    op \in 0..255, x \in {0, 223}, o \in {<<32, 3>>, <<255, 2>>, <<250, 3>>}}]
=============================================================================
