-------------------------------- MODULE Z80Run ------------------------------
(***************************************************************************)
(* The Z80 at work, once with the shortcuts for loops that only wait and   *)
(* once without: fast and plain run the same slices, and see the same      *)
(* changes of their lines.  A job is a program with the interrupts it has  *)
(* to put up with, one instruction to compare with its listing, or a value *)
(* of the accumulator to try the arithmetic on.                            *)
(***************************************************************************)
EXTENDS Z80

CONSTANTS
  Programs, (* programs: mem, the slices and the number of events, nmi and *)
            (* result, the bytes that stand when the program halts; exact  *)
            (* tells whether no delay loop is in it                        *)
  Listed,   (* instructions, as sequences of bytes                         *)
  Operands  (* bytes and words to calculate with                           *)

Main == 256   (* where a program is, below it are the handlers *)
Top  == 512   (* where its stack starts                        *)

VARIABLES
  job,
  fast,     (* the processor with its shortcuts *)
  plain,    (* ... and without                  *)
  slices,   (* bound of the slices run          *)
  events    (* bound of the changes of lines    *)

vars == <<job, fast, plain, slices, events>>

Image(a, bytes) == [b \in {a + k - 1 : k \in DOMAIN bytes} |-> bytes[b - a + 1]]

Both(mem) ==
  /\ fast  = z80_reset(mem, <<>>, TRUE)
  /\ plain = z80_reset(mem, <<>>, FALSE)

InitProgram ==
  \E p \in DOMAIN Programs :
    /\ job = [kind |-> "program", name |-> p]
    /\ Both(Programs[p].mem)
    /\ slices = Programs[p].slices
    /\ events = Programs[p].events

\* The instruction is at Main, with interrupts on and a cycle to go.
Ready(bytes) ==
  [z80_reset(Image(Main, bytes) @@ Image(Top, <<0, 64>>), <<>>, FALSE)
     EXCEPT !.pc = Main, !.sp = Top, !.h = 65, !.hx = 66, !.hy = 67, !.b = 2, !.c = 2,
            !.iff1 = 1, !.iff2 = 1, !.icount = 1]
InitListing ==
  \E bytes \in Listed :
    /\ job = [kind |-> "listing", name |-> bytes]
    /\ fast = Ready(bytes) /\ plain = Ready(bytes)
    /\ slices = 1 /\ events = 0

InitArithmetic ==
  /\ job \in {[kind |-> "arithmetic", name |-> v] : v \in Byte}
  /\ Both(<<>>)
  /\ slices = 0 /\ events = 0

Init == InitProgram \/ InitListing \/ InitArithmetic
-----------------------------------------------------------------------------
Program == Programs[job.name]

Run(cycles) ==
  /\ slices > 0
  /\ slices' = slices - 1
  /\ fast'  = z80_execute(fast, cycles)
  /\ plain' = z80_execute(plain, cycles)
  /\ UNCHANGED <<job, events>>
Slice   == job.kind = "program" /\ \E cycles \in Program.cycles : Run(cycles)
Execute == job.kind = "listing" /\ Run(1)

\* A device raises the line or lets it go: nothing says how long it holds it.
SetIrq ==
  /\ job.kind = "program" /\ slices > 0 /\ events > 0
  /\ fast'  = z80_set_irq_line(fast, 1 - fast.irq)
  /\ plain' = z80_set_irq_line(plain, 1 - plain.irq)
  /\ events' = events - 1
  /\ UNCHANGED <<job, slices>>

Pulse(s) == z80_set_nmi_line(z80_set_nmi_line(s, 1), 0)
PulseNmi ==
  /\ job.kind = "program" /\ slices > 0 /\ events > 0 /\ Program.nmi
  /\ fast' = Pulse(fast) /\ plain' = Pulse(plain)
  /\ events' = events - 1
  /\ UNCHANGED <<job, slices>>

Next == Slice \/ Execute \/ SetIrq \/ PulseNmi
Spec == Init /\ [][Next]_vars
-----------------------------------------------------------------------------
(* What the arithmetic means. *)

Acc(a, c) == [a |-> a, f |-> IF c = 1 THEN {"C"} ELSE {}]

\* The flags of a sum: the carries out of bits 3 and 7, the signed overflow.
AddFlags(a, b, c) ==
  SZ[(a + b + c) % 256]
    \cup Flag("H", (a % 16) + (b % 16) + c > 15) \cup Flag("C", a + b + c > 255)
    \cup Flag("P", Signed(a) + Signed(b) + c \notin -128..127)
SubFlags(a, b, c) ==
  SZ[(a - b - c) % 256] \cup {"N"}
    \cup Flag("H", (a % 16) - (b % 16) - c < 0) \cup Flag("C", a - b - c < 0)
    \cup Flag("P", Signed(a) - Signed(b) - c \notin -128..127)

SumsAgree(a, b, c) ==
  LET s == Acc(a, c)
  IN  /\ ADC(s, b) = [a |-> (a + b + c) % 256, f |-> AddFlags(a, b, c)]
      /\ SBC(s, b) = [a |-> (a - b - c) % 256, f |-> SubFlags(a, b, c)]
      /\ ADD(s, b) = ADC(Acc(a, 0), b) /\ SUB(s, b) = SBC(Acc(a, 0), b)
      /\ CP(s, b).f \ {"Y", "X"} = SUB(s, b).f \ {"Y", "X"}

\* The sum of two words is that of their bytes, low ones first.
WordsAgree(a, b, c) ==
  LET low(op(_, _))  == op(Acc(a % 256, c), b % 256)
      Add(f, s, t)   == [v |-> Word(s.a, t.a), f |-> (t.f \ {"Z"}) \cup f]
      Zero(s, t)     == Flag("Z", s.a = 0 /\ t.a = 0)
      al == low(ADC)  ah == ADC([a |-> a \div 256, f |-> al.f], b \div 256)
      sl == low(SBC)  sh == SBC([a |-> a \div 256, f |-> sl.f], b \div 256)
      f  == Acc(0, c).f
  IN  /\ ADC16(f, a, b) = Add(Zero(al, ah), al, ah)
      /\ SBC16(f, a, b) = Add(Zero(sl, sh), sl, sh)
      /\ c = 0 => LET u == ADD16({"Z"}, a, b)
                   IN  u = [ADC16({}, a, b) EXCEPT !.f = (@ \ {"S", "P"}) \cup {"Z"}]

\* DAA makes the sum and the difference of two digits of theirs each.
Digits(n)  == 16 * (n \div 10) + (n % 10)
DigitsAgree(a, b) ==
  LET sum  == DAA(ADD(Acc(Digits(a), 0), Digits(b)))
      diff == DAA(SUB(Acc(Digits(a), 0), Digits(b)))
  IN  /\ sum.a = Digits((a + b) % 100) /\ Carry(sum.f) = (a + b) \div 100
      /\ diff.a = Digits((a - b) % 100) /\ Carry(diff.f) = (IF a < b THEN 1 ELSE 0)

\* Operations that undo each other, or do the same in another way.
BytesAgree(a, c) ==
  LET f == Acc(a, c).f
      same(u, s) == u.v = s.a /\ u.f \ {"C"} = s.f \ {"C"} /\ Carry(u.f) = c
      back(u, w(_, _)) == w(u.f, u.v).v = a
  IN  /\ same(INC(f, a), ADD(Acc(a, c), 1)) /\ same(DEC(f, a), SUB(Acc(a, c), 1))
      /\ NEG(Acc(a, c)) = SUB(Acc(0, 0), a)
      /\ back(RLC(f, a), RRC) /\ back(RRC(f, a), RLC)
      /\ back(RL(f, a), RR) /\ back(RR(f, a), RL) /\ back(SLA(f, a), RR)
      /\ back(SLL(f, a), RR) /\ back(SRL(f, a), RL) /\ back(SRA(f, a), RL)
      /\ SLA(f, a).v = ADD(Acc(a, c), a).a /\ RLA(Acc(a, c)).a = ADC(Acc(a, c), a).a
      /\ \A k \in 0..7 : /\ "Z" \notin BIT(f, k, SET(k, a)) /\ "Z" \in BIT(f, k, RES(k, a))
                        /\ a \in {SET(k, a), RES(k, a)}
-----------------------------------------------------------------------------
(* Properties *)

\* Skipping the rounds of a loop that only waits changes nothing: after any
\* slices and interrupts the processor is where it would be without, cycle
\* for cycle, and with the refresh register of every round.
HacksAgree ==
  job.kind = "program" =>
    IF Program.exact THEN fast = [plain EXCEPT !.hacks = TRUE] ELSE plain.halt => fast.halt

\* Between instructions no interrupt is left waiting that the program lets
\* through: whoever turns interrupts on has looked at the line.  However
\* interrupts and NMIs nest, and however long the line is held, a program that
\* goes on has its stack and its interrupts back; the handlers do not pile up;
\* and when it halts, its result stands.
ProgramsAreResumed ==
  job.kind = "program" =>
    \A s \in {fast, plain} :
      /\ s.irq = 1 => s.iff1 = 0
      /\ s.pc >= Main => s.sp = Top /\ s.iff1 = 1
      \* a call, an interrupt and what its handler saves, and NMIs
      /\ s.sp > 0 => s.sp >= Top - 6 - 2 * (Program.events - events)
      /\ s.halt => \A a \in DOMAIN Program.result : Peek(s.mem, a) = Program.result[a]

\* The tables of flags that z80_init fills and the half carry of DAA, DEC and
\* the word sums give what the operands say, carries and overflow included.
ArithmeticAgrees ==
  job.kind = "arithmetic" =>
    LET a == job.name
    IN  /\ \A c \in 0..1 :
             /\ BytesAgree(a, c)
             /\ \A b \in Operands : SumsAgree(a, b % 256, c) /\ WordsAgree(Word(255, a), b, c)
        /\ a < 100 => \A b \in 0..99 : DigitsAgree(a, b)

\* The listing of an instruction is as long as what the processor takes of
\* it, and a jump goes where the listing says.
Continuations(s) ==
  LET d == DasmZ80(s, s.pc)
  IN  {(s.pc + d.length) % 65536} \cup d.goesTo
      \* HALT and the repeated instructions; RET; JP (HL), (IX) and (IY)
      \cup {s.pc, RM16(s, s.sp), Pair(s, "hl"), Pair(s, "ix"), Pair(s, "iy")}
RunsAsListed ==
  job.kind = "listing" /\ DasmZ80(plain, plain.pc).known
    => plain'.pc \in Continuations(plain)
=============================================================================
